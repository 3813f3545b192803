-------------------------- MODULE LocalFilesProofs --------------------------
(***************************************************************************)
(* The two components that keep their state in local files.               *)
(*                                                                         *)
(* Task files: a transaction that has ended left nothing in the lock      *)
(* directory, for any number of stores, processes that die and leases that *)
(* run out: its place in the program says which of its files may be there, *)
(* and nobody makes files but their owner.  And its write builds on what   *)
(* it has read.                                                            *)
(*                                                                         *)
(* Agent sessions: for any number of calls, prompts, restarts and lost     *)
(* answers, the queue of a session's lock holds the calls that need it,    *)
(* and who has gone on from there is its head.  So a run that starts, a    *)
(* refresh, a write and a removal each find the session as they left it.   *)
(***************************************************************************)
EXTENDS TaskFileLock, AgentRuntime, TLAPS

-----------------------------------------------------------------------------
(* The lock of the local task files *)

Fields == {"pc", "store", "job", "saw", "found", "ask", "lost", "answer",
           "guest", "late"}

Shape ==
    /\ DOMAIN txs = Transactions
    /\ \A t \in Transactions : DOMAIN txs[t] = Fields

\* Where a transaction is while a file of a kind is its own
Signed == {"read", "fence", "mark", "own", "write", "winner", "unmark",
           "unfence", "release", "dead"}
Behind == {"mark", "own", "write", "winner", "unmark", "unfence", "dead"}
Marked == {"own", "write", "winner", "unmark", "dead"}

Where(kind) ==
    IF kind = "owner" THEN Signed
    ELSE IF kind = "fence" THEN Behind ELSE Marked

\* Every file is one its transaction has made and not yet removed.
FilesInPlace == \A f \in files : txs[f.tx].pc \in Where(f.kind)

\* A transaction that has begun has a job that may be asked for.
JobsKnown ==
    \A t \in Transactions : txs[t].pc # "idle" => txs[t].job \in Wanted

IInv == Shape /\ JobsKnown /\ TypeOK /\ FilesInPlace

-----------------------------------------------------------------------------
\* A file is not that of a transaction that is idle or has ended, and may be
\* that of a dead one.
LEMMA PlacesAreInside ==
    ASSUME NEW kind
    PROVE  /\ "idle" \notin Where(kind) /\ "ended" \notin Where(kind)
           /\ "dead" \in Where(kind)
  BY DEF Where, Signed, Behind, Marked

\* Every job has a lock directory.
LEMMA KeyIsKey ==
    ASSUME NEW job \in Wanted
    PROVE  Key(job) \in Keys
<1>1. job \in Jobs
  BY FileLockAssumption
<1>2. CASE job.kind = "update"
  <2>1. job.id \in Ids
    BY <1>1 DEF Jobs
  <2> QED BY <1>2, <2>1 DEF Key, Keys
<1>3. CASE job.kind # "update"
  BY <1>3 DEF Key, Keys
<1> QED BY <1>2, <1>3

\* The files of a directory that was there stay in one that is there, when
\* somebody removes it if it is empty and others keep their jobs.
LEMMA RemovalIsSafe ==
    ASSUME IInv, NEW key \in Keys, RemoveDirectory(key),
           files' \subseteq files,
           \A f \in files : KeyOf(f.tx)' = KeyOf(f.tx)
    PROVE  /\ dirs' \in [Keys -> Transactions \cup {None}]
           /\ \A f \in files' : Exists(KeyOf(f.tx))'
<1>1. dirs' \in [Keys -> Transactions \cup {None}]
  BY DEF IInv, TypeOK, RemoveDirectory
<1>2. ASSUME NEW f \in files' PROVE Exists(KeyOf(f.tx))'
  <2>1. f \in files /\ Exists(KeyOf(f.tx)) /\ f.tx \in Transactions
    BY <1>2 DEF IInv, TypeOK, Files
  <2>2. txs[f.tx].pc # "idle"
    BY <2>1, PlacesAreInside DEF IInv, FilesInPlace
  <2>3. KeyOf(f.tx) \in Keys
    BY <2>1, <2>2, KeyIsKey DEF IInv, JobsKnown, KeyOf
  <2>4. KeyOf(f.tx) = key => ~Empty(key)
    BY <2>1 DEF Empty, In
  <2>5. dirs'[KeyOf(f.tx)] = dirs[KeyOf(f.tx)]
    BY <2>3, <2>4 DEF RemoveDirectory, IInv, TypeOK
  <2> QED BY <2>1, <2>5 DEF Exists
<1> QED BY <1>1, <1>2

-----------------------------------------------------------------------------
\* Who has begun keeps the job, and with it the directory.
LEMMA JobsStay ==
    ASSUME IInv, NEW t \in Transactions, Shape', txs[t].pc # "idle",
           txs'[t].job = txs[t].job,
           \A u \in Transactions \ {t} : txs'[u] = txs[u]
    PROVE  /\ JobsKnown'
           /\ \A u \in Transactions : KeyOf(u)' = KeyOf(u)
  BY DEF IInv, JobsKnown, KeyOf

\* The initial states satisfy the invariant: there is no directory and no file.
LEMMA InitIInv == Init => IInv
  BY DEF Init, IInv, Shape, Fields, JobsKnown, TypeOK, FilesInPlace

\* A step that keeps the directories and makes no file, from a place of t to
\* one where every file of t that is left may be.
LEMMA Stays ==
    ASSUME IInv, NEW t \in Transactions, Shape', txs[t].pc # "idle",
           txs'[t].job = txs[t].job,
           \A u \in Transactions \ {t} : txs'[u] = txs[u],
           UNCHANGED dirs, files' \subseteq files, old' \subseteq files',
           \A f \in files' : f.tx = t => txs'[t].pc \in Where(f.kind)
    PROVE  IInv'
<1>1. JobsKnown' /\ \A u \in Transactions : KeyOf(u)' = KeyOf(u)
  BY JobsStay
<1>2. \A f \in files' : f.tx \in Transactions
  BY DEF IInv, TypeOK, Files
<1>3. TypeOK'
  BY <1>1, <1>2 DEF IInv, TypeOK, Exists
<1>4. FilesInPlace'
  BY <1>2 DEF IInv, FilesInPlace
<1> QED BY <1>1, <1>3, <1>4 DEF IInv

\* A step in which t makes a file in its directory, which is there
LEMMA Makes ==
    ASSUME IInv, NEW t \in Transactions, Shape', txs[t].pc # "idle",
           txs'[t].job = txs[t].job,
           \A u \in Transactions \ {t} : txs'[u] = txs[u],
           NEW kind \in {"owner", "fence", "held"},
           Exists(KeyOf(t)), UNCHANGED dirs, Appear(File(t, kind)),
           txs'[t].pc \in Where(kind),
           \A f \in files : f.tx = t => txs'[t].pc \in Where(f.kind)
    PROVE  IInv'
<1>1. JobsKnown' /\ \A u \in Transactions : KeyOf(u)' = KeyOf(u)
  BY JobsStay
<1>2. File(t, kind) \in Files /\ File(t, kind).tx = t
      /\ File(t, kind).kind = kind
  BY DEF File, Files
<1>3. \A f \in files : f.tx \in Transactions
  BY DEF IInv, TypeOK, Files
<1>4. TypeOK'
  BY <1>1, <1>2, <1>3 DEF IInv, TypeOK, Exists, Appear
<1>5. FilesInPlace'
  BY <1>2, <1>3 DEF IInv, FilesInPlace, Appear
<1> QED BY <1>1, <1>4, <1>5 DEF IInv

\* A step in which t tries to remove its directory
LEMMA Removes ==
    ASSUME IInv, NEW t \in Transactions, Shape', txs[t].pc # "idle",
           txs'[t].job = txs[t].job,
           \A u \in Transactions \ {t} : txs'[u] = txs[u],
           RemoveDirectory(KeyOf(t)), UNCHANGED <<files, old>>,
           \A f \in files : f.tx = t => txs'[t].pc \in Where(f.kind)
    PROVE  IInv'
<1>1. JobsKnown' /\ \A u \in Transactions : KeyOf(u)' = KeyOf(u)
  BY JobsStay
<1>2. KeyOf(t) \in Keys
  BY KeyIsKey DEF IInv, JobsKnown, KeyOf
<1>3. \A f \in files : f.tx \in Transactions
  BY DEF IInv, TypeOK, Files
<1>4. TypeOK'
  <2>1. /\ dirs' \in [Keys -> Transactions \cup {None}]
        /\ \A f \in files' : Exists(KeyOf(f.tx))'
    BY <1>1, <1>2, <1>3, RemovalIsSafe
  <2> QED BY <2>1 DEF IInv, TypeOK
<1>5. FilesInPlace'
  BY <1>3 DEF IInv, FilesInPlace
<1> QED BY <1>1, <1>4, <1>5 DEF IInv

-----------------------------------------------------------------------------
(* The steps of a transaction.                                             *)

\* A file is where its transaction made it, and of that transaction.
LEMMA FileFields ==
    ASSUME NEW t, NEW kind
    PROVE  File(t, kind).tx = t /\ File(t, kind).kind = kind
  BY DEF File

\* The owner file is made in a directory that is there.
LEMMA SignKeeps ==
    ASSUME IInv, NEW t \in Transactions, Sign(t)
    PROVE  IInv'
<1>1. /\ Shape' /\ txs[t].pc # "idle" /\ txs'[t].job = txs[t].job
      /\ \A u \in Transactions \ {t} : txs'[u] = txs[u]
  BY DEF IInv, Shape, Fields, Sign, Move, End
<1>2. UNCHANGED dirs
  BY DEF Sign
<1>3. \A f \in files : f.tx = t => txs'[t].pc \in Where(f.kind)
  BY DEF Sign, Move, End, IInv, Shape, Fields, FilesInPlace, Where, Signed, Behind, Marked, TypeOK, Files
<1>4. CASE Exists(KeyOf(t))
  <2>1. /\ Appear(File(t, "owner")) /\ txs'[t].pc \in Where("owner")
    BY <1>4 DEF Sign, Move, IInv, Shape, Fields, Where, Signed, Behind, Marked
  <2>2. Exists(KeyOf(t))
    BY <1>4, FileFields DEF IInv, TypeOK
  <2> QED BY <1>1, <1>2, <1>3, <2>1, <2>2, Makes
<1>5. CASE ~(Exists(KeyOf(t)))
  <2>1. UNCHANGED <<files, old>>
    BY <1>5 DEF Sign
  <2> QED BY <1>1, <1>2, <1>3, <2>1, Stays DEF IInv, TypeOK
<1> QED BY <1>4, <1>5

\* A claim whose directory is gone has made no file.
LEMMA UnsignKeeps ==
    ASSUME IInv, NEW t \in Transactions, Unsign(t)
    PROVE  IInv'
<1>1. /\ Shape' /\ txs[t].pc # "idle" /\ txs'[t].job = txs[t].job
      /\ \A u \in Transactions \ {t} : txs'[u] = txs[u]
  BY DEF IInv, Shape, Fields, Unsign, Move, End
<1>2. RemoveDirectory(KeyOf(t)) /\ UNCHANGED <<files, old>>
  BY DEF Unsign
<1>3. \A f \in files : f.tx = t => txs'[t].pc \in Where(f.kind)
  BY DEF Unsign, Move, IInv, Shape, Fields, FilesInPlace, Where, Signed, Behind, Marked
<1> QED BY <1>1, <1>2, <1>3, Removes

\* Nothing is made or removed while the files of others are asked for.
LEMMA AskKeeps ==
    ASSUME IInv, NEW t \in Transactions, Ask(t)
    PROVE  IInv'
<1>1. /\ Shape' /\ txs[t].pc # "idle" /\ txs'[t].job = txs[t].job
      /\ \A u \in Transactions \ {t} : txs'[u] = txs[u]
  BY DEF IInv, Shape, Fields, Ask, Move, End
<1>2. UNCHANGED dirs /\ files' \subseteq files /\ old' \subseteq files'
  BY DEF Ask, IInv, TypeOK
<1>3. \A f \in files' : f.tx = t => txs'[t].pc \in Where(f.kind)
  BY FileFields DEF Ask, Move, End, IInv, Shape, Fields, FilesInPlace, Where, Signed, Behind, Marked, TypeOK, Files
<1> QED BY <1>1, <1>2, <1>3, Stays

\* Only what is there is removed, and t itself has no file.
LEMMA SweepKeeps ==
    ASSUME IInv, NEW t \in Transactions, Sweep(t)
    PROVE  IInv'
<1>1. /\ Shape' /\ txs[t].pc # "idle" /\ txs'[t].job = txs[t].job
      /\ \A u \in Transactions \ {t} : txs'[u] = txs[u]
  BY DEF IInv, Shape, Fields, Sweep, Move, End
<1>2. UNCHANGED dirs /\ files' \subseteq files /\ old' \subseteq files'
  BY DEF Sweep, IInv, TypeOK, Vanish
<1>3. \A f \in files' : f.tx = t => txs'[t].pc \in Where(f.kind)
  BY FileFields DEF Sweep, Move, End, IInv, Shape, Fields, FilesInPlace, Where, Signed, Behind, Marked, TypeOK, Files, Vanish
<1> QED BY <1>1, <1>2, <1>3, Stays

\* The directory is removed if it is empty.
LEMMA SweptKeeps ==
    ASSUME IInv, NEW t \in Transactions, Swept(t)
    PROVE  IInv'
<1>1. /\ Shape' /\ txs[t].pc # "idle" /\ txs'[t].job = txs[t].job
      /\ \A u \in Transactions \ {t} : txs'[u] = txs[u]
  BY DEF IInv, Shape, Fields, Swept, Move, End
<1>2. RemoveDirectory(KeyOf(t)) /\ UNCHANGED <<files, old>>
  BY DEF Swept
<1>3. \A f \in files : f.tx = t => txs'[t].pc \in Where(f.kind)
  BY DEF Swept, Move, IInv, Shape, Fields, FilesInPlace, Where, Signed, Behind, Marked
<1> QED BY <1>1, <1>2, <1>3, Removes

\* Who gives up has no file.
LEMMA TimeOutKeeps ==
    ASSUME IInv, NEW t \in Transactions, TimeOut(t)
    PROVE  IInv'
<1>1. /\ Shape' /\ txs[t].pc # "idle" /\ txs'[t].job = txs[t].job
      /\ \A u \in Transactions \ {t} : txs'[u] = txs[u]
  BY DEF IInv, Shape, Fields, TimeOut, Move, End
<1>2. UNCHANGED dirs /\ files' \subseteq files /\ old' \subseteq files'
  BY DEF TimeOut, IInv, TypeOK
<1>3. \A f \in files' : f.tx = t => txs'[t].pc \in Where(f.kind)
  BY FileFields DEF TimeOut, Move, End, IInv, Shape, Fields, FilesInPlace, Where, Signed, Behind, Marked, TypeOK, Files
<1> QED BY <1>1, <1>2, <1>3, Stays

\* The owner file is there from here to the release.
LEMMA ReadKeeps ==
    ASSUME IInv, NEW t \in Transactions, Read(t)
    PROVE  IInv'
<1>1. /\ Shape' /\ txs[t].pc # "idle" /\ txs'[t].job = txs[t].job
      /\ \A u \in Transactions \ {t} : txs'[u] = txs[u]
  BY DEF IInv, Shape, Fields, Read, Move, End
<1>2. UNCHANGED dirs /\ files' \subseteq files /\ old' \subseteq files'
  BY DEF Read, IInv, TypeOK
<1>3. \A f \in files' : f.tx = t => txs'[t].pc \in Where(f.kind)
  BY FileFields DEF Read, Move, End, IInv, Shape, Fields, FilesInPlace, Where, Signed, Behind, Marked, TypeOK, Files
<1> QED BY <1>1, <1>2, <1>3, Stays

\* A refusal goes to the release, with the owner file only.
LEMMA RefuseKeeps ==
    ASSUME IInv, NEW t \in Transactions, Refuse(t)
    PROVE  IInv'
<1>1. /\ Shape' /\ txs[t].pc # "idle" /\ txs'[t].job = txs[t].job
      /\ \A u \in Transactions \ {t} : txs'[u] = txs[u]
  BY DEF IInv, Shape, Fields, Refuse, Move, End
<1>2. UNCHANGED dirs /\ files' \subseteq files /\ old' \subseteq files'
  BY DEF Refuse, IInv, TypeOK
<1>3. \A f \in files' : f.tx = t => txs'[t].pc \in Where(f.kind)
  BY FileFields DEF Refuse, Move, End, IInv, Shape, Fields, FilesInPlace, Where, Signed, Behind, Marked, TypeOK, Files
<1> QED BY <1>1, <1>2, <1>3, Stays

\* The fence is made in a directory that is there.
LEMMA MakeFenceKeeps ==
    ASSUME IInv, NEW t \in Transactions, MakeFence(t)
    PROVE  IInv'
<1>1. /\ Shape' /\ txs[t].pc # "idle" /\ txs'[t].job = txs[t].job
      /\ \A u \in Transactions \ {t} : txs'[u] = txs[u]
  BY DEF IInv, Shape, Fields, MakeFence, Move, End
<1>2. UNCHANGED dirs
  BY DEF MakeFence
<1>3. \A f \in files : f.tx = t => txs'[t].pc \in Where(f.kind)
  BY DEF MakeFence, Move, End, IInv, Shape, Fields, FilesInPlace, Where, Signed, Behind, Marked, TypeOK, Files
<1>4. CASE Exists(KeyOf(t))
  <2>1. /\ Appear(File(t, "fence")) /\ txs'[t].pc \in Where("fence")
    BY <1>4 DEF MakeFence, Move, IInv, Shape, Fields, Where, Signed, Behind, Marked
  <2>2. Exists(KeyOf(t))
    BY <1>4, FileFields DEF IInv, TypeOK
  <2> QED BY <1>1, <1>2, <1>3, <2>1, <2>2, Makes
<1>5. CASE ~(Exists(KeyOf(t)))
  <2>1. UNCHANGED <<files, old>>
    BY <1>5 DEF MakeFence
  <2> QED BY <1>1, <1>2, <1>3, <2>1, Stays DEF IInv, TypeOK
<1> QED BY <1>4, <1>5

\* The mark is made in a fence, and so in a directory, that is there.
LEMMA WriteMarkKeeps ==
    ASSUME IInv, NEW t \in Transactions, WriteMark(t)
    PROVE  IInv'
<1>1. /\ Shape' /\ txs[t].pc # "idle" /\ txs'[t].job = txs[t].job
      /\ \A u \in Transactions \ {t} : txs'[u] = txs[u]
  BY DEF IInv, Shape, Fields, WriteMark, Move, End
<1>2. UNCHANGED dirs
  BY DEF WriteMark
<1>3. \A f \in files : f.tx = t => txs'[t].pc \in Where(f.kind)
  BY DEF WriteMark, Move, End, IInv, Shape, Fields, FilesInPlace, Where, Signed, Behind, Marked, TypeOK, Files
<1>4. CASE File(t, "fence") \in files
  <2>1. /\ Appear(File(t, "held")) /\ txs'[t].pc \in Where("held")
    BY <1>4 DEF WriteMark, Move, IInv, Shape, Fields, Where, Signed, Behind, Marked
  <2>2. Exists(KeyOf(t))
    BY <1>4, FileFields DEF IInv, TypeOK
  <2> QED BY <1>1, <1>2, <1>3, <2>1, <2>2, Makes
<1>5. CASE ~(File(t, "fence") \in files)
  <2>1. UNCHANGED <<files, old>>
    BY <1>5 DEF WriteMark
  <2> QED BY <1>1, <1>2, <1>3, <2>1, Stays DEF IInv, TypeOK
<1> QED BY <1>4, <1>5

\* Who has lost the lock goes by way of the mark and the fence.
LEMMA AssertOwnedKeeps ==
    ASSUME IInv, NEW t \in Transactions, AssertOwned(t)
    PROVE  IInv'
<1>1. /\ Shape' /\ txs[t].pc # "idle" /\ txs'[t].job = txs[t].job
      /\ \A u \in Transactions \ {t} : txs'[u] = txs[u]
  BY DEF IInv, Shape, Fields, AssertOwned, Move, End
<1>2. UNCHANGED dirs /\ files' \subseteq files /\ old' \subseteq files'
  BY DEF AssertOwned, IInv, TypeOK
<1>3. \A f \in files' : f.tx = t => txs'[t].pc \in Where(f.kind)
  BY FileFields DEF AssertOwned, Move, End, IInv, Shape, Fields, FilesInPlace, Where, Signed, Behind, Marked, TypeOK, Files
<1> QED BY <1>1, <1>2, <1>3, Stays

\* The write goes to the mark, or reads the winner first.
LEMMA WriteKeeps ==
    ASSUME IInv, NEW t \in Transactions, Write(t)
    PROVE  IInv'
<1>1. /\ Shape' /\ txs[t].pc # "idle" /\ txs'[t].job = txs[t].job
      /\ \A u \in Transactions \ {t} : txs'[u] = txs[u]
  BY DEF IInv, Shape, Fields, Write, Move, End
<1>2. UNCHANGED dirs /\ files' \subseteq files /\ old' \subseteq files'
  BY DEF Write, IInv, TypeOK
<1>3. \A f \in files' : f.tx = t => txs'[t].pc \in Where(f.kind)
  BY FileFields DEF Write, Move, End, IInv, Shape, Fields, FilesInPlace, Where, Signed, Behind, Marked, TypeOK, Files
<1> QED BY <1>1, <1>2, <1>3, Stays

\* So does who has read the winner.
LEMMA ReadWinnerKeeps ==
    ASSUME IInv, NEW t \in Transactions, ReadWinner(t)
    PROVE  IInv'
<1>1. /\ Shape' /\ txs[t].pc # "idle" /\ txs'[t].job = txs[t].job
      /\ \A u \in Transactions \ {t} : txs'[u] = txs[u]
  BY DEF IInv, Shape, Fields, ReadWinner, Move, End
<1>2. UNCHANGED dirs /\ files' \subseteq files /\ old' \subseteq files'
  BY DEF ReadWinner, IInv, TypeOK
<1>3. \A f \in files' : f.tx = t => txs'[t].pc \in Where(f.kind)
  BY FileFields DEF ReadWinner, Move, End, IInv, Shape, Fields, FilesInPlace, Where, Signed, Behind, Marked, TypeOK, Files
<1> QED BY <1>1, <1>2, <1>3, Stays

\* The mark is gone,
LEMMA UnmarkKeeps ==
    ASSUME IInv, NEW t \in Transactions, Unmark(t)
    PROVE  IInv'
<1>1. /\ Shape' /\ txs[t].pc # "idle" /\ txs'[t].job = txs[t].job
      /\ \A u \in Transactions \ {t} : txs'[u] = txs[u]
  BY DEF IInv, Shape, Fields, Unmark, Move, End
<1>2. UNCHANGED dirs /\ files' \subseteq files /\ old' \subseteq files'
  BY DEF Unmark, IInv, TypeOK, Vanish, File
<1>3. \A f \in files' : f.tx = t => txs'[t].pc \in Where(f.kind)
  BY FileFields DEF Unmark, Move, End, IInv, Shape, Fields, FilesInPlace, Where, Signed, Behind, Marked, TypeOK, Files, Vanish, File
<1> QED BY <1>1, <1>2, <1>3, Stays

\* then the fence,
LEMMA UnfenceKeeps ==
    ASSUME IInv, NEW t \in Transactions, Unfence(t)
    PROVE  IInv'
<1>1. /\ Shape' /\ txs[t].pc # "idle" /\ txs'[t].job = txs[t].job
      /\ \A u \in Transactions \ {t} : txs'[u] = txs[u]
  BY DEF IInv, Shape, Fields, Unfence, Move, End
<1>2. UNCHANGED dirs /\ files' \subseteq files /\ old' \subseteq files'
  BY DEF Unfence, IInv, TypeOK, Vanish, File
<1>3. \A f \in files' : f.tx = t => txs'[t].pc \in Where(f.kind)
  BY FileFields DEF Unfence, Move, End, IInv, Shape, Fields, FilesInPlace, Where, Signed, Behind, Marked, TypeOK, Files, Vanish, File
<1> QED BY <1>1, <1>2, <1>3, Stays

\* then the owner file.
LEMMA ReleaseKeeps ==
    ASSUME IInv, NEW t \in Transactions, Release(t)
    PROVE  IInv'
<1>1. /\ Shape' /\ txs[t].pc # "idle" /\ txs'[t].job = txs[t].job
      /\ \A u \in Transactions \ {t} : txs'[u] = txs[u]
  BY DEF IInv, Shape, Fields, Release, Move, End
<1>2. UNCHANGED dirs /\ files' \subseteq files /\ old' \subseteq files'
  BY DEF Release, IInv, TypeOK, Vanish, File
<1>3. \A f \in files' : f.tx = t => txs'[t].pc \in Where(f.kind)
  BY FileFields DEF Release, Move, End, IInv, Shape, Fields, FilesInPlace, Where, Signed, Behind, Marked, TypeOK, Files, Vanish, File
<1> QED BY <1>1, <1>2, <1>3, Stays

\* The directory goes if nobody else is in it.
LEMMA LeaveKeeps ==
    ASSUME IInv, NEW t \in Transactions, Leave(t)
    PROVE  IInv'
<1>1. /\ Shape' /\ txs[t].pc # "idle" /\ txs'[t].job = txs[t].job
      /\ \A u \in Transactions \ {t} : txs'[u] = txs[u]
  BY DEF IInv, Shape, Fields, Leave, Move, End
<1>2. RemoveDirectory(KeyOf(t)) /\ UNCHANGED <<files, old>>
  BY DEF Leave
<1>3. \A f \in files : f.tx = t => txs'[t].pc \in Where(f.kind)
  BY DEF Leave, Move, IInv, Shape, Fields, FilesInPlace, Where, Signed, Behind, Marked
<1> QED BY <1>1, <1>2, <1>3, Removes

\* A heartbeat touches the owner file or learns that it is gone.
LEMMA HeartbeatKeeps ==
    ASSUME IInv, NEW t \in Transactions, Heartbeat(t)
    PROVE  IInv'
<1>1. /\ Shape' /\ txs[t].pc # "idle" /\ txs'[t].job = txs[t].job
      /\ \A u \in Transactions \ {t} : txs'[u] = txs[u]
  BY DEF IInv, Shape, Fields, Heartbeat, Owns, Fenced
<1>2. UNCHANGED dirs /\ files' \subseteq files /\ old' \subseteq files'
  BY DEF Heartbeat, IInv, TypeOK, File
<1>3. \A f \in files' : f.tx = t => txs'[t].pc \in Where(f.kind)
  BY FileFields DEF Heartbeat, Move, End, IInv, Shape, Fields, FilesInPlace, Where, Signed, Behind, Marked, TypeOK, Files, File
<1> QED BY <1>1, <1>2, <1>3, Stays

\* Files grow old without being removed.
LEMMA ExpireKeeps ==
    ASSUME IInv, NEW t \in Transactions, Expire(t)
    PROVE  IInv'
<1>1. /\ Shape' /\ txs[t].pc # "idle" /\ txs'[t].job = txs[t].job
      /\ \A u \in Transactions \ {t} : txs'[u] = txs[u]
  BY DEF IInv, Shape, Fields, Expire, Owns, Fenced
<1>2. UNCHANGED dirs /\ files' \subseteq files /\ old' \subseteq files'
  BY DEF Expire, IInv, TypeOK, FilesOf
<1>3. \A f \in files' : f.tx = t => txs'[t].pc \in Where(f.kind)
  BY FileFields DEF Expire, Move, End, IInv, Shape, Fields, FilesInPlace, Where, Signed, Behind, Marked, TypeOK, Files, FilesOf
<1> QED BY <1>1, <1>2, <1>3, Stays

\* A transaction that begins has no file yet, and keeps none from before.
LEMMA BeginKeeps ==
    ASSUME IInv, NEW t \in Transactions, Begin(t)
    PROVE  IInv'
<1>1. /\ txs[t].pc = "idle" /\ UNCHANGED <<dirs, files, old>>
      /\ \E s \in Stores, job \in Wanted :
           txs' = [txs EXCEPT ![t].pc = "claim", ![t].store = s,
                              ![t].job = job]
  BY DEF Begin
<1>2. /\ Shape' /\ txs'[t].job \in Wanted
      /\ \A u \in Transactions \ {t} : txs'[u] = txs[u]
  BY <1>1 DEF IInv, Shape, Fields
<1>3. JobsKnown'
  BY <1>2 DEF IInv, JobsKnown
<1>4. \A f \in files : f.tx \in Transactions \ {t}
  BY <1>1, PlacesAreInside DEF IInv, TypeOK, Files, FilesInPlace
<1>5. \A f \in files : txs'[f.tx] = txs[f.tx]
  BY <1>2, <1>4
<1>6. TypeOK' /\ FilesInPlace'
  BY <1>1, <1>5 DEF IInv, TypeOK, FilesInPlace, Exists, KeyOf
<1> QED BY <1>2, <1>3, <1>6 DEF IInv

\* A claim makes a directory where there is none, and no file.
LEMMA ClaimKeeps ==
    ASSUME IInv, NEW t \in Transactions, Claim(t)
    PROVE  IInv'
<1>1. /\ Shape' /\ txs[t].pc # "idle" /\ txs'[t].job = txs[t].job
      /\ \A u \in Transactions \ {t} : txs'[u] = txs[u]
  BY DEF IInv, Shape, Fields, Claim, Move
<1>2. JobsKnown' /\ \A u \in Transactions : KeyOf(u)' = KeyOf(u)
  BY <1>1, JobsStay
<1>3. \A f \in files : f.tx \in Transactions /\ f.tx # t
  BY DEF IInv, TypeOK, Files, FilesInPlace, Claim, Where, Signed, Behind, Marked
<1>4. KeyOf(t) \in Keys
  BY <1>1, KeyIsKey DEF IInv, JobsKnown, KeyOf
<1>5. TypeOK'
  <2>1. dirs' \in [Keys -> Transactions \cup {None}]
    BY <1>4 DEF IInv, TypeOK, Claim
  <2>2. \A k \in Keys : Exists(k) => Exists(k)'
    BY FileLockAssumption DEF IInv, TypeOK, Claim, Exists
  <2>3. \A f \in files : KeyOf(f.tx) \in Keys
    BY <1>3, KeyIsKey, PlacesAreInside DEF IInv, JobsKnown, KeyOf, FilesInPlace
  <2> QED BY <1>2, <1>3, <2>1, <2>2, <2>3 DEF IInv, TypeOK, Claim
<1>6. FilesInPlace'
  BY <1>1, <1>3 DEF IInv, FilesInPlace, Claim
<1> QED BY <1>1, <1>2, <1>5, <1>6 DEF IInv

\* The files of the dead stay where they are.
LEMMA CrashKeeps ==
    ASSUME IInv, NEW s \in Stores, Crash(s)
    PROVE  IInv'
<1> DEFINE Falls(u) == txs[u].store = s /\ ~Ended(u)
<1>1. /\ UNCHANGED <<dirs, files, old>>
      /\ txs' = [u \in Transactions |->
                   IF Falls(u)
                   THEN [txs[u] EXCEPT !.pc = "dead", !.found = {}, !.ask = {}]
                   ELSE txs[u]]
  BY DEF Crash
<1>2. ASSUME NEW u \in Transactions
      PROVE  /\ DOMAIN txs'[u] = Fields /\ txs'[u].job = txs[u].job
             /\ \/ txs'[u].pc = txs[u].pc
                \/ txs[u].pc # "idle" /\ txs'[u].pc = "dead"
  <2>1. CASE Falls(u)
    <3>1. txs'[u] = [txs[u] EXCEPT !.pc = "dead", !.found = {}, !.ask = {}]
      BY <1>1, <2>1
    <3>2. txs[u].pc # "idle"
      BY <2>1 DEF Ended
    <3> QED BY <3>1, <3>2 DEF IInv, Shape, Fields
  <2>2. CASE ~Falls(u)
    <3>1. txs'[u] = txs[u]
      BY <1>1, <2>2
    <3> QED BY <3>1 DEF IInv, Shape
  <2> QED BY <2>1, <2>2
<1>3. Shape'
  BY <1>1, <1>2 DEF Shape
<1>4. \A f \in files : f.tx \in Transactions
  BY DEF IInv, TypeOK, Files
<1>5. JobsKnown'
  BY <1>2 DEF IInv, JobsKnown
<1>6. TypeOK'
  BY <1>1, <1>2, <1>4 DEF IInv, TypeOK, Exists, KeyOf
<1>7. FilesInPlace'
  <2> SUFFICES ASSUME NEW f \in files
               PROVE  txs'[f.tx].pc \in Where(f.kind)
    BY <1>1 DEF FilesInPlace
  <2>1. txs[f.tx].pc \in Where(f.kind)
    BY DEF IInv, FilesInPlace
  <2>2. txs'[f.tx].pc \in {txs[f.tx].pc, "dead"}
    BY <1>2, <1>4
  <2> QED BY <2>1, <2>2, PlacesAreInside
<1> QED BY <1>3, <1>5, <1>6, <1>7 DEF IInv

-----------------------------------------------------------------------------
\* The invariant holds in every reachable state.
LEMMA NextIInv == IInv /\ [Next]_vars => IInv'
<1> SUFFICES ASSUME IInv, [Next]_vars PROVE IInv'
  OBVIOUS
<1>1. ASSUME NEW t \in Transactions, Step(t) PROVE IInv'
  BY <1>1, ClaimKeeps, SignKeeps, UnsignKeeps, AskKeeps, SweepKeeps,
     SweptKeeps, ReadKeeps, MakeFenceKeeps, WriteMarkKeeps, AssertOwnedKeeps,
     WriteKeeps, ReadWinnerKeeps, UnmarkKeeps, UnfenceKeeps, ReleaseKeeps,
     LeaveKeeps DEF Step
<1>2. ASSUME NEW t \in Transactions, Begin(t) PROVE IInv'
  BY <1>2, BeginKeeps
<1>3. ASSUME NEW t \in Transactions, Refuse(t) PROVE IInv'
  BY <1>3, RefuseKeeps
<1>4. ASSUME NEW t \in Transactions, TimeOut(t) PROVE IInv'
  BY <1>4, TimeOutKeeps
<1>5. ASSUME NEW t \in Transactions, Heartbeat(t) PROVE IInv'
  BY <1>5, HeartbeatKeeps
<1>6. ASSUME NEW t \in Transactions, Expire(t) PROVE IInv'
  BY <1>6, ExpireKeeps
<1>7. ASSUME NEW s \in Stores, Crash(s) PROVE IInv'
  BY <1>7, CrashKeeps
<1>8. CASE UNCHANGED vars
  BY <1>8 DEF vars, IInv, Shape, JobsKnown, TypeOK, FilesInPlace, Exists, KeyOf
<1> QED BY <1>1, <1>2, <1>3, <1>4, <1>5, <1>6, <1>7, <1>8 DEF Next

\* A transaction that has ended, in whatever way, has left no owner file, no
\* fence and no mark in a lock directory: withWriteFence and release of
\* #acquireFileLock remove them in every order of errors, and of what other
\* stores do to the directory meanwhile.
THEOREM NothingIsLeft == Spec => []EndedLeavesNothing
<1>1. IInv => EndedLeavesNothing
  <2> SUFFICES ASSUME IInv, NEW f \in files PROVE txs[f.tx].pc # "ended"
    BY DEF EndedLeavesNothing, IInv
  <2> QED BY PlacesAreInside DEF IInv, FilesInPlace
<1> QED BY <1>1, InitIInv, NextIInv, PTL DEF Spec

-----------------------------------------------------------------------------
(***************************************************************************)
(* A write builds on what its transaction has read, as long as nobody      *)
(* signed in another's directory and no lease ran out behind a fence.  The *)
(* argument: an owner file in a directory means that its transaction made  *)
(* the directory, and of those there is one; the owner file of a           *)
(* transaction at its fence is not one that somebody has found to be       *)
(* stale, so that it is still there at the write; and then no other        *)
(* transaction of that lock wrote between the read and the write.          *)
(***************************************************************************)

Owner(t) == File(t, "owner") \in files

\* From the read to the write
Pending == {"fence", "mark", "own", "write"}

\* Whoever signed in its own directory, and is still in it, has it.
OwnerMadeIt ==
    \A t \in Transactions :
        Owner(t) /\ ~txs[t].guest => dirs[KeyOf(t)] = t

\* Nobody removes an entry before all were asked for.
AskedFirst == \A t \in Transactions : txs[t].pc = "sweep" => txs[t].ask = {}

\* Behind a fence in time, the owner file is not stale to anyone.
NotStale ==
    \A t \in Transactions :
        Owner(t) /\ txs[t].pc \in Fenced /\ ~txs[t].late => ~Forfeited(t)

\* What the check of the owner has found is still so at the write.
OwnedAtWrite ==
    \A t \in Transactions :
        txs[t].pc = "write" /\ ~txs[t].late => Owner(t)

LockInv == OwnerMadeIt /\ AskedFirst /\ NotStale /\ OwnedAtWrite

-----------------------------------------------------------------------------
(* The lock.                                                               *)

\* Different transactions and kinds have different files.
LEMMA FilesDiffer ==
    ASSUME NEW t, NEW u, NEW k, NEW l, File(t, k) = File(u, l)
    PROVE  t = u /\ k = l
  BY FileFields

\* The files of a transaction are in a lock directory of the program, which
\* is there and not empty.
LEMMA OwnersAreIn ==
    ASSUME IInv, NEW t \in Transactions, Owner(t)
    PROVE  /\ KeyOf(t) \in Keys /\ ~Empty(KeyOf(t)) /\ Exists(KeyOf(t))
           /\ txs[t].pc \in Signed
<1>1. File(t, "owner").tx = t /\ File(t, "owner").kind = "owner"
  BY FileFields
<1>2. txs[t].pc \in Signed /\ Exists(KeyOf(t))
  BY <1>1 DEF Owner, IInv, FilesInPlace, TypeOK, Where
<1>3. ~Empty(KeyOf(t))
  BY <1>1 DEF Owner, Empty, In
<1>4. KeyOf(t) \in Keys
  BY <1>2, KeyIsKey DEF IInv, JobsKnown, KeyOf, Signed
<1> QED BY <1>2, <1>3, <1>4

LEMMA InitLockInv == Init => LockInv
  BY DEF Init, LockInv, OwnerMadeIt, AskedFirst, NotStale, OwnedAtWrite, Owner,
         Fenced

\* A step of t that leaves what others have signed, and what t has seen of
\* them, and is not the one to the fence, to the write or to the sweep
LEMMA LockStays ==
    ASSUME IInv, LockInv, NEW t \in Transactions,
           \A u \in Transactions \ {t} : txs'[u] = txs[u],
           Owner(t) => txs'[t].job = txs[t].job,
           UNCHANGED dirs \/ (RemoveDirectory(KeyOf(t)) /\ KeyOf(t) \in Keys),
           \A u \in Transactions : Owner(u)' => Owner(u),
           \A u \in Transactions \ {t} : Owner(u) => Owner(u)',
           \A u \in Transactions : File(u, "owner") \in old' =>
                                   File(u, "owner") \in old,
           txs'[t].guest = txs[t].guest, txs'[t].late = txs[t].late,
           txs'[t].found = txs[t].found, txs'[t].ask = txs[t].ask,
           txs'[t].pc \in Fenced => txs[t].pc \in Fenced,
           txs'[t].pc = "write" =>
               txs[t].pc = "write" /\ (Owner(t) => Owner(t)'),
           txs'[t].pc # "sweep"
    PROVE  LockInv'
<1>1. \A u \in Transactions : Owner(u) => KeyOf(u)' = KeyOf(u)
  BY DEF KeyOf
<1>2. OwnerMadeIt'
  <2> SUFFICES ASSUME NEW u \in Transactions, Owner(u)', ~txs'[u].guest
               PROVE  dirs'[KeyOf(u)'] = u
    BY DEF OwnerMadeIt
  <2>1. Owner(u) /\ dirs[KeyOf(u)] = u /\ KeyOf(u)' = KeyOf(u)
    BY <1>1 DEF LockInv, OwnerMadeIt
  <2>2. KeyOf(u) \in Keys /\ ~Empty(KeyOf(u))
    BY <2>1, OwnersAreIn
  <2>3. dirs'[KeyOf(u)] = dirs[KeyOf(u)]
    BY <2>2 DEF RemoveDirectory, IInv, TypeOK
  <2> QED BY <2>1, <2>3
<1>3. AskedFirst'
  BY DEF LockInv, AskedFirst
<1>4. NotStale'
  BY DEF LockInv, NotStale, Forfeited
<1>5. OwnedAtWrite'
  BY DEF LockInv, OwnedAtWrite
<1> QED BY <1>2, <1>3, <1>4, <1>5 DEF LockInv

\* The steps that have nothing to do with the lock of anybody else.
Quiet(t) ==
    \/ Unsign(t) \/ TimeOut(t) \/ Read(t) \/ Refuse(t) \/ WriteMark(t)
    \/ Write(t) \/ ReadWinner(t) \/ Unmark(t) \/ Unfence(t) \/ Release(t)
    \/ Leave(t) \/ Heartbeat(t)

\* What they leave alone
LEMMA QuietLocals ==
    ASSUME IInv, NEW t \in Transactions, Quiet(t)
    PROVE  /\ \A u \in Transactions \ {t} : txs'[u] = txs[u]
           /\ txs'[t].job = txs[t].job
           /\ txs'[t].guest = txs[t].guest /\ txs'[t].late = txs[t].late
           /\ txs'[t].found = txs[t].found /\ txs'[t].ask = txs[t].ask
           /\ txs'[t].pc \in Fenced => txs[t].pc \in Fenced
           /\ txs'[t].pc = "write" => txs[t].pc = "write"
           /\ txs[t].pc # "idle" /\ txs'[t].pc # "sweep"
<1> USE DEF IInv, Shape, Fields, Fenced, Move, End
<1>1. CASE Unsign(t) BY <1>1 DEF Unsign
<1>2. CASE TimeOut(t) BY <1>2 DEF TimeOut
<1>3. CASE Read(t) BY <1>3 DEF Read
<1>4. CASE Refuse(t) BY <1>4 DEF Refuse
<1>5. CASE WriteMark(t) BY <1>5 DEF WriteMark
<1>6. CASE Write(t) BY <1>6 DEF Write
<1>7. CASE ReadWinner(t) BY <1>7 DEF ReadWinner
<1>8. CASE Unmark(t) BY <1>8 DEF Unmark
<1>9. CASE Unfence(t) BY <1>9 DEF Unfence
<1>10. CASE Release(t) BY <1>10 DEF Release
<1>11. CASE Leave(t) BY <1>11 DEF Leave
<1>12. CASE Heartbeat(t) BY <1>12 DEF Heartbeat, Owns
<1> QED BY <1>1, <1>2, <1>3, <1>4, <1>5, <1>6, <1>7, <1>8, <1>9, <1>10,
           <1>11, <1>12 DEF Quiet

LEMMA QuietFiles ==
    ASSUME IInv, NEW t \in Transactions, Quiet(t)
    PROVE  /\ UNCHANGED dirs \/ RemoveDirectory(KeyOf(t))
           /\ \A u \in Transactions : Owner(u)' => Owner(u)
           /\ \A u \in Transactions \ {t} : Owner(u) => Owner(u)'
           /\ \A u \in Transactions :
                 File(u, "owner") \in old' => File(u, "owner") \in old
           /\ txs'[t].pc = "write" => (Owner(t) => Owner(t)')
<1> USE FileFields
    DEF IInv, Shape, Fields, Owner, Move, End, Vanish, Appear
<1>1. CASE Unsign(t) BY <1>1 DEF Unsign
<1>2. CASE TimeOut(t) BY <1>2 DEF TimeOut
<1>3. CASE Read(t) BY <1>3 DEF Read
<1>4. CASE Refuse(t) BY <1>4 DEF Refuse
<1>5. CASE WriteMark(t) BY <1>5 DEF WriteMark
<1>6. CASE Write(t) BY <1>6 DEF Write
<1>7. CASE ReadWinner(t) BY <1>7 DEF ReadWinner
<1>8. CASE Unmark(t) BY <1>8 DEF Unmark
<1>9. CASE Unfence(t) BY <1>9 DEF Unfence
<1>10. CASE Release(t) BY <1>10 DEF Release
<1>11. CASE Leave(t) BY <1>11 DEF Leave
<1>12. CASE Heartbeat(t) BY <1>12 DEF Heartbeat
<1> QED BY <1>1, <1>2, <1>3, <1>4, <1>5, <1>6, <1>7, <1>8, <1>9, <1>10,
           <1>11, <1>12 DEF Quiet

LEMMA QuietLock ==
    ASSUME IInv, LockInv, NEW t \in Transactions, Quiet(t)
    PROVE  LockInv'
<1>1. KeyOf(t) \in Keys
  BY QuietLocals, KeyIsKey DEF IInv, JobsKnown, KeyOf
<1> QED BY <1>1, QuietLocals, QuietFiles, LockStays

-----------------------------------------------------------------------------
(* The steps that the lock depends on.                                     *)

LEMMA BeginLock ==
    ASSUME IInv, LockInv, NEW t \in Transactions, Begin(t)
    PROVE  LockInv'
<1>1. /\ txs[t].pc = "idle" /\ UNCHANGED <<dirs, files, old>>
      /\ \E s \in Stores, job \in Wanted :
           txs' = [txs EXCEPT ![t].pc = "claim", ![t].store = s,
                              ![t].job = job]
  BY DEF Begin
<1>2. /\ \A u \in Transactions \ {t} : txs'[u] = txs[u]
      /\ txs'[t].guest = txs[t].guest /\ txs'[t].late = txs[t].late
      /\ txs'[t].found = txs[t].found /\ txs'[t].ask = txs[t].ask
      /\ txs'[t].pc = "claim"
  BY <1>1 DEF IInv, Shape, Fields
<1>3. ~Owner(t)
  BY <1>1, OwnersAreIn DEF Signed
<1>4. \A u \in Transactions : Owner(u)' <=> Owner(u)
  BY <1>1 DEF Owner
<1>5. txs'[t].pc \notin Fenced \cup {"write", "sweep"}
  BY <1>2 DEF Fenced
<1>6. /\ UNCHANGED dirs
      /\ \A u \in Transactions :
            File(u, "owner") \in old' => File(u, "owner") \in old
  BY <1>1
<1> QED BY <1>2, <1>3, <1>4, <1>5, <1>6, LockStays

\* A claim makes a directory only where nobody can be, and asks for the owner
\* files it finds.
LEMMA ClaimLock ==
    ASSUME IInv, LockInv, NEW t \in Transactions, Claim(t)
    PROVE  LockInv'
<1>1. /\ \A u \in Transactions \ {t} : txs'[u] = txs[u]
      /\ txs'[t].job = txs[t].job /\ txs'[t].guest = txs[t].guest
      /\ txs'[t].late = txs[t].late /\ txs'[t].pc \in {"ask", "sign"}
      /\ UNCHANGED <<files, old>>
  BY DEF IInv, Shape, Fields, Claim, Move
<1>2. \A u \in Transactions : Owner(u)' = Owner(u) /\ KeyOf(u)' = KeyOf(u)
  BY <1>1 DEF Owner, KeyOf
<1>3. OwnerMadeIt'
  <2> SUFFICES ASSUME NEW u \in Transactions, Owner(u), ~txs[u].guest
               PROVE  dirs'[KeyOf(u)] = u
    BY <1>1, <1>2 DEF OwnerMadeIt
  <2>1. dirs[KeyOf(u)] = u /\ KeyOf(u) \in Keys /\ Exists(KeyOf(u))
    BY OwnersAreIn DEF LockInv, OwnerMadeIt
  <2> QED BY <2>1 DEF Claim, IInv, TypeOK
<1>4. AskedFirst'
  BY <1>1 DEF LockInv, AskedFirst
<1>5. \A u \in Transactions :
        File(u, "owner") \in txs'[t].found \ txs'[t].ask =>
            File(u, "owner") \in txs[t].found \ txs[t].ask
  <2>1. CASE txs'[t].found = txs[t].found /\ txs'[t].ask = txs[t].ask
    BY <2>1
  <2>2. CASE \A f \in txs'[t].found :
                f.kind = "owner" => f \in txs'[t].ask
    BY <2>2, FileFields
  <2>3. CASE Exists(KeyOf(t))
    <3> DEFINE seen == Entries(KeyOf(t))
    <3>1. /\ txs'[t].found = seen \cup Marks(seen)
          /\ txs'[t].ask = {f \in seen : f.kind = "owner"} \cup Marks(seen)
      BY <2>3 DEF IInv, Shape, Fields, Claim
    <3> QED BY <2>2, <3>1
  <2>4. CASE ~Exists(KeyOf(t))
    BY <2>1, <2>4 DEF IInv, Shape, Fields, Claim, Move
  <2> QED BY <2>3, <2>4
<1>6. NotStale'
  BY <1>1, <1>2, <1>5 DEF LockInv, NotStale, Forfeited, Fenced
<1>7. OwnedAtWrite'
  BY <1>1, <1>2 DEF LockInv, OwnedAtWrite
<1> QED BY <1>3, <1>4, <1>6, <1>7 DEF LockInv

\* Only here does an owner file appear: it is in its own directory, or in
\* that of another.
LEMMA SignLock ==
    ASSUME IInv, LockInv, NEW t \in Transactions, Sign(t)
    PROVE  LockInv'
<1>1. /\ \A u \in Transactions \ {t} : txs'[u] = txs[u]
      /\ txs'[t].job = txs[t].job /\ txs'[t].late = txs[t].late
      /\ txs'[t].found = txs[t].found /\ txs'[t].ask = txs[t].ask
      /\ txs'[t].pc \in {"read", "unsign"}
      /\ UNCHANGED <<dirs, old>>
      /\ \A u \in Transactions \ {t} : Owner(u)' = Owner(u)
      /\ Owner(t)' => txs'[t].guest = (txs[t].guest \/ dirs[KeyOf(t)] # t)
  <2>1. ~Owner(t)
    BY OwnersAreIn DEF Sign, Signed
  <2> QED BY <2>1, FileFields
          DEF IInv, Shape, Fields, Sign, Move, Appear, Owner
<1>2. \A u \in Transactions : KeyOf(u)' = KeyOf(u)
  BY <1>1 DEF KeyOf
<1>3. OwnerMadeIt'
  BY <1>1, <1>2 DEF LockInv, OwnerMadeIt
<1>4. AskedFirst'
  BY <1>1 DEF LockInv, AskedFirst
<1>5. NotStale'
  BY <1>1 DEF LockInv, NotStale, Forfeited, Fenced
<1>6. OwnedAtWrite'
  BY <1>1 DEF LockInv, OwnedAtWrite
<1> QED BY <1>3, <1>4, <1>5, <1>6 DEF LockInv

\* Whoever is behind a fence in time is found to keep the lock.
LEMMA AskLock ==
    ASSUME IInv, LockInv, NEW t \in Transactions, Ask(t)
    PROVE  LockInv'
<1>1. /\ \A u \in Transactions \ {t} : txs'[u] = txs[u]
      /\ txs'[t].job = txs[t].job /\ txs'[t].guest = txs[t].guest
      /\ txs'[t].late = txs[t].late /\ txs'[t].pc \in {"ask", "retry", "sweep"}
      /\ UNCHANGED <<dirs, files, old>>
      /\ txs'[t].pc = "sweep" => txs'[t].ask = {}
  BY DEF IInv, Shape, Fields, Ask, Move
<1>2. \A u \in Transactions : Owner(u)' = Owner(u) /\ KeyOf(u)' = KeyOf(u)
  BY <1>1 DEF Owner, KeyOf
<1>3. \A f : f \in txs'[t].found \ txs'[t].ask =>
                f \in txs[t].found \ txs[t].ask \/ ~Keeps(f)
  BY DEF IInv, Shape, Fields, Ask, Move
<1>4. OwnerMadeIt'
  BY <1>1, <1>2 DEF LockInv, OwnerMadeIt
<1>5. AskedFirst'
  BY <1>1 DEF LockInv, AskedFirst
<1>6. NotStale'
  <2> SUFFICES ASSUME NEW u \in Transactions, Owner(u), txs'[u].pc \in Fenced,
                      ~txs'[u].late
               PROVE  ~Forfeited(u)'
    BY <1>2 DEF NotStale
  <2>1. /\ txs[u].pc \in Fenced /\ ~Forfeited(u)
    BY <1>1 DEF LockInv, NotStale, Fenced
  <2>2. Keeps(File(u, "owner"))
    BY <2>1, FileFields DEF Keeps, Forfeited, Owner, Fenced, Dead
  <2> QED BY <1>1, <1>3, <2>1, <2>2 DEF Forfeited
<1>7. OwnedAtWrite'
  BY <1>1, <1>2 DEF LockInv, OwnedAtWrite
<1> QED BY <1>4, <1>5, <1>6, <1>7 DEF LockInv

\* What is removed was found to be stale, and so is not the owner file of one
\* who is at the write.
LEMMA SweepLock ==
    ASSUME IInv, LockInv, NEW t \in Transactions, Sweep(t)
    PROVE  LockInv'
<1>1. PICK f \in txs[t].found :
        /\ txs' = [txs EXCEPT ![t].found = @ \ {f}]
        /\ Vanish(IF Goes(f) THEN {f} ELSE {})
  BY DEF Sweep
<1>2. /\ txs[t].pc = "sweep" /\ txs[t].ask = {} /\ UNCHANGED dirs
  BY DEF LockInv, AskedFirst, Sweep
<1>3. /\ \A u \in Transactions \ {t} : txs'[u] = txs[u]
      /\ txs'[t].job = txs[t].job /\ txs'[t].guest = txs[t].guest
      /\ txs'[t].late = txs[t].late /\ txs'[t].pc = txs[t].pc
      /\ txs'[t].ask = txs[t].ask /\ txs'[t].found \subseteq txs[t].found
  BY <1>1 DEF IInv, Shape, Fields
<1>4. /\ \A u \in Transactions : KeyOf(u)' = KeyOf(u) /\ (Owner(u)' => Owner(u))
      /\ \A u \in Transactions : Owner(u) => Owner(u)' \/ f = File(u, "owner")
      /\ old' \subseteq old
  BY <1>1, <1>3 DEF Owner, KeyOf, Vanish
<1>5. OwnerMadeIt'
  BY <1>2, <1>3, <1>4 DEF LockInv, OwnerMadeIt
<1>6. AskedFirst'
  BY <1>3 DEF LockInv, AskedFirst
<1>7. NotStale'
  BY <1>3, <1>4 DEF LockInv, NotStale, Forfeited
<1>8. OwnedAtWrite'
  <2> SUFFICES ASSUME NEW u \in Transactions, txs'[u].pc = "write",
                      ~txs'[u].late
               PROVE  Owner(u)'
    BY DEF OwnedAtWrite
  <2>1. txs[u].pc = "write" /\ ~txs[u].late /\ Owner(u)
    BY <1>3 DEF LockInv, OwnedAtWrite
  <2>2. ~Forfeited(u)
    BY <2>1 DEF LockInv, NotStale, Fenced
  <2>3. f # File(u, "owner")
    BY <1>2, <2>2 DEF Forfeited
  <2> QED BY <1>4, <2>1, <2>3
<1> QED BY <1>5, <1>6, <1>7, <1>8 DEF LockInv

\* A sweep that is over removes a directory with nobody in it.
LEMMA SweptLock ==
    ASSUME IInv, LockInv, NEW t \in Transactions, Swept(t)
    PROVE  LockInv'
<1>1. /\ \A u \in Transactions \ {t} : txs'[u] = txs[u]
      /\ txs'[t].job = txs[t].job
      /\ txs'[t].guest = txs[t].guest /\ txs'[t].late = txs[t].late
      /\ txs'[t].found = txs[t].found /\ txs'[t].ask = txs[t].ask
      /\ txs'[t].pc = "retry" /\ txs[t].pc # "idle"
  BY DEF IInv, Shape, Fields, Swept, Move
<1>2. KeyOf(t) \in Keys
  BY <1>1, KeyIsKey DEF IInv, JobsKnown, KeyOf
<1>3. RemoveDirectory(KeyOf(t)) /\ UNCHANGED <<files, old>>
  BY DEF Swept
<1>4. \A u \in Transactions : Owner(u)' <=> Owner(u)
  BY <1>3 DEF Owner
<1>5. txs'[t].pc \notin Fenced
  BY <1>1 DEF Fenced
<1> QED BY <1>1, <1>2, <1>3, <1>4, <1>5, LockStays

\* Whoever makes a fence notes whether the lease has run out.
LEMMA MakeFenceLock ==
    ASSUME IInv, LockInv, NEW t \in Transactions, MakeFence(t)
    PROVE  LockInv'
<1>1. /\ \A u \in Transactions \ {t} : txs'[u] = txs[u]
      /\ txs'[t].job = txs[t].job /\ txs'[t].guest = txs[t].guest
      /\ txs'[t].found = txs[t].found /\ txs'[t].ask = txs[t].ask
      /\ \/ txs'[t].pc = "mark" /\ txs'[t].late = (txs[t].late \/ Forfeited(t))
         \/ txs'[t].pc = "release"
      /\ UNCHANGED <<dirs, old>>
  BY DEF IInv, Shape, Fields, MakeFence, Move, End, Appear
<1>2. \A u \in Transactions : Owner(u)' <=> Owner(u)
  BY FileFields DEF Owner, MakeFence, Appear
<1>3. OwnerMadeIt'
  BY <1>1, <1>2 DEF LockInv, OwnerMadeIt, KeyOf
<1>4. AskedFirst'
  BY <1>1 DEF LockInv, AskedFirst
<1>5. NotStale'
  BY <1>1, <1>2 DEF LockInv, NotStale, Forfeited, Fenced
<1>6. OwnedAtWrite'
  BY <1>1, <1>2 DEF LockInv, OwnedAtWrite
<1> QED BY <1>3, <1>4, <1>5, <1>6 DEF LockInv

\* The step to the write is that of one whose owner file is there.
LEMMA AssertOwnedLock ==
    ASSUME IInv, LockInv, NEW t \in Transactions, AssertOwned(t)
    PROVE  LockInv'
<1>1. /\ \A u \in Transactions \ {t} : txs'[u] = txs[u]
      /\ txs'[t].job = txs[t].job /\ txs'[t].guest = txs[t].guest
      /\ txs'[t].late = txs[t].late
      /\ txs'[t].found = txs[t].found /\ txs'[t].ask = txs[t].ask
      /\ txs[t].pc \in Fenced
      /\ \/ txs'[t].pc = "write" /\ Owner(t)
         \/ txs'[t].pc = "unmark"
      /\ UNCHANGED <<dirs, files, old>>
  BY DEF IInv, Shape, Fields, AssertOwned, Move, End, IsOwned, Owner, Fenced
<1>2. \A u \in Transactions : Owner(u)' <=> Owner(u)
  BY <1>1 DEF Owner
<1>3. OwnerMadeIt'
  BY <1>1, <1>2 DEF LockInv, OwnerMadeIt, KeyOf
<1>4. AskedFirst'
  BY <1>1 DEF LockInv, AskedFirst
<1>5. NotStale'
  BY <1>1, <1>2 DEF LockInv, NotStale, Forfeited
<1>6. OwnedAtWrite'
  BY <1>1, <1>2 DEF LockInv, OwnedAtWrite
<1> QED BY <1>3, <1>4, <1>5, <1>6 DEF LockInv

\* A lease that runs out makes its transaction late, if it is at its fence.
LEMMA ExpireLock ==
    ASSUME IInv, LockInv, NEW t \in Transactions, Expire(t)
    PROVE  LockInv'
<1>1. /\ \A u \in Transactions \ {t} : txs'[u] = txs[u]
      /\ txs'[t].job = txs[t].job /\ txs'[t].guest = txs[t].guest
      /\ txs'[t].pc = txs[t].pc
      /\ txs'[t].late = (txs[t].late \/ txs[t].pc \in Fenced)
      /\ txs'[t].found = txs[t].found /\ txs'[t].ask = txs[t].ask
      /\ UNCHANGED <<dirs, files>>
  BY DEF IInv, Shape, Fields, Expire
<1>2. \A u \in Transactions : Owner(u)' <=> Owner(u)
  BY <1>1 DEF Owner
<1>3. \A u \in Transactions \ {t} :
        File(u, "owner") \in old' => File(u, "owner") \in old
  BY FileFields DEF Expire, FilesOf
<1>4. OwnerMadeIt'
  BY <1>1, <1>2 DEF LockInv, OwnerMadeIt, KeyOf
<1>5. AskedFirst'
  BY <1>1 DEF LockInv, AskedFirst
<1>6. NotStale'
  BY <1>1, <1>2, <1>3 DEF LockInv, NotStale, Forfeited
<1>7. OwnedAtWrite'
  BY <1>1, <1>2 DEF LockInv, OwnedAtWrite, Fenced
<1> QED BY <1>4, <1>5, <1>6, <1>7 DEF LockInv

\* The dead are behind no fence, and find nothing.
LEMMA CrashLocals ==
    ASSUME IInv, NEW s \in Stores, Crash(s), NEW u \in Transactions
    PROVE  \/ txs'[u] = txs[u]
           \/ /\ txs'[u].pc = "dead" /\ txs'[u].found = {}
              /\ txs'[u].job = txs[u].job /\ txs'[u].guest = txs[u].guest
              /\ txs'[u].late = txs[u].late /\ txs[u].pc # "idle"
<1> DEFINE Falls == txs[u].store = s /\ ~Ended(u)
<1>1. CASE Falls
  <2>1. txs'[u] = [txs[u] EXCEPT !.pc = "dead", !.found = {}, !.ask = {}]
    BY <1>1 DEF Crash
  <2>2. txs[u].pc # "idle"
    BY <1>1 DEF Ended
  <2> QED BY <2>1, <2>2 DEF IInv, Shape, Fields
<1>2. CASE ~Falls
  BY <1>2 DEF Crash
<1> QED BY <1>1, <1>2

LEMMA CrashLock ==
    ASSUME IInv, LockInv, NEW s \in Stores, Crash(s)
    PROVE  LockInv'
<1>1. UNCHANGED <<dirs, files, old>>
  BY DEF Crash
<1>2. \A u \in Transactions : Owner(u)' <=> Owner(u)
  BY <1>1 DEF Owner
<1>3. OwnerMadeIt'
  BY <1>1, <1>2, CrashLocals DEF LockInv, OwnerMadeIt, KeyOf
<1>4. AskedFirst'
  BY CrashLocals DEF LockInv, AskedFirst
<1>5. NotStale'
  BY <1>1, <1>2, CrashLocals DEF LockInv, NotStale, Forfeited, Fenced
<1>6. OwnedAtWrite'
  BY <1>2, CrashLocals DEF LockInv, OwnedAtWrite
<1> QED BY <1>3, <1>4, <1>5, <1>6 DEF LockInv

\* The lock holds what it promises.
LEMMA NextLockInv == IInv /\ LockInv /\ [Next]_vars => LockInv'
<1> SUFFICES ASSUME IInv, LockInv, [Next]_vars PROVE LockInv'
  OBVIOUS
<1>1. CASE UNCHANGED vars
  BY <1>1 DEF vars, LockInv, OwnerMadeIt, AskedFirst, NotStale, OwnedAtWrite,
              Owner, Forfeited, KeyOf
<1>2. ASSUME NEW s \in Stores, Crash(s) PROVE LockInv'
  BY <1>2, CrashLock
<1>3. ASSUME NEW t \in Transactions, Quiet(t) PROVE LockInv'
  BY <1>3, QuietLock
<1>4. ASSUME NEW t \in Transactions,
             \/ Begin(t) \/ Claim(t) \/ Sign(t) \/ Ask(t) \/ Sweep(t)
             \/ Swept(t) \/ MakeFence(t) \/ AssertOwned(t) \/ Expire(t)
      PROVE  LockInv'
  BY <1>4, BeginLock, ClaimLock, SignLock, AskLock, SweepLock, SweptLock,
     MakeFenceLock, AssertOwnedLock, ExpireLock
<1> QED BY <1>1, <1>2, <1>3, <1>4 DEF Next, Step, Quiet

-----------------------------------------------------------------------------
(* The tasks.                                                              *)

Task == [name : Names, by : Transactions \cup {None}]

TasksOK == tasks \in [Ids -> Task \cup {None}]

\* The task of an update is there, and its writer has seen one.
UpdatesFindTask ==
    \A t \in Transactions :
        txs[t].pc # "idle" /\ txs[t].job.kind = "update" =>
            /\ tasks[txs[t].job.id] \in Task
            /\ txs[t].pc \in Pending => txs[t].saw \in Task

\* The writer of a creation has seen that its task is not there.
CreationsFindNone ==
    \A t \in Transactions :
        txs[t].pc \in Pending /\ txs[t].job.kind = "create" =>
            txs[t].saw = None

NamesDiffer ==
    \A i, j \in Ids :
        /\ tasks[i] # None /\ tasks[j] # None
        /\ tasks[i].name = tasks[j].name
        => i = j

\* What a writer has read is still so while its owner file is there.
ReadHolds ==
    \A t \in Transactions :
        txs[t].pc \in Pending /\ Owner(t) =>
            IF txs[t].job.kind = "update"
            THEN txs[t].saw = tasks[txs[t].job.id]
            ELSE \A i \in Ids :
                   tasks[i] # None => tasks[i].name # txs[t].job.name

DataInv ==
    /\ TasksOK /\ UpdatesFindTask /\ CreationsFindNone
    /\ InTime => NamesDiffer /\ ReadHolds

\* A request is an update or a creation, of a task of the project.
LEMMA JobKinds ==
    ASSUME IInv, NEW t \in Transactions, txs[t].pc # "idle"
    PROVE  /\ txs[t].job.id \in Ids
           /\ \/ txs[t].job.kind = "update" /\ KeyOf(t) = txs[t].job.id
              \/ /\ txs[t].job.kind = "create" /\ KeyOf(t) = "project"
                 /\ txs[t].job.name \in Names
<1>1. txs[t].job \in Jobs
  BY FileLockAssumption DEF IInv, JobsKnown
<1>2. \/ txs[t].job \in [kind : {"update"}, id : Ids]
      \/ txs[t].job \in [kind : {"create"}, id : Ids, name : Names]
  BY <1>1 DEF Jobs
<1> QED BY <1>2 DEF KeyOf, Key

\* At most one transaction that signed in its own directory has the lock.
LEMMA OneHasLock ==
    ASSUME LockInv, NEW t \in Transactions, NEW u \in Transactions, t # u,
           Owner(t), Owner(u), ~txs[t].guest, ~txs[u].guest
    PROVE  KeyOf(t) # KeyOf(u)
  BY DEF LockInv, OwnerMadeIt

LEMMA InitDataInv == Init => DataInv
<1> SUFFICES ASSUME Init PROVE DataInv
  OBVIOUS
<1>1. tasks \in [Ids -> [name : Names, by : {None}] \cup {None}]
      /\ \A i, j \in Ids : tasks[i] # None /\ tasks[i] = tasks[j] => i = j
  BY DEF Init
<1>2. TasksOK
  BY <1>1 DEF TasksOK, Task
<1>3. UpdatesFindTask /\ CreationsFindNone /\ ReadHolds
  BY DEF Init, UpdatesFindTask, CreationsFindNone, ReadHolds, Pending
<1>4. NamesDiffer
  <2> SUFFICES ASSUME NEW i \in Ids, NEW j \in Ids,
                      tasks[i] # None, tasks[j] # None,
                      tasks[i].name = tasks[j].name
               PROVE  i = j
    BY DEF NamesDiffer
  <2>1. tasks[i] \in [name : Names, by : {None}]
        /\ tasks[j] \in [name : Names, by : {None}]
    BY <1>1
  <2>2. tasks[i] = tasks[j]
    BY <2>1
  <2> QED BY <1>1, <2>2
<1> QED BY <1>2, <1>3, <1>4 DEF DataInv

\* A step that changes no task, lets nobody into the transaction or past the
\* read, and forgets nothing that came too late
LEMMA DataStays ==
    ASSUME IInv, DataInv, UNCHANGED tasks,
           \A u \in Transactions :
             /\ txs'[u].pc # "idle" =>
                   txs[u].pc # "idle" /\ txs'[u].job = txs[u].job
             /\ txs'[u].pc \in Pending =>
                   /\ txs[u].pc \in Pending /\ txs'[u].saw = txs[u].saw
                   /\ Owner(u)' => Owner(u)
             /\ txs[u].guest => txs'[u].guest
             /\ txs[u].late => txs'[u].late
    PROVE  DataInv'
<1>1. "idle" \notin Pending
  BY DEF Pending
<1>2. TasksOK' /\ (NamesDiffer => NamesDiffer')
  BY DEF DataInv, TasksOK, NamesDiffer
<1>3. UpdatesFindTask' /\ CreationsFindNone'
  BY <1>1 DEF DataInv, UpdatesFindTask, CreationsFindNone
<1>4. InTime' => InTime
  BY DEF InTime
<1>5. ReadHolds => ReadHolds'
  BY <1>1 DEF ReadHolds
<1> QED BY <1>2, <1>3, <1>4, <1>5 DEF DataInv

\* The steps of one who neither begins nor reads nor writes
Aside(t) ==
    \/ Claim(t) \/ Sign(t) \/ Unsign(t) \/ Ask(t) \/ Sweep(t)
    \/ Swept(t) \/ TimeOut(t) \/ Refuse(t) \/ MakeFence(t)
    \/ WriteMark(t) \/ AssertOwned(t) \/ ReadWinner(t) \/ Unmark(t)
    \/ Unfence(t) \/ Release(t) \/ Leave(t) \/ Heartbeat(t)
    \/ Expire(t)

LEMMA AsideLocals ==
    ASSUME IInv, NEW t \in Transactions, Aside(t)
    PROVE  /\ UNCHANGED tasks
           /\ \A u \in Transactions \ {t} : txs'[u] = txs[u]
           /\ txs[t].pc # "idle" /\ txs'[t].job = txs[t].job
           /\ txs'[t].pc \in Pending =>
                 txs[t].pc \in Pending /\ txs'[t].saw = txs[t].saw
           /\ txs[t].guest => txs'[t].guest
           /\ txs[t].late => txs'[t].late
<1> USE DEF IInv, Shape, Fields, Pending, Move, End
<1>1. CASE Claim(t) BY <1>1 DEF Claim
<1>2. CASE Sign(t) BY <1>2 DEF Sign
<1>3. CASE Unsign(t) BY <1>3 DEF Unsign
<1>4. CASE Ask(t) BY <1>4 DEF Ask
<1>5. CASE Sweep(t) BY <1>5 DEF Sweep
<1>6. CASE Swept(t) BY <1>6 DEF Swept
<1>7. CASE TimeOut(t) BY <1>7 DEF TimeOut
<1>8. CASE Refuse(t) BY <1>8 DEF Refuse
<1>9. CASE MakeFence(t) BY <1>9 DEF MakeFence
<1>10. CASE WriteMark(t) BY <1>10 DEF WriteMark
<1>11. CASE AssertOwned(t) BY <1>11 DEF AssertOwned
<1>12. CASE ReadWinner(t) BY <1>12 DEF ReadWinner
<1>13. CASE Unmark(t) BY <1>13 DEF Unmark
<1>14. CASE Unfence(t) BY <1>14 DEF Unfence
<1>15. CASE Release(t) BY <1>15 DEF Release
<1>16. CASE Leave(t) BY <1>16 DEF Leave
<1>17. CASE Heartbeat(t) BY <1>17 DEF Heartbeat, Owns, Fenced
<1>18. CASE Expire(t) BY <1>18 DEF Expire, Owns, Fenced
<1> QED BY <1>1, <1>2, <1>3, <1>4, <1>5, <1>6, <1>7, <1>8, <1>9, <1>10,
           <1>11, <1>12, <1>13, <1>14, <1>15, <1>16, <1>17, <1>18 DEF Aside

\* An owner file is not made by anybody whose read is to hold.
LEMMA AsideFiles ==
    ASSUME IInv, NEW t \in Transactions, Aside(t)
    PROVE  \A u \in Transactions :
             txs'[u].pc \in Pending /\ Owner(u)' => Owner(u)
<1> USE FileFields DEF Owner, Vanish, Appear
<1>1. CASE Sign(t)
  <2>1. txs'[t].pc \notin Pending
    BY <1>1 DEF IInv, Shape, Fields, Sign, Move, Pending
  <2>2. \A u \in Transactions \ {t} : Owner(u)' => Owner(u)
    BY <1>1 DEF Sign
  <2> QED BY <2>1, <2>2
<1>2. CASE Claim(t) BY <1>2 DEF Claim
<1>3. CASE Unsign(t) BY <1>3 DEF Unsign
<1>4. CASE Ask(t) BY <1>4 DEF Ask
<1>5. CASE Sweep(t) BY <1>5 DEF Sweep
<1>6. CASE Swept(t) BY <1>6 DEF Swept
<1>7. CASE TimeOut(t) BY <1>7 DEF TimeOut
<1>8. CASE Refuse(t) BY <1>8 DEF Refuse
<1>9. CASE MakeFence(t) BY <1>9 DEF MakeFence
<1>10. CASE WriteMark(t) BY <1>10 DEF WriteMark
<1>11. CASE AssertOwned(t) BY <1>11 DEF AssertOwned
<1>12. CASE ReadWinner(t) BY <1>12 DEF ReadWinner
<1>13. CASE Unmark(t) BY <1>13 DEF Unmark
<1>14. CASE Unfence(t) BY <1>14 DEF Unfence
<1>15. CASE Release(t) BY <1>15 DEF Release
<1>16. CASE Leave(t) BY <1>16 DEF Leave
<1>17. CASE Heartbeat(t) BY <1>17 DEF Heartbeat
<1>18. CASE Expire(t) BY <1>18 DEF Expire
<1> QED BY <1>1, <1>2, <1>3, <1>4, <1>5, <1>6, <1>7, <1>8, <1>9, <1>10,
           <1>11, <1>12, <1>13, <1>14, <1>15, <1>16, <1>17, <1>18 DEF Aside

LEMMA AsideData ==
    ASSUME IInv, DataInv, NEW t \in Transactions, Aside(t)
    PROVE  DataInv'
<1>1. \A u \in Transactions :
        /\ txs'[u].pc # "idle" =>
              txs[u].pc # "idle" /\ txs'[u].job = txs[u].job
        /\ txs'[u].pc \in Pending =>
              /\ txs[u].pc \in Pending /\ txs'[u].saw = txs[u].saw
              /\ Owner(u)' => Owner(u)
        /\ txs[u].guest => txs'[u].guest
        /\ txs[u].late => txs'[u].late
  BY AsideLocals, AsideFiles
<1> QED BY <1>1, AsideLocals, DataStays

LEMMA CrashData ==
    ASSUME IInv, DataInv, NEW s \in Stores, Crash(s)
    PROVE  DataInv'
<1>1. UNCHANGED <<tasks, files>> /\ \A u \in Transactions : Owner(u)' <=> Owner(u)
  BY DEF Crash, Owner
<1>2. "dead" \notin Pending
  BY DEF Pending
<1> QED BY <1>1, <1>2, CrashLocals, DataStays

\* An update begins with a task that is there.
LEMMA BeginData ==
    ASSUME IInv, DataInv, NEW t \in Transactions, Begin(t)
    PROVE  DataInv'
<1>1. PICK s \in Stores, job \in Wanted :
        /\ job.kind = "update" => tasks[job.id] # None
        /\ txs' = [txs EXCEPT ![t].pc = "claim", ![t].store = s,
                              ![t].job = job]
        /\ UNCHANGED <<tasks, files>>
  BY DEF Begin
<1>2. /\ \A u \in Transactions \ {t} : txs'[u] = txs[u]
      /\ txs'[t].job = job /\ txs'[t].pc \notin Pending
      /\ txs'[t].guest = txs[t].guest /\ txs'[t].late = txs[t].late
  BY <1>1 DEF IInv, Shape, Fields, Pending
<1>3. job.kind = "update" => tasks[job.id] \in Task
  <2>1. job.id \in Ids
    BY FileLockAssumption DEF Jobs
  <2> QED BY <1>1, <2>1 DEF DataInv, TasksOK
<1>4. UpdatesFindTask'
  BY <1>1, <1>2, <1>3 DEF DataInv, UpdatesFindTask
<1>5. TasksOK' /\ CreationsFindNone' /\ (NamesDiffer => NamesDiffer')
  BY <1>1, <1>2 DEF DataInv, TasksOK, CreationsFindNone, NamesDiffer
<1>6. \A u \in Transactions : Owner(u)' <=> Owner(u)
  BY <1>1 DEF Owner
<1>7. ReadHolds => ReadHolds'
  <2> SUFFICES ASSUME ReadHolds, NEW u \in Transactions,
                      txs'[u].pc \in Pending, Owner(u)'
               PROVE  IF txs'[u].job.kind = "update"
                      THEN txs'[u].saw = tasks'[txs'[u].job.id]
                      ELSE \A i \in Ids : tasks'[i] # None =>
                             tasks'[i].name # txs'[u].job.name
    BY <1>2 DEF ReadHolds
  <2>1. txs'[u] = txs[u] /\ Owner(u)
    BY <1>2, <1>6
  <2> QED BY <1>1, <2>1 DEF ReadHolds
<1>8. InTime' => InTime
  BY <1>2 DEF InTime
<1> QED BY <1>4, <1>5, <1>7, <1>8 DEF DataInv

\* Whoever goes on from the read has found the task, or neither the task nor
\* the name.
LEMMA ReadData ==
    ASSUME IInv, DataInv, NEW t \in Transactions, Read(t)
    PROVE  DataInv'
<1>1. /\ \A u \in Transactions \ {t} : txs'[u] = txs[u]
      /\ txs[t].pc # "idle" /\ txs'[t].job = txs[t].job
      /\ txs'[t].saw = tasks[txs[t].job.id]
      /\ txs'[t].pc \in Pending => Decided(txs[t].job) = None
      /\ txs'[t].guest = txs[t].guest /\ txs'[t].late = txs[t].late
      /\ UNCHANGED <<tasks, files>>
  BY DEF IInv, Shape, Fields, Read, Pending
<1>2. txs[t].job.kind = "create" /\ Decided(txs[t].job) = None =>
        /\ tasks[txs[t].job.id] = None
        /\ \A i \in Ids : tasks[i] # None => tasks[i].name # txs[t].job.name
  BY FileLockAssumption DEF Decided, Named
<1>3. TasksOK' /\ (NamesDiffer => NamesDiffer')
  BY <1>1 DEF DataInv, TasksOK, NamesDiffer
<1>4. UpdatesFindTask' /\ CreationsFindNone'
  BY <1>1, <1>2, JobKinds DEF DataInv, UpdatesFindTask, CreationsFindNone
<1>5. \A u \in Transactions : Owner(u)' <=> Owner(u)
  BY <1>1 DEF Owner
<1>6. ReadHolds => ReadHolds'
  BY <1>1, <1>2, <1>5, JobKinds DEF ReadHolds
<1>7. InTime' => InTime
  BY <1>1 DEF InTime
<1> QED BY <1>3, <1>4, <1>6, <1>7 DEF DataInv

-----------------------------------------------------------------------------
(* The write.                                                              *)

\* What a write of t does to the tasks, if it does anything
WrittenName(t) ==
    IF txs[t].job.kind = "update" THEN txs[t].saw.name ELSE txs[t].job.name

LEMMA WriteEffect ==
    ASSUME IInv, DataInv, NEW t \in Transactions, Write(t)
    PROVE  /\ txs[t].pc = "write" /\ txs[t].job.id \in Ids
           /\ UNCHANGED files
           /\ \A u \in Transactions \ {t} : txs'[u] = txs[u]
           /\ txs'[t].job = txs[t].job /\ txs'[t].pc \notin Pending
           /\ txs'[t].guest = txs[t].guest /\ txs'[t].late = txs[t].late
           /\ \/ UNCHANGED tasks
              \/ /\ txs[t].job.kind = "create" => tasks[txs[t].job.id] = None
                 /\ tasks' = [tasks EXCEPT ![txs[t].job.id] =
                                [name |-> WrittenName(t), by |-> t]]
                 /\ WrittenName(t) \in Names
<1>1. txs[t].pc = "write" /\ txs[t].job.id \in Ids
  BY JobKinds DEF Write
<1>2. /\ UNCHANGED files
      /\ \A u \in Transactions \ {t} : txs'[u] = txs[u]
      /\ txs'[t].job = txs[t].job /\ txs'[t].pc \notin Pending
      /\ txs'[t].guest = txs[t].guest /\ txs'[t].late = txs[t].late
  BY DEF IInv, Shape, Fields, Write, End, Move, Pending
<1>3. WrittenName(t) \in Names
  <2>1. CASE txs[t].job.kind = "update"
    <3>1. txs[t].saw \in Task
      BY <1>1, <2>1 DEF DataInv, UpdatesFindTask, Pending
    <3> QED BY <2>1, <3>1 DEF WrittenName, Task
  <2>2. CASE txs[t].job.kind # "update"
    BY <1>1, <2>2, JobKinds DEF WrittenName
  <2> QED BY <2>1, <2>2
<1>4. \/ UNCHANGED tasks
      \/ /\ txs[t].job.kind = "create" => tasks[txs[t].job.id] = None
         /\ tasks' = [tasks EXCEPT ![txs[t].job.id] =
                        [name |-> WrittenName(t), by |-> t]]
  BY DEF Write, WrittenName
<1> QED BY <1>1, <1>2, <1>3, <1>4

\* The writer in time has its lock, and what it read still holds.
LEMMA WriterHolds ==
    ASSUME LockInv, DataInv, InTime, NEW t \in Transactions,
           txs[t].pc = "write"
    PROVE  /\ Owner(t) /\ NamesDiffer
           /\ IF txs[t].job.kind = "update"
              THEN txs[t].saw = tasks[txs[t].job.id]
              ELSE \A i \in Ids :
                     tasks[i] # None => tasks[i].name # txs[t].job.name
<1>1. Owner(t)
  BY DEF LockInv, OwnedAtWrite, InTime
<1> QED BY <1>1 DEF DataInv, ReadHolds, Pending

\* An update keeps the names as they are; a creation brings one that no task
\* has.
LEMMA NamesAfterWrite ==
    ASSUME IInv, LockInv, DataInv, InTime, NEW t \in Transactions, Write(t),
           tasks' = [tasks EXCEPT ![txs[t].job.id] =
                       [name |-> WrittenName(t), by |-> t]]
    PROVE  /\ txs[t].job.kind = "update" =>
                \A i \in Ids : tasks'[i] # None =>
                    tasks[i] # None /\ tasks'[i].name = tasks[i].name
           /\ NamesDiffer'
<1> DEFINE id == txs[t].job.id
           new == [name |-> WrittenName(t), by |-> t]
<1>1. /\ id \in Ids /\ txs[t].pc = "write" /\ tasks \in [Ids -> Task \cup {None}]
      /\ \A i \in Ids : tasks'[i] = IF i = id THEN new ELSE tasks[i]
      /\ NamesDiffer
  BY JobKinds, WriterHolds DEF Write, DataInv, TasksOK
<1>2. CASE txs[t].job.kind = "update"
  <2>1. tasks[id] \in Task /\ new.name = tasks[id].name
    BY <1>1, <1>2, WriterHolds DEF DataInv, UpdatesFindTask, WrittenName
  <2>2. new \in Task /\ new # None /\ tasks[id] # None
    BY <2>1, FileLockAssumption DEF Task
  <2>3. \A i \in Ids : tasks'[i] # None =>
                          tasks[i] # None /\ tasks'[i].name = tasks[i].name
    BY <1>1, <2>1, <2>2
  <2> QED BY <1>1, <2>3 DEF NamesDiffer
<1>3. CASE txs[t].job.kind # "update"
  <2>1. \A i \in Ids : tasks[i] # None => tasks[i].name # new.name
    BY <1>1, <1>3, WriterHolds DEF WrittenName
  <2> QED BY <1>1, <1>3, <2>1 DEF NamesDiffer
<1> QED BY <1>2, <1>3

\* What others have read still holds after a write: one with the same lock
\* would not have it, and one with another reads another task, or the names.
LEMMA OthersHold ==
    ASSUME IInv, LockInv, DataInv, InTime, NEW t \in Transactions, Write(t),
           txs[t].job.kind = "create" => tasks[txs[t].job.id] = None,
           tasks' = [tasks EXCEPT ![txs[t].job.id] =
                       [name |-> WrittenName(t), by |-> t]],
           NEW u \in Transactions, u # t, txs[u].pc \in Pending, Owner(u)
    PROVE  IF txs[u].job.kind = "update"
           THEN txs[u].saw = tasks'[txs[u].job.id]
           ELSE \A i \in Ids :
                  tasks'[i] # None => tasks'[i].name # txs[u].job.name
<1>1. txs[t].pc = "write" /\ Owner(t) /\ ~txs[t].guest /\ ~txs[u].guest
  BY WriterHolds DEF Write, InTime
<1>2. KeyOf(t) # KeyOf(u)
  BY <1>1, OneHasLock
<1>3. txs[u].pc # "idle"
  BY DEF Pending
<1>4. IF txs[u].job.kind = "update"
      THEN txs[u].saw = tasks[txs[u].job.id]
      ELSE \A i \in Ids :
             tasks[i] # None => tasks[i].name # txs[u].job.name
  BY DEF DataInv, ReadHolds
<1>5. CASE txs[u].job.kind = "update"
  <2>1. txs[u].job.id # txs[t].job.id
    <3>1. CASE txs[t].job.kind = "update"
      BY <1>1, <1>2, <1>3, <1>5, <3>1, JobKinds
    <3>2. CASE txs[t].job.kind # "update"
      <4>1. tasks[txs[t].job.id] = None
        BY <1>1, <3>2, JobKinds
      <4>2. tasks[txs[u].job.id] # None
        BY <1>3, <1>5, FileLockAssumption DEF DataInv, UpdatesFindTask, Task
      <4> QED BY <4>1, <4>2
    <3> QED BY <3>1, <3>2
  <2> QED BY <1>3, <1>4, <1>5, <2>1, JobKinds DEF DataInv, TasksOK
<1>6. CASE txs[u].job.kind # "update"
  <2>1. txs[t].job.kind = "update"
    BY <1>1, <1>2, <1>3, <1>6, JobKinds
  <2> QED BY <1>4, <1>6, <2>1, NamesAfterWrite
<1> QED BY <1>5, <1>6

LEMMA WriteData ==
    ASSUME IInv, LockInv, DataInv, NEW t \in Transactions, Write(t)
    PROVE  DataInv'
<1>1. \A u \in Transactions : Owner(u)' <=> Owner(u)
  BY WriteEffect DEF Owner
<1>2. InTime' => InTime
  BY WriteEffect DEF InTime
<1>3. CreationsFindNone'
  BY WriteEffect DEF DataInv, CreationsFindNone
<1>4. CASE UNCHANGED tasks
  <2>1. \A u \in Transactions :
          /\ txs'[u].pc # "idle" =>
                txs[u].pc # "idle" /\ txs'[u].job = txs[u].job
          /\ txs'[u].pc \in Pending =>
                /\ txs[u].pc \in Pending /\ txs'[u].saw = txs[u].saw
                /\ Owner(u)' => Owner(u)
          /\ txs[u].guest => txs'[u].guest
          /\ txs[u].late => txs'[u].late
    BY <1>1, WriteEffect
  <2> QED BY <1>4, <2>1, DataStays
<1>5. CASE /\ txs[t].job.kind = "create" => tasks[txs[t].job.id] = None
           /\ tasks' = [tasks EXCEPT ![txs[t].job.id] =
                          [name |-> WrittenName(t), by |-> t]]
           /\ WrittenName(t) \in Names
  <2>1. [name |-> WrittenName(t), by |-> t] \in Task
    BY <1>5 DEF Task
  <2>2. TasksOK' /\ \A i \in Ids : tasks[i] \in Task => tasks'[i] \in Task
    BY <1>5, <2>1 DEF DataInv, TasksOK
  <2>3. UpdatesFindTask'
    <3> SUFFICES ASSUME NEW u \in Transactions, txs'[u].pc # "idle",
                        txs'[u].job.kind = "update"
                 PROVE  /\ tasks'[txs'[u].job.id] \in Task
                        /\ txs'[u].pc \in Pending => txs'[u].saw \in Task
      BY DEF UpdatesFindTask
    <3>1. txs[u].pc # "idle" /\ txs'[u].job = txs[u].job
      BY WriteEffect
    <3>2. txs'[u].pc \in Pending => txs'[u] = txs[u]
      BY WriteEffect
    <3>3. txs[u].job.id \in Ids
      BY <3>1, JobKinds
    <3> QED BY <2>2, <3>1, <3>2, <3>3 DEF DataInv, UpdatesFindTask
  <2>4. InTime => NamesDiffer'
    BY <1>5, NamesAfterWrite
  <2>5. InTime => ReadHolds'
    <3> SUFFICES ASSUME InTime, NEW u \in Transactions,
                        txs'[u].pc \in Pending, Owner(u)'
                 PROVE  IF txs'[u].job.kind = "update"
                        THEN txs'[u].saw = tasks'[txs'[u].job.id]
                        ELSE \A i \in Ids : tasks'[i] # None =>
                               tasks'[i].name # txs'[u].job.name
      BY DEF ReadHolds
    <3>1. u # t /\ txs'[u] = txs[u] /\ Owner(u)
      BY <1>1, WriteEffect
    <3> QED BY <1>5, <3>1, OthersHold
  <2> QED BY <1>2, <1>3, <2>2, <2>3, <2>4, <2>5 DEF DataInv
<1> QED BY <1>4, <1>5, WriteEffect

-----------------------------------------------------------------------------
LEMMA NextDataInv ==
    IInv /\ LockInv /\ DataInv /\ [Next]_vars => DataInv'
<1> SUFFICES ASSUME IInv, LockInv, DataInv, [Next]_vars PROVE DataInv'
  OBVIOUS
<1>1. CASE UNCHANGED vars
  <2>1. UNCHANGED <<tasks, txs, files>>
    BY <1>1 DEF vars
  <2> QED BY <2>1, DataStays DEF Owner
<1>2. ASSUME NEW s \in Stores, Crash(s) PROVE DataInv'
  BY <1>2, CrashData
<1>3. ASSUME NEW t \in Transactions, Aside(t) PROVE DataInv'
  BY <1>3, AsideData
<1>4. ASSUME NEW t \in Transactions, Begin(t) \/ Read(t) \/ Write(t)
      PROVE  DataInv'
  BY <1>4, BeginData, ReadData, WriteData
<1> QED BY <1>1, <1>2, <1>3, <1>4 DEF Next, Step, Aside

\* Only a write changes a task.
LEMMA OnlyWritesChange ==
    ASSUME IInv, [Next]_vars
    PROVE  UNCHANGED tasks \/ \E t \in Transactions : Write(t)
<1>1. ASSUME NEW t \in Transactions, Aside(t) PROVE UNCHANGED tasks
  BY <1>1, AsideLocals
<1>2. ASSUME NEW t \in Transactions, Begin(t) \/ Read(t)
      PROVE  UNCHANGED tasks
  BY <1>2 DEF Begin, Read
<1>3. ASSUME NEW s \in Stores, Crash(s) PROVE UNCHANGED tasks
  BY <1>3 DEF Crash
<1>4. CASE UNCHANGED vars
  BY <1>4 DEF vars
<1> QED BY <1>1, <1>2, <1>3, <1>4 DEF Next, Step, Aside

\* For any number of stores, transactions and tasks, whoever dies and whatever
\* is removed as stale: as long as every writer signed in its own directory and
\* was not overtaken by its lease behind the fence, an update of a task file
\* (transact) replaces the record it has read, and a creation
\* (createWithResult) brings a task and a name that are not there yet.
THEOREM WritesBuild == Spec => WritesBuildOnFile
<1> DEFINE Inv == IInv /\ LockInv /\ DataInv
           Builds ==
             \A i \in Ids : tasks'[i] # tasks[i] /\ InTime =>
               /\ txs[tasks'[i].by].saw = tasks[i]
               /\ Named(tasks'[i].name) \subseteq {i}
<1>1. Init => Inv
  BY InitIInv, InitLockInv, InitDataInv
<1>2. Inv /\ [Next]_vars => Inv'
  BY NextIInv, NextLockInv, NextDataInv
<1>3. Inv /\ [Next]_vars => [Builds]_tasks
  <2> SUFFICES ASSUME Inv, [Next]_vars, NEW i \in Ids,
                      tasks'[i] # tasks[i], InTime
               PROVE  /\ txs[tasks'[i].by].saw = tasks[i]
                      /\ Named(tasks'[i].name) \subseteq {i}
    OBVIOUS
  <2>1. PICK t \in Transactions : Write(t)
    BY OnlyWritesChange
  <2>2. /\ txs[t].pc = "write" /\ txs[t].job.id = i
        /\ tasks'[i] = [name |-> WrittenName(t), by |-> t]
        /\ txs[t].job.kind = "create" => tasks[i] = None
    BY <2>1, WriteEffect DEF DataInv, TasksOK
  <2>3. /\ NamesDiffer
        /\ IF txs[t].job.kind = "update" THEN txs[t].saw = tasks[i]
           ELSE \A j \in Ids :
                  tasks[j] # None => tasks[j].name # txs[t].job.name
    BY <2>2, WriterHolds
  <2>4. CASE txs[t].job.kind = "update"
    <3>1. tasks[i] # None /\ tasks'[i].name = tasks[i].name
      BY <2>2, <2>3, <2>4, FileLockAssumption
         DEF DataInv, UpdatesFindTask, WrittenName, Task
    <3> QED BY <2>2, <2>3, <2>4, <3>1 DEF Named, NamesDiffer
  <2>5. CASE txs[t].job.kind # "update"
    <3>1. txs[t].saw = None /\ tasks[i] = None
      BY <2>2, <2>5, JobKinds DEF DataInv, CreationsFindNone, Pending
    <3> QED BY <2>2, <2>3, <2>5, <3>1 DEF WrittenName, Named
  <2> QED BY <2>4, <2>5
<1> QED BY <1>1, <1>2, <1>3, PTL DEF Spec, WritesBuildOnFile

-----------------------------------------------------------------------------
(* The sessions of the agent *)

\* What a call, an object, a run and a browser look like.
Asked == {"list", "get", "prompt", "events", "abort", "reset", "delete"}

CallPhases == {"", "look", "authorize", "between", "operate"}

CallPlaces ==
    {"", "seek", "install", "refresh", "stream", "abort", "wait", "save", "remove"}

CallRecords ==
    [kind : Asked \cup {"none", "create"}, request : Requests \cup {Nobody},
     run : Nat, context : Nat, phase : CallPhases, at : CallPlaces,
     object : Nat, copy : {NoFile} \cup Transcript]

ObjectRecords == [messages : Seq(Nat), context : Nat, run : Nat]

RunRecords ==
    [request : Requests, object : Nat,
     at : {"prompting", "saving", "failing", "ended", "gone"},
     copy : {NoFile} \cup Transcript, cancelled : BOOLEAN,
     result : {"none", "completed", "aborted", "failed"},
     cleared : BOOLEAN, forgotten : BOOLEAN]

Outcomes == {"started", "failed", "done"}

ClientRecords ==
    [at : {"new", "posted", "unsure"} \cup Outcomes, run : Nat,
     awaits : Calls \cup {Nobody}]

\* The session in memory and in its file, and its runs
SessionOK ==
    /\ revision \in Nat
    /\ file \in {NoFile} \cup Transcript
    /\ objects \in Seq(ObjectRecords)
    /\ runs \in Seq(RunRecords)
    /\ active \in 0 .. Len(objects)
    /\ \A o \in DOMAIN objects : objects[o].run \in 0 .. Len(runs)
    /\ \A r \in DOMAIN runs : runs[r].object \in DOMAIN objects
    /\ journal \subseteq DOMAIN runs
    /\ expired \subseteq Requests

\* Where a call of each kind may stand
Operating(k) ==
    \/ calls[k].kind \in {"prompt", "get", "list"} /\ calls[k].at \in {"seek", "install"}
    \/ calls[k].kind = "events" /\ calls[k].at \in {"seek", "stream"}
    \/ calls[k].kind = "abort" /\ calls[k].at \in {"seek", "install", "abort"}
    \/ calls[k].kind = "reset" /\ calls[k].at \in {"seek", "install", "abort", "wait", "save"}
    \/ calls[k].kind = "delete" /\ calls[k].at \in {"seek", "abort", "wait", "remove"}
    \/ calls[k].kind = "create" /\ calls[k].at = "save"

Stands(k) ==
    \/ Idle(k)
    \/ calls[k].phase = "look" /\ calls[k].kind = "list" /\ calls[k].at \in {"seek", "install"}
    \/ /\ calls[k].phase = "authorize" /\ calls[k].kind \in Asked
       /\ calls[k].at \in {"seek", "install", "refresh"}
    \/ /\ calls[k].phase = "between" /\ calls[k].kind \in Asked
       /\ calls[k].at = "" /\ calls[k].object = 0
    \/ calls[k].phase = "operate" /\ Operating(k)

CallOK(k) ==
    /\ calls[k].object \in 0 .. Len(objects)
    /\ calls[k].kind = "prompt" => calls[k].request \in Requests
    /\ calls[k].at = "install" => calls[k].copy \in Transcript
    /\ Stands(k)

CallsOK ==
    /\ calls \in [Calls -> CallRecords]
    /\ \A k \in Calls : CallOK(k)

ClientsOK ==
    /\ client \in [Requests -> ClientRecords]
    /\ sent \in Nat

\* The calls in the queue of the lock are those that need it; who has gone on
\* from there holds it.
InTail(k) == \E i \in DOMAIN tail : tail[i] = k

WentOn(k) == calls[k].at # "seek" \/ calls[k].object # 0

QueueOK ==
    /\ tail \in Seq(Calls)
    /\ \A i, j \in DOMAIN tail : tail[i] = tail[j] => i = j
    /\ \A k \in Calls : Locks(k) <=> InTail(k)
    /\ \A k \in Calls : Locks(k) /\ WentOn(k) => Holds(k)

\* A list that looks for the session, and has not found it
Looking(k) == IsAt(k, "look", "seek") /\ calls[k].kind = "list"

\* A call that has not found the session; one that loads it has found its file.
Unmet(k) ==
    \/ Idle(k)
    \/ Looking(k)
    \/ /\ file # NoFile
       /\ calls[k].phase \in {"look", "authorize"} /\ calls[k].at \in {"seek", "install"}

\* Until the session is in memory for the first time, nobody has found it.
FirstOK == objects = <<>> => \A k \in Calls : Unmet(k)

\* A run that still counts is in the journal, or its prompt has expired.
RememberedOK ==
    \A r \in DOMAIN runs :
        \/ runs[r].cleared \/ runs[r].forgotten
        \/ r \in journal \/ runs[r].request \in expired

AInv == SessionOK /\ CallsOK /\ ClientsOK /\ QueueOK /\ FirstOK /\ RememberedOK

-----------------------------------------------------------------------------
(* One call moves *)

Others(k) == \A j \in Calls \ {k} : calls'[j] = calls[j]

Answered(k) == \E at \in Outcomes, r \in Nat : Answer(k, at, r)

\* It stays where it is in the queue, leaves it, or enters it.
Queued(k) ==
    \/ /\ tail' = tail
       /\ Locks(k)' = Locks(k)
       /\ Locks(k)' /\ WentOn(k)' => Holds(k)
    \/ /\ tail' = Released(k)
       /\ ~Locks(k)'
       /\ Locks(k) => Holds(k)
    \/ /\ tail' = Append(tail, k)
       /\ ~Locks(k) /\ Locks(k)'
       /\ ~WentOn(k)'

Moves(k) ==
    /\ calls' \in [Calls -> CallRecords]
    /\ CallOK(k)'
    /\ Others(k)
    /\ Queued(k)

LEMMA NoCallIs ==
    /\ NoCall \in CallRecords
    /\ NoCall.phase = "" /\ NoCall.at = "" /\ NoCall.kind = "none" /\ NoCall.object = 0
  BY DEF NoCall, CallRecords, CallPhases, CallPlaces

\* Nobody but who holds the lock passes it on.
LEMMA TailIs ==
    ASSUME tail \in Seq(Calls), NEW k \in Calls, Holds(k),
           \A i, j \in DOMAIN tail : tail[i] = tail[j] => i = j
    PROVE  /\ Tail(tail) \in Seq(Calls)
           /\ \A i, j \in DOMAIN Tail(tail) : Tail(tail)[i] = Tail(tail)[j] => i = j
           /\ \A j \in Calls :
                 (\E i \in DOMAIN Tail(tail) : Tail(tail)[i] = j) <=> InTail(j) /\ j # k
<1>1. tail # <<>> /\ tail[1] = k /\ Len(tail) \in Nat /\ Len(tail) >= 1
  BY DEF Holds
<1>2. /\ Tail(tail) \in Seq(Calls) /\ DOMAIN Tail(tail) = 1 .. Len(tail) - 1
      /\ \A i \in 1 .. Len(tail) - 1 : Tail(tail)[i] = tail[i + 1]
  BY <1>1
<1>3. DOMAIN tail = 1 .. Len(tail)
  OBVIOUS
<1>4. \A i, j \in DOMAIN Tail(tail) : Tail(tail)[i] = Tail(tail)[j] => i = j
  BY <1>1, <1>2, <1>3
<1>5. ASSUME NEW j \in Calls, NEW i \in DOMAIN Tail(tail), Tail(tail)[i] = j
      PROVE  InTail(j) /\ j # k
  <2>1. i + 1 \in DOMAIN tail /\ tail[i + 1] = j /\ i + 1 # 1 /\ 1 \in DOMAIN tail
    BY <1>1, <1>2, <1>3, <1>5
  <2> QED BY <1>1, <2>1 DEF InTail
<1>6. ASSUME NEW j \in Calls, InTail(j), j # k
      PROVE  \E i \in DOMAIN Tail(tail) : Tail(tail)[i] = j
  <2>1. PICK i \in DOMAIN tail : tail[i] = j
    BY <1>6 DEF InTail
  <2>2. i - 1 \in DOMAIN Tail(tail) /\ Tail(tail)[i - 1] = j
    BY <1>1, <1>2, <1>3, <1>6, <2>1
  <2> QED BY <2>2
<1> QED BY <1>2, <1>4, <1>5, <1>6

LEMMA QueueKept ==
    ASSUME QueueOK, NEW k \in Calls, Others(k), Queued(k)
    PROVE  QueueOK'
<1>1. \A j \in Calls \ {k} : (Locks(j)' <=> Locks(j)) /\ (WentOn(j)' <=> WentOn(j))
  BY DEF Others, Locks, WentOn
<1>2. CASE tail' = tail /\ Locks(k)' = Locks(k) /\ (Locks(k)' /\ WentOn(k)' => Holds(k))
  <2>1. \A j \in Calls : Locks(j)' <=> InTail(j)'
    BY <1>1, <1>2 DEF QueueOK, InTail
  <2>2. \A j \in Calls : Locks(j)' /\ WentOn(j)' => Holds(j)'
    BY <1>1, <1>2 DEF QueueOK, Holds
  <2> QED BY <1>2, <2>1, <2>2 DEF QueueOK
<1>3. CASE tail' = Released(k) /\ ~Locks(k)' /\ (Locks(k) => Holds(k))
  <2>1. CASE Holds(k)
    <3>1. tail' = Tail(tail)
      BY <1>3, <2>1 DEF Released
    <3>2. /\ tail' \in Seq(Calls)
          /\ \A i, j \in DOMAIN tail' : tail'[i] = tail'[j] => i = j
          /\ \A j \in Calls : InTail(j)' <=> InTail(j) /\ j # k
      BY <2>1, <3>1, TailIs DEF QueueOK, InTail
    <3>3. \A j \in Calls : Locks(j)' <=> InTail(j)'
      BY <1>1, <1>3, <3>2 DEF QueueOK
    <3>4. ASSUME NEW j \in Calls, Locks(j)', WentOn(j)'
          PROVE  FALSE
      <4>1. j # k /\ Locks(j) /\ WentOn(j)
        BY <1>1, <1>3, <3>4
      <4> QED BY <2>1, <4>1 DEF QueueOK, Holds
    <3> QED BY <3>2, <3>3, <3>4 DEF QueueOK
  <2>2. CASE ~Holds(k)
    <3>1. tail' = tail /\ ~Locks(k)
      BY <1>3, <2>2 DEF Released
    <3>2. \A j \in Calls : Locks(j)' <=> InTail(j)'
      BY <1>1, <1>3, <3>1 DEF QueueOK, InTail
    <3>3. \A j \in Calls : Locks(j)' /\ WentOn(j)' => Holds(j)'
      BY <1>1, <1>3, <3>1 DEF QueueOK, Holds
    <3> QED BY <3>1, <3>2, <3>3 DEF QueueOK
  <2> QED BY <2>1, <2>2
<1>4. CASE tail' = Append(tail, k) /\ ~Locks(k) /\ Locks(k)' /\ ~WentOn(k)'
  <2>1. /\ tail \in Seq(Calls) /\ Len(tail) \in Nat /\ DOMAIN tail = 1 .. Len(tail)
        /\ \A i \in DOMAIN tail : tail[i] # k
    BY <1>4 DEF QueueOK, InTail
  <2>2. /\ tail' \in Seq(Calls) /\ DOMAIN tail' = 1 .. Len(tail) + 1
        /\ \A i \in 1 .. Len(tail) : tail'[i] = tail[i]
        /\ tail'[Len(tail) + 1] = k
    BY <1>4, <2>1
  <2>3. \A i, j \in DOMAIN tail' : tail'[i] = tail'[j] => i = j
    BY <2>1, <2>2 DEF QueueOK
  <2>4. \A j \in Calls : InTail(j)' <=> InTail(j) \/ j = k
    BY <2>1, <2>2 DEF InTail
  <2>5. \A j \in Calls : Locks(j)' <=> InTail(j)'
    BY <1>1, <1>4, <2>4 DEF QueueOK
  <2>6. ASSUME NEW j \in Calls, Locks(j)', WentOn(j)'
        PROVE  Holds(j)'
    <3>1. Holds(j)
      BY <1>1, <1>4, <2>6 DEF QueueOK
    <3>2. Len(tail) >= 1 /\ tail[1] = j
      BY <2>1, <3>1 DEF Holds
    <3> QED BY <2>1, <2>2, <3>2 DEF Holds
  <2> QED BY <2>2, <2>3, <2>5, <2>6 DEF QueueOK
<1> QED BY <1>2, <1>3, <1>4 DEF Queued

LEMMA CallsKept ==
    ASSUME CallsOK, NEW k \in Calls, Moves(k), Len(objects') >= Len(objects),
           objects \in Seq(ObjectRecords), objects' \in Seq(ObjectRecords)
    PROVE  CallsOK'
<1>1. ASSUME NEW j \in Calls \ {k}
      PROVE  CallOK(j)'
  <2>1. calls'[j] = calls[j] /\ CallOK(j)
    BY DEF Moves, Others, CallsOK
  <2>2. Stands(j)'
    BY <2>1 DEF CallOK, Stands, Operating, Idle
  <2>3. calls'[j].object \in 0 .. Len(objects')
    BY <2>1 DEF CallOK
  <2> QED BY <2>1, <2>2, <2>3 DEF CallOK
<1> QED BY <1>1 DEF CallsOK, Moves

\* An answered call is none any more, and its browser goes on.
LEMMA AnswerMoves ==
    ASSUME CallsOK, ClientsOK, NEW k \in Calls, Answered(k), Locks(k) => Holds(k),
           objects' \in Seq(ObjectRecords)
    PROVE  Moves(k) /\ calls'[k] = NoCall /\ client' \in [Requests -> ClientRecords]
<1>1. PICK at \in Outcomes, r \in Nat : Answer(k, at, r)
  BY DEF Answered
<1>2. calls' \in [Calls -> CallRecords] /\ calls'[k] = NoCall /\ Others(k)
  BY <1>1, NoCallIs DEF Answer, CallsOK, Others
<1>3. client' \in [Requests -> ClientRecords]
  BY <1>1 DEF Answer, ClientsOK, ClientRecords
<1>4. CallOK(k)'
  <2>1. Stands(k)'
    BY <1>2 DEF Stands, Idle
  <2>2. calls'[k].object \in 0 .. Len(objects')
    <3>1. Len(objects') \in Nat
      OBVIOUS
    <3>2. calls'[k].object = 0
      BY <1>2, NoCallIs
    <3> QED BY <3>1, <3>2
  <2> QED BY <1>2, <2>1, <2>2, NoCallIs DEF CallOK
<1>5. Queued(k)
  BY <1>1, <1>2, NoCallIs DEF Answer, Queued, Locks
<1> QED BY <1>2, <1>3, <1>4, <1>5 DEF Moves

LEMMA RefusedIsAnswered ==
    ASSUME CallsOK, NEW k \in Calls, RefuseCall(k)
    PROVE  Answered(k)
<1>1. PICK r \in Nat : r = calls[k].run
  BY DEF CallsOK, CallRecords, CallPhases, CallPlaces
<1>2. Answer(k, "failed", r)
  BY <1>1 DEF RefuseCall, Answer
<1> QED BY <1>2 DEF Answered, Outcomes

LEMMA ProceedMoves ==
    ASSUME CallsOK, NEW k \in Calls, Proceed(k), Locks(k) => Holds(k),
           calls[k].phase = "authorize", objects' \in Seq(ObjectRecords)
    PROVE  /\ Moves(k)
           /\ calls'[k].phase = "between" /\ calls'[k].kind = calls[k].kind
           /\ calls'[k].at = "" /\ calls'[k].object = 0
           /\ calls'[k].context = calls[k].context
<1>0. calls[k] \in CallRecords /\ CallOK(k) /\ calls[k].kind \in Asked
  BY NoCallIs DEF CallsOK, CallOK, Stands, Idle
<1>1. /\ calls' \in [Calls -> CallRecords] /\ Others(k)
      /\ calls'[k].phase = "between" /\ calls'[k].kind = calls[k].kind
      /\ calls'[k].at = "" /\ calls'[k].object = 0
      /\ calls'[k].context = calls[k].context
      /\ calls'[k].request = calls[k].request
  BY <1>0 DEF Proceed, CallsOK, CallRecords, CallPhases, CallPlaces, Others
<1>2. CallOK(k)'
  <2>1. Stands(k)'
    BY <1>0, <1>1 DEF Stands
  <2>2. calls'[k].object \in 0 .. Len(objects')
    <3>1. Len(objects') \in Nat
      OBVIOUS
    <3>2. calls'[k].object = 0
      BY <1>1
    <3> QED BY <3>1, <3>2
  <2> QED BY <1>0, <1>1, <2>1, <2>2 DEF CallOK
<1>3. Queued(k)
  BY <1>1 DEF Proceed, Queued, Locks
<1> QED BY <1>1, <1>2, <1>3 DEF Moves

\* A call that goes on where it was in the queue
LEMMA StaysMoves ==
    ASSUME CallsOK, NEW k \in Calls, calls' \in [Calls -> CallRecords], Others(k),
           calls'[k].phase = calls[k].phase, calls'[k].kind = calls[k].kind,
           calls'[k].request = calls[k].request,
           tail' = tail, Locks(k) => Holds(k), Stands(k)',
           calls'[k].at = "install" => calls'[k].copy \in Transcript,
           calls'[k].object \in 0 .. Len(objects')
    PROVE  Moves(k)
<1>1. Locks(k)' = Locks(k)
  BY DEF Locks
<1>2. calls'[k].kind = "prompt" => calls'[k].request \in Requests
  BY DEF CallsOK, CallOK
<1> QED BY <1>1, <1>2 DEF Moves, Queued, CallOK

\* What a moving call leaves of the invariant is what it does to the session.
LEMMA MovesKept ==
    ASSUME AInv, NEW k \in Calls, Moves(k), SessionOK', RememberedOK',
           client' \in [Requests -> ClientRecords], sent' = sent,
           Len(objects') >= Len(objects),
           objects = <<>> /\ objects' = <<>> => file' = file /\ Unmet(k)'
    PROVE  AInv'
<1>1. CallsOK'
  BY CallsKept DEF AInv, SessionOK
<1>2. QueueOK'
  BY QueueKept DEF AInv, Moves
<1>3. ClientsOK'
  BY DEF ClientsOK, AInv
<1>4. FirstOK'
  <2> SUFFICES ASSUME objects' = <<>>, NEW j \in Calls
               PROVE  Unmet(j)'
    BY DEF FirstOK
  <2>1. objects = <<>> /\ file' = file /\ Unmet(k)'
    <3>1. objects \in Seq(ObjectRecords) /\ Len(objects) \in Nat /\ Len(objects') = 0
      BY DEF AInv, SessionOK
    <3>2. Len(objects) = 0
      BY <3>1
    <3> QED BY <3>1, <3>2
  <2>2. Unmet(j)
    BY <2>1 DEF AInv, FirstOK
  <2>3. CASE j # k
    BY <2>1, <2>2, <2>3 DEF Moves, Others, Unmet, Looking, IsAt, Idle
  <2> QED BY <2>1, <2>3
<1> QED BY <1>1, <1>2, <1>3, <1>4 DEF AInv

\* The session stays as it is.
LEMMA QuietKept ==
    ASSUME AInv, NEW k \in Calls, Moves(k), objects = <<>> => Unmet(k)',
           client' \in [Requests -> ClientRecords],
           UNCHANGED <<revision, file, memory, runs, sent>>
    PROVE  AInv'
<1>1. SessionOK' /\ RememberedOK'
  BY DEF AInv, SessionOK, RememberedOK, memory
<1>2. objects' = objects /\ file' = file /\ Len(objects) \in Nat
  BY DEF AInv, SessionOK, memory
<1> QED BY <1>1, <1>2, MovesKept

LEMMA AnswerKept ==
    ASSUME AInv, NEW k \in Calls, Answered(k), Locks(k) => Holds(k), ~Idle(k),
           UNCHANGED <<revision, file, memory, runs, sent>>
    PROVE  AInv'
<1>1. Moves(k) /\ calls'[k] = NoCall /\ client' \in [Requests -> ClientRecords]
  <2>1. objects' \in Seq(ObjectRecords)
    BY DEF AInv, SessionOK, memory
  <2> QED BY <2>1, AnswerMoves DEF AInv
<1>2. Unmet(k)'
  BY <1>1 DEF Unmet, Idle
<1> QED BY <1>1, <1>2, QuietKept

\* Who stands in an operation or at a file is no idle call.
LEMMA NotIdle ==
    ASSUME NEW k \in Calls, calls[k].at # "" \/ calls[k].phase # ""
    PROVE  ~Idle(k)
  BY NoCallIs DEF Idle

LEMMA LoadKept ==
    ASSUME AInv, NEW k \in Calls, Load(k)
    PROVE  AInv'
<1>1. ~Idle(k) /\ (Locks(k) => Holds(k)) /\ calls[k] \in CallRecords /\ CallOK(k)
  BY NotIdle DEF Load, MayGoOn, AInv, CallsOK
<1>2. CASE RefuseCall(k)
  BY <1>1, <1>2, RefusedIsAnswered, AnswerKept DEF Load, AInv
<1>3. CASE /\ file # NoFile /\ UNCHANGED <<tail, client>>
           /\ calls' = [calls EXCEPT ![k].copy = file, ![k].at = "install"]
  <2>1. /\ calls' \in [Calls -> CallRecords] /\ Others(k)
        /\ calls'[k].phase = calls[k].phase /\ calls'[k].kind = calls[k].kind
        /\ calls'[k].request = calls[k].request /\ calls'[k].object = calls[k].object
        /\ calls'[k].at = "install" /\ calls'[k].copy = file
    <3>1. calls \in [Calls -> CallRecords] /\ file \in {NoFile} \cup Transcript
      BY DEF AInv, CallsOK, SessionOK
    <3>2. PICK former \in CallRecords : former = calls[k]
      BY <1>1
    <3>3. PICK new \in CallRecords : new = [former EXCEPT !.copy = file, !.at = "install"]
      <4>1. "install" \in CallPlaces
        BY DEF CallPlaces
      <4> QED BY <3>1, <4>1 DEF CallRecords
    <3>4. /\ new.phase = former.phase /\ new.kind = former.kind /\ new.request = former.request
          /\ new.object = former.object /\ new.at = "install" /\ new.copy = file
      BY <3>3 DEF CallRecords
    <3>5. calls' = [calls EXCEPT ![k] = new]
      BY <1>3, <3>2, <3>3
    <3>6. calls' \in [Calls -> CallRecords] /\ Others(k) /\ calls'[k] = new
      BY <3>1, <3>5 DEF Others
    <3> QED BY <3>2, <3>4, <3>6
  <2>2. Stands(k)'
    <3>1. calls[k].phase # "between" /\ calls[k].phase # ""
      BY <1>1, NoCallIs DEF CallOK, Stands, Load, Idle
    <3>2. CASE calls[k].phase = "operate"
      <4>1. calls[k].kind \in {"prompt", "reset", "get", "list", "abort"}
        BY <3>2 DEF Load, Needs
      <4>2. Operating(k)'
        BY <2>1, <4>1 DEF Operating
      <4> QED BY <2>1, <3>2, <4>2 DEF Stands
    <3>3. CASE calls[k].phase # "operate"
      BY <1>1, <2>1, <3>1, <3>3 DEF CallOK, Stands
    <3> QED BY <3>2, <3>3
  <2>3. calls'[k].object \in 0 .. Len(objects')
    BY <1>1, <2>1 DEF CallOK, Load, memory
  <2>4. file \in Transcript
    BY <1>1, <1>3 DEF Load, AInv, SessionOK
  <2>5. Moves(k)
    BY <1>1, <1>3, <2>1, <2>2, <2>3, <2>4, StaysMoves DEF AInv
  <2>6. objects = <<>> => Unmet(k)'
    <3>1. objects = <<>> => calls[k].phase \in {"look", "authorize"}
      BY <1>1 DEF AInv, FirstOK, Unmet, Looking, IsAt
    <3> QED BY <1>3, <2>1, <3>1 DEF Unmet, Load
  <2> QED BY <1>1, <1>3, <2>1, <2>5, <2>6, QuietKept DEF Load, AInv, ClientsOK
<1> QED BY <1>2, <1>3 DEF Load

\* One object more, which nobody works with yet, takes the place of the
\* active one or will.
LEMMA ObjectAdded ==
    ASSUME SessionOK, NEW object \in ObjectRecords, object.run = 0,
           objects' = Append(objects, object),
           active' \in {active, Len(objects')},
           UNCHANGED <<revision, file, runs, journal, expired>>
    PROVE  SessionOK' /\ Len(objects') = Len(objects) + 1
<1>1. /\ objects \in Seq(ObjectRecords) /\ Len(objects) \in Nat
      /\ DOMAIN objects = 1 .. Len(objects) /\ Len(runs) \in Nat
  BY DEF SessionOK
<1>2. /\ objects' \in Seq(ObjectRecords) /\ Len(objects') = Len(objects) + 1
      /\ DOMAIN objects' = 1 .. Len(objects) + 1
      /\ \A o \in DOMAIN objects : objects'[o] = objects[o]
      /\ objects'[Len(objects) + 1] = object
  BY <1>1
<1>3. \A o \in DOMAIN objects' : objects'[o].run \in 0 .. Len(runs')
  <2>1. ASSUME NEW o \in DOMAIN objects'
        PROVE  objects'[o].run \in 0 .. Len(runs')
    <3>1. CASE o \in DOMAIN objects
      BY <1>2, <3>1 DEF SessionOK
    <3>2. CASE o = Len(objects) + 1
      BY <1>1, <1>2, <3>2
    <3> QED BY <1>1, <1>2, <3>1, <3>2
  <2> QED BY <2>1
<1>4. \A r \in DOMAIN runs' : runs'[r].object \in DOMAIN objects'
  BY <1>1, <1>2 DEF SessionOK
<1>5. active' \in 0 .. Len(objects')
  BY <1>1, <1>2 DEF SessionOK
<1> QED BY <1>2, <1>3, <1>4, <1>5 DEF SessionOK

\* Nothing of it changes what is remembered.
LEMMA RemembersOn ==
    ASSUME RememberedOK, UNCHANGED <<runs, journal, expired>>
    PROVE  RememberedOK'
  BY DEF RememberedOK

LEMMA InstallKept ==
    ASSUME AInv, NEW k \in Calls, Install(k)
    PROVE  AInv'
<1>1. /\ ~Idle(k) /\ calls[k] \in CallRecords /\ CallOK(k) /\ (Locks(k) => Holds(k))
      /\ calls \in [Calls -> CallRecords] /\ SessionOK
  BY NotIdle DEF Install, AInv, CallsOK, QueueOK, WentOn
<1>2. PICK c \in Transcript : c = calls[k].copy
  BY <1>1 DEF Install, CallOK
<1>3. PICK object \in ObjectRecords :
         /\ object.run = 0
         /\ objects' = Append(objects, object)
  <2>1. [messages |-> c.messages, context |-> c.context, run |-> 0] \in ObjectRecords
    BY DEF Transcript, ObjectRecords
  <2>2. objects' = Append(objects, [messages |-> c.messages, context |-> c.context, run |-> 0])
    BY <1>2 DEF Install
  <2> QED BY <2>1, <2>2
<1>4. SessionOK' /\ Len(objects') = Len(objects) + 1
  BY <1>1, <1>3, ObjectAdded DEF Install
<1>5. PICK n \in Nat : n = Len(objects')
  BY <1>1, <1>4 DEF SessionOK
<1>6. /\ calls' \in [Calls -> CallRecords] /\ Others(k)
      /\ calls'[k].phase = calls[k].phase /\ calls'[k].kind = calls[k].kind
      /\ calls'[k].request = calls[k].request /\ calls'[k].object = n
      /\ calls'[k].at = "seek"
  BY <1>1, <1>5 DEF Install, CallRecords, CallPhases, CallPlaces, Others
<1>7. Stands(k)'
  <2>1. calls[k].at = "install"
    BY DEF Install
  <2>2. CASE calls[k].phase = "operate"
    BY <1>1, <1>6, <2>1, <2>2, NoCallIs DEF CallOK, Stands, Operating, Idle
  <2>3. CASE calls[k].phase # "operate"
    BY <1>1, <1>6, <2>1, <2>3, NoCallIs DEF CallOK, Stands, Idle
  <2> QED BY <2>2, <2>3
<1>8. calls'[k].object \in 0 .. Len(objects')
  BY <1>5, <1>6
<1>9. Moves(k)
  BY <1>1, <1>6, <1>7, <1>8, StaysMoves DEF AInv, Install
<1>10. RememberedOK' /\ Len(objects') >= Len(objects) /\ objects' # <<>>
  BY <1>1, <1>4, RemembersOn DEF Install, AInv, SessionOK
<1> QED BY <1>1, <1>4, <1>9, <1>10, MovesKept DEF Install, AInv, ClientsOK

\* The object a call works with is there.
LEMMA FoundObject ==
    ASSUME AInv, NEW k \in Calls, Object(k) # 0
    PROVE  Object(k) \in DOMAIN objects /\ objects[Object(k)] \in ObjectRecords
<1>1. objects \in Seq(ObjectRecords) /\ calls[k].object \in 0 .. Len(objects)
      /\ active \in 0 .. Len(objects)
  BY DEF AInv, SessionOK, CallsOK, CallOK
<1>2. Object(k) \in DOMAIN objects
  BY <1>1 DEF Object
<1> QED BY <1>1, <1>2

LEMMA FoundIs ==
    ASSUME AInv, NEW k \in Calls, NEW phase \in {"look", "authorize", "operate"},
           IsAt(k, phase, "seek"), MayGoOn(k)
    PROVE  ~Idle(k) /\ (Locks(k) => Holds(k))
  BY NotIdle DEF IsAt, MayGoOn

\* Who has found the session, or has gone on, came when it had been in memory.
LEMMA MetLater ==
    ASSUME AInv, NEW k \in Calls,
           \/ Object(k) # 0
           \/ calls[k].phase \in {"between", "operate"}
           \/ calls[k].at \in {"refresh", "stream", "abort", "wait", "save", "remove"}
    PROVE  objects # <<>>
<1>1. CASE Object(k) # 0
  BY <1>1, FoundObject
<1>2. CASE Object(k) = 0
  BY <1>2, NoCallIs DEF AInv, FirstOK, Unmet, Looking, IsAt, Idle
<1> QED BY <1>1, <1>2

LEMMA AuthorizeKept ==
    ASSUME AInv, NEW k \in Calls, Authorize(k)
    PROVE  AInv'
<1>1. ~Idle(k) /\ (Locks(k) => Holds(k)) /\ calls[k].phase = "authorize"
  BY FoundIs DEF Authorize, Found, IsAt
<1>2. CASE Proceed(k)
  <2>1. Moves(k) /\ objects # <<>>
    BY <1>1, <1>2, ProceedMoves, MetLater DEF AInv, SessionOK, Authorize, Found, memory
  <2> QED BY <1>1, <1>2, <2>1, QuietKept DEF Authorize, Proceed, AInv, ClientsOK
<1>3. CASE RefuseCall(k)
  BY <1>1, <1>3, RefusedIsAnswered, AnswerKept DEF Authorize, AInv
<1> QED BY <1>2, <1>3 DEF Authorize

LEMMA RefreshKept ==
    ASSUME AInv, NEW k \in Calls, Refresh(k)
    PROVE  AInv'
<1>1. ~Idle(k) /\ (Locks(k) => Holds(k)) /\ calls[k].phase = "authorize"
  BY FoundIs DEF Refresh, Found, IsAt
<1>2. calls[k] \in CallRecords /\ CallOK(k) /\ calls \in [Calls -> CallRecords] /\ SessionOK
  BY DEF AInv, CallsOK
<1>3. PICK messages \in Seq(Nat) : messages = TakenOver(Object(k))
  BY FoundObject DEF Refresh, Found, TakenOver, ObjectRecords
<1>4. PICK context \in Nat : context = calls[k].context
  BY <1>2 DEF CallRecords, CallPhases, CallPlaces
<1>5. PICK object \in ObjectRecords :
         object.run = 0 /\ objects' = Append(objects, object)
  <2>1. [messages |-> messages, context |-> context, run |-> 0] \in ObjectRecords
    BY DEF ObjectRecords
  <2>2. objects' = Append(objects, [messages |-> messages, context |-> context, run |-> 0])
    BY <1>3, <1>4 DEF Refresh
  <2> QED BY <2>1, <2>2
<1>6. SessionOK' /\ Len(objects') = Len(objects) + 1
  BY <1>2, <1>5, ObjectAdded DEF Refresh
<1>7. PICK n \in Nat : n = Len(objects')
  BY <1>2, <1>6 DEF SessionOK
<1>8. PICK copy \in Transcript : copy = [messages |-> messages, context |-> context]
  BY DEF Transcript
<1>9. calls' = [calls EXCEPT ![k].at = "refresh", ![k].object = n, ![k].copy = copy]
  BY <1>3, <1>4, <1>7, <1>8 DEF Refresh
<1>10. /\ calls' \in [Calls -> CallRecords] /\ Others(k)
       /\ calls'[k].phase = calls[k].phase /\ calls'[k].kind = calls[k].kind
       /\ calls'[k].request = calls[k].request /\ calls'[k].object = n
       /\ calls'[k].at = "refresh"
  BY <1>2, <1>9 DEF CallRecords, CallPhases, CallPlaces, Others
<1>11. Stands(k)'
  BY <1>1, <1>2, <1>10 DEF CallOK, Stands, Asked
<1>12. calls'[k].object \in 0 .. Len(objects')
  BY <1>7, <1>10
<1>13. Moves(k)
  BY <1>1, <1>10, <1>11, <1>12, StaysMoves DEF AInv, Refresh
<1>14. RememberedOK' /\ Len(objects') >= Len(objects) /\ objects' # <<>>
  BY <1>2, <1>6, RemembersOn DEF Refresh, AInv, SessionOK
<1> QED BY <1>1, <1>6, <1>13, <1>14, MovesKept DEF Refresh, AInv, ClientsOK

LEMMA InstallRefreshedKept ==
    ASSUME AInv, NEW k \in Calls, InstallRefreshed(k)
    PROVE  AInv'
<1>1. /\ ~Idle(k) /\ (Locks(k) => Holds(k))
      /\ calls[k] \in CallRecords /\ CallOK(k) /\ SessionOK
  BY NotIdle DEF InstallRefreshed, AInv, CallsOK, QueueOK, WentOn
<1>2. calls[k].phase = "authorize" /\ calls[k].kind \in Asked
  BY <1>1, NoCallIs DEF CallOK, Stands, Operating, InstallRefreshed, Idle
<1>3. Moves(k)
  BY <1>1, <1>2, ProceedMoves DEF AInv, SessionOK, InstallRefreshed
<1>4. SessionOK' /\ RememberedOK'
  <2>1. file' \in {NoFile} \cup Transcript /\ active' \in 0 .. Len(objects)
    BY <1>1 DEF InstallRefreshed, CallRecords, CallPhases, CallPlaces, CallOK
  <2> QED BY <1>1, <2>1, RemembersOn DEF InstallRefreshed, SessionOK, AInv
<1>5. objects # <<>> /\ Len(objects') >= Len(objects)
  BY <1>1, MetLater DEF InstallRefreshed, SessionOK
<1> QED BY <1>1, <1>3, <1>4, <1>5, MovesKept DEF InstallRefreshed, Proceed, AInv, ClientsOK

LEMMA ContinueKept ==
    ASSUME AInv, NEW k \in Calls, Continue(k)
    PROVE  AInv'
<1>1. /\ ~Idle(k) /\ ~Locks(k) /\ calls[k].phase = "between"
      /\ calls[k] \in CallRecords /\ CallOK(k) /\ calls \in [Calls -> CallRecords]
  BY NotIdle DEF Continue, AInv, CallsOK, Locks
<1>2. calls[k].kind \in Asked /\ calls[k].object = 0
  BY <1>1, NoCallIs DEF CallOK, Stands, Operating, Idle
<1>3. /\ calls' \in [Calls -> CallRecords] /\ Others(k)
      /\ calls'[k].phase = "operate" /\ calls'[k].kind = calls[k].kind
      /\ calls'[k].request = calls[k].request /\ calls'[k].object = 0
      /\ calls'[k].at = "seek"
  <2>1. PICK former \in CallRecords : former = calls[k]
    BY <1>1
  <2>2. PICK new \in CallRecords : new = [former EXCEPT !.phase = "operate", !.at = "seek"]
    <3>1. "operate" \in CallPhases /\ "seek" \in CallPlaces
      BY DEF CallPhases, CallPlaces
    <3> QED BY <3>1 DEF CallRecords
  <2>3. /\ new.phase = "operate" /\ new.at = "seek" /\ new.kind = former.kind
        /\ new.request = former.request /\ new.object = former.object
    BY <2>2 DEF CallRecords
  <2>4. calls' = [calls EXCEPT ![k] = new]
    BY <2>1, <2>2 DEF Continue
  <2>5. calls' \in [Calls -> CallRecords] /\ Others(k) /\ calls'[k] = new
    BY <1>1, <2>4 DEF Others
  <2> QED BY <1>2, <2>1, <2>3, <2>5
<1>4. Stands(k)'
  BY <1>2, <1>3 DEF Stands, Operating, Asked
<1>5. CallOK(k)'
  <2>1. Len(objects') \in Nat
    BY DEF Continue, memory, AInv, SessionOK
  <2>2. calls'[k].object \in 0 .. Len(objects')
    BY <1>3, <2>1
  <2> QED BY <1>1, <1>3, <1>4, <2>2 DEF CallOK
<1>6. Queued(k)
  <2>1. CASE calls[k].kind \in {"prompt", "reset", "delete"}
    BY <1>1, <1>3, <2>1 DEF Continue, Queued, Locks, WentOn
  <2>2. CASE calls[k].kind \notin {"prompt", "reset", "delete"}
    BY <1>1, <1>3, <2>2 DEF Continue, Queued, Locks
  <2> QED BY <2>1, <2>2
<1>7. Moves(k) /\ objects # <<>>
  BY <1>1, <1>3, <1>5, <1>6, MetLater DEF Moves
<1> QED BY <1>7, QuietKept DEF Continue, AInv, ClientsOK

LEMMA ListSessionKept ==
    ASSUME AInv, NEW k \in Calls, ListSession(k)
    PROVE  AInv'
<1>1. /\ ~Idle(k) /\ ~Locks(k) /\ calls[k].phase = "look" /\ calls[k].at = "seek"
      /\ calls[k] \in CallRecords /\ CallOK(k) /\ calls \in [Calls -> CallRecords]
  BY NotIdle DEF ListSession, Found, IsAt, AInv, CallsOK, Locks
<1>2. calls[k].kind = "list"
  BY <1>1, NoCallIs DEF CallOK, Stands, Idle
<1>3. CASE ~Busy(Object(k))
  <2>1. /\ calls' \in [Calls -> CallRecords] /\ Others(k)
        /\ calls'[k].phase = "authorize" /\ calls'[k].kind = "list"
        /\ calls'[k].object = 0 /\ calls'[k].at = "seek"
    <3>1. PICK former \in CallRecords : former = calls[k]
      BY <1>1
    <3>2. PICK new \in CallRecords : new = [former EXCEPT !.phase = "authorize", !.object = 0]
      <4>1. "authorize" \in CallPhases
        BY DEF CallPhases
      <4> QED BY <4>1 DEF CallRecords
    <3>3. /\ new.phase = "authorize" /\ new.object = 0
          /\ new.kind = former.kind /\ new.at = former.at
      BY <3>2 DEF CallRecords
    <3>4. calls' = [calls EXCEPT ![k] = new]
      BY <1>3, <3>1, <3>2 DEF ListSession
    <3>5. calls' \in [Calls -> CallRecords] /\ Others(k) /\ calls'[k] = new
      BY <1>1, <3>4 DEF Others
    <3> QED BY <1>1, <1>2, <3>1, <3>3, <3>5
  <2>2. Stands(k)'
    BY <1>2, <2>1 DEF Stands, Asked
  <2>3. CallOK(k)'
    <3>1. Len(objects') \in Nat
      BY DEF ListSession, memory, AInv, SessionOK
    <3>2. calls'[k].object \in 0 .. Len(objects')
      BY <2>1, <3>1
    <3> QED BY <1>2, <2>1, <2>2, <3>2 DEF CallOK
  <2>4. Queued(k)
    BY <1>1, <1>3, <2>1 DEF ListSession, Queued, Locks, WentOn
  <2>5. Moves(k) /\ objects # <<>>
    BY <2>1, <2>3, <2>4, MetLater DEF Moves, ListSession, Found
  <2> QED BY <1>3, <2>5, QuietKept DEF ListSession, AInv, ClientsOK
<1>4. CASE Busy(Object(k))
  <2>1. Answered(k)
    BY <1>4 DEF ListSession, Answered, Outcomes
  <2> QED BY <1>1, <2>1, AnswerKept DEF ListSession
<1> QED BY <1>3, <1>4

\* One object is changed, one run is changed, one run is added.
LEMMA ObjectChanged ==
    ASSUME objects \in Seq(ObjectRecords), NEW o \in DOMAIN objects, NEW object \in ObjectRecords,
           objects' = [objects EXCEPT ![o] = object]
    PROVE  /\ objects' \in Seq(ObjectRecords) /\ Len(objects') = Len(objects)
           /\ DOMAIN objects' = DOMAIN objects
           /\ objects'[o] = object
           /\ \A p \in DOMAIN objects : p # o => objects'[p] = objects[p]
<1>1. Len(objects) \in Nat /\ DOMAIN objects = 1 .. Len(objects)
      /\ objects \in [1 .. Len(objects) -> ObjectRecords]
  OBVIOUS
<1>2. objects' \in [1 .. Len(objects) -> ObjectRecords]
  BY <1>1
<1>3. objects' \in Seq(ObjectRecords) /\ DOMAIN objects' = 1 .. Len(objects)
  BY <1>1, <1>2
<1>4. Len(objects') = Len(objects)
  BY <1>1, <1>3
<1> QED BY <1>1, <1>3, <1>4

LEMMA RunChanged ==
    ASSUME runs \in Seq(RunRecords), NEW r \in DOMAIN runs, NEW run \in RunRecords,
           runs' = [runs EXCEPT ![r] = run]
    PROVE  /\ runs' \in Seq(RunRecords) /\ Len(runs') = Len(runs)
           /\ DOMAIN runs' = DOMAIN runs
           /\ runs'[r] = run
           /\ \A p \in DOMAIN runs : p # r => runs'[p] = runs[p]
<1>1. Len(runs) \in Nat /\ DOMAIN runs = 1 .. Len(runs)
      /\ runs \in [1 .. Len(runs) -> RunRecords]
  OBVIOUS
<1>2. runs' \in [1 .. Len(runs) -> RunRecords]
  BY <1>1
<1>3. runs' \in Seq(RunRecords) /\ DOMAIN runs' = 1 .. Len(runs)
  BY <1>1, <1>2
<1>4. Len(runs') = Len(runs)
  BY <1>1, <1>3
<1> QED BY <1>1, <1>3, <1>4

LEMMA AnsweringKept ==
    ASSUME AInv, NEW k \in Calls, Found(k, "operate"), RefuseCall(k) \/ Answered(k),
           UNCHANGED <<revision, file, memory, runs, sent>>
    PROVE  AInv'
<1>1. ~Idle(k) /\ (Locks(k) => Holds(k))
  BY FoundIs DEF Found
<1> QED BY <1>1, RefusedIsAnswered, AnswerKept DEF AInv

LEMMA GetSessionKept ==
    ASSUME AInv, NEW k \in Calls, GetSession(k)
    PROVE  AInv'
<1>1. Answered(k)
  BY DEF GetSession, Answered, Outcomes
<1> QED BY <1>1, AnsweringKept DEF GetSession

LEMMA ReplayRunKept ==
    ASSUME AInv, NEW k \in Calls, ReplayRun(k)
    PROVE  AInv'
<1>1. PICK r \in Remembered(calls[k].request) : Answer(k, "started", r)
  BY DEF ReplayRun
<1>2. r \in Nat
  BY DEF Remembered, AInv, SessionOK
<1>3. Answered(k)
  BY <1>1, <1>2 DEF Answered, Outcomes
<1> QED BY <1>3, AnsweringKept DEF ReplayRun

LEMMA RefusePromptKept ==
    ASSUME AInv, NEW k \in Calls, RefusePrompt(k)
    PROVE  AInv'
  BY AnsweringKept DEF RefusePrompt

\* What a run that is started does to objects and runs
LEMMA Started ==
    ASSUME AInv, NEW k \in Calls, StartPromptRun(k)
    PROVE  /\ objects' \in Seq(ObjectRecords) /\ Len(objects') = Len(objects)
           /\ runs' \in Seq(RunRecords) /\ Len(runs') = Len(runs) + 1
           /\ \A o \in DOMAIN objects :
                 /\ objects'[o].messages = objects[o].messages
                 /\ objects'[o].context = objects[o].context
                 /\ objects'[o].run = IF o = Object(k) THEN Len(runs) + 1 ELSE objects[o].run
           /\ \A r \in DOMAIN runs : runs'[r] = runs[r]
           /\ runs'[Len(runs) + 1] = NewRun(calls[k].request, Object(k))
           /\ Object(k) \in DOMAIN objects
<1>1. SessionOK /\ CallsOK /\ Object(k) # 0
  BY DEF AInv, StartPromptRun, Found
<1>2. Object(k) \in DOMAIN objects /\ objects[Object(k)] \in ObjectRecords
  BY <1>1, FoundObject
<1>3. PICK o \in DOMAIN objects : o = Object(k)
  BY <1>2
<1>4. PICK n \in Nat : n = Len(runs) + 1
  BY <1>1 DEF SessionOK
<1>5. PICK object \in ObjectRecords :
         /\ object.messages = objects[o].messages /\ object.context = objects[o].context
         /\ object.run = n
         /\ objects' = [objects EXCEPT ![o] = object]
  <2>1. PICK object \in ObjectRecords : object = [objects[o] EXCEPT !.run = n]
    BY <1>2, <1>3 DEF ObjectRecords
  <2>2. objects' = [objects EXCEPT ![o] = object]
    BY <1>3, <1>4, <2>1 DEF StartPromptRun
  <2> QED BY <1>2, <1>3, <2>1, <2>2 DEF ObjectRecords
<1>6. /\ objects' \in Seq(ObjectRecords) /\ Len(objects') = Len(objects)
      /\ objects'[o] = object
      /\ \A p \in DOMAIN objects : p # o => objects'[p] = objects[p]
  BY <1>1, <1>5, ObjectChanged DEF SessionOK
<1>7. NewRun(calls[k].request, Object(k)) \in RunRecords
  BY <1>1, <1>2 DEF NewRun, RunRecords, StartPromptRun, CallsOK, CallOK, SessionOK
<1>8. PICK run \in RunRecords : run = NewRun(calls[k].request, Object(k))
  BY <1>7
<1>9. runs' = Append(runs, run)
  BY <1>8 DEF StartPromptRun
<1>10. /\ runs' \in Seq(RunRecords) /\ Len(runs') = Len(runs) + 1
       /\ \A r \in DOMAIN runs : runs'[r] = runs[r]
       /\ runs'[Len(runs) + 1] = run
  BY <1>1, <1>9 DEF SessionOK
<1> QED BY <1>3, <1>4, <1>5, <1>6, <1>8, <1>10

LEMMA StartPromptRunKept ==
    ASSUME AInv, NEW k \in Calls, StartPromptRun(k)
    PROVE  AInv'
<1>1. /\ ~Idle(k) /\ (Locks(k) => Holds(k)) /\ SessionOK /\ CallsOK
      /\ calls[k].kind = "prompt" /\ Len(runs) \in Nat
  BY FoundIs DEF StartPromptRun, Found, AInv, SessionOK
<1>2. /\ objects' \in Seq(ObjectRecords) /\ Len(objects') = Len(objects)
      /\ runs' \in Seq(RunRecords) /\ Len(runs') = Len(runs) + 1
      /\ \A o \in DOMAIN objects :
            objects'[o].run = IF o = Object(k) THEN Len(runs) + 1 ELSE objects[o].run
      /\ \A r \in DOMAIN runs : runs'[r] = runs[r]
      /\ runs'[Len(runs) + 1] = NewRun(calls[k].request, Object(k))
      /\ Object(k) \in DOMAIN objects
  BY Started
<1>3. DOMAIN objects' = DOMAIN objects /\ DOMAIN runs' = DOMAIN runs \cup {Len(runs) + 1}
  BY <1>1, <1>2 DEF SessionOK
<1>4. SessionOK'
  <2>1. \A o \in DOMAIN objects' : objects'[o].run \in 0 .. Len(runs')
    BY <1>1, <1>2, <1>3 DEF SessionOK
  <2>2. \A r \in DOMAIN runs' : runs'[r].object \in DOMAIN objects'
    BY <1>1, <1>2, <1>3 DEF SessionOK, NewRun
  <2>3. journal' \subseteq DOMAIN runs'
    BY <1>1, <1>3 DEF SessionOK, StartPromptRun
  <2> QED BY <1>1, <1>2, <2>1, <2>2, <2>3 DEF SessionOK, StartPromptRun
<1>5. RememberedOK'
  <2>1. ASSUME NEW r \in DOMAIN runs'
        PROVE  \/ runs'[r].cleared \/ runs'[r].forgotten
               \/ r \in journal' \/ runs'[r].request \in expired'
    <3>1. CASE r = Len(runs) + 1
      BY <3>1 DEF StartPromptRun
    <3>2. CASE r \in DOMAIN runs
      BY <1>2, <3>2 DEF StartPromptRun, AInv, RememberedOK
    <3> QED BY <1>3, <2>1, <3>1, <3>2
  <2> QED BY <2>1 DEF RememberedOK
<1>6. PICK n \in Nat : n = Len(runs) + 1
  BY <1>1
<1>7. Answered(k)
  <2>1. Answer(k, "started", n)
    BY <1>6 DEF StartPromptRun, Answer
  <2> QED BY <2>1 DEF Answered, Outcomes
<1>8. Moves(k) /\ calls'[k] = NoCall /\ client' \in [Requests -> ClientRecords]
  BY <1>1, <1>2, <1>7, AnswerMoves DEF AInv
<1>9. Len(objects') >= Len(objects) /\ objects # <<>>
  BY <1>1, <1>2 DEF SessionOK
<1> QED BY <1>1, <1>4, <1>5, <1>8, <1>9, MovesKept DEF StartPromptRun

LEMMA ObserveRunKept ==
    ASSUME AInv, NEW k \in Calls, ObserveRun(k)
    PROVE  AInv'
<1>1. /\ ~Idle(k) /\ ~Locks(k) /\ calls[k].phase = "operate" /\ calls[k].kind = "events"
      /\ calls[k] \in CallRecords /\ CallOK(k) /\ calls \in [Calls -> CallRecords]
  BY NotIdle DEF ObserveRun, IsAt, AInv, CallsOK, Locks
<1>2. CASE RefuseCall(k)
  BY <1>1, <1>2, RefusedIsAnswered, AnswerKept DEF ObserveRun, AInv
<1>3. CASE To(k, "stream") /\ UNCHANGED <<tail, client>>
  <2>1. /\ calls' \in [Calls -> CallRecords] /\ Others(k)
        /\ calls'[k].phase = calls[k].phase /\ calls'[k].kind = calls[k].kind
        /\ calls'[k].request = calls[k].request /\ calls'[k].object = calls[k].object
        /\ calls'[k].at = "stream"
    BY <1>1, <1>3 DEF To, CallRecords, CallPhases, CallPlaces, Others
  <2>2. Stands(k)'
    BY <1>1, <2>1 DEF Stands, Operating
  <2>3. Moves(k)
    BY <1>1, <1>3, <2>1, <2>2, StaysMoves DEF CallOK, AInv, ObserveRun, memory
  <2> QED BY <1>1, <1>3, <2>3, MetLater, QuietKept DEF ObserveRun, AInv, ClientsOK
<1> QED BY <1>2, <1>3 DEF ObserveRun

LEMMA SendOutcomeKept ==
    ASSUME AInv, NEW k \in Calls, SendOutcome(k)
    PROVE  AInv'
<1>1. /\ ~Idle(k) /\ (Locks(k) => Holds(k)) /\ calls[k] \in CallRecords
  BY NotIdle DEF SendOutcome, AInv, CallsOK, QueueOK, WentOn
<1>2. PICK r \in Nat : r = calls[k].run
  BY <1>1 DEF CallRecords, CallPhases, CallPlaces
<1>3. Answer(k, "done", r)
  BY <1>2 DEF SendOutcome, Answer
<1>4. Answered(k)
  BY <1>3 DEF Answered, Outcomes
<1> QED BY <1>1, <1>4, AnswerKept DEF SendOutcome

LEMMA LookUpRunKept ==
    ASSUME AInv, NEW k \in Calls, LookUpRun(k)
    PROVE  AInv'
<1>1. /\ ~Idle(k) /\ ~Locks(k) /\ calls[k].phase = "operate" /\ calls[k].kind = "abort"
      /\ calls[k] \in CallRecords /\ CallOK(k) /\ calls \in [Calls -> CallRecords]
  BY NotIdle DEF LookUpRun, IsAt, AInv, CallsOK, Locks
<1>2. CASE Answer(k, "done", 0)
  <2>1. Answered(k)
    BY <1>2 DEF Answered, Outcomes
  <2> QED BY <1>1, <2>1, AnswerKept DEF LookUpRun
<1>3. CASE /\ Object(k) # 0 /\ UNCHANGED <<tail, client>>
           /\ calls' = [calls EXCEPT ![k].at = "abort", ![k].object = Object(k)]
  <2>1. PICK o \in DOMAIN objects : o = Object(k)
    BY <1>3, FoundObject
  <2>2. o \in Nat /\ o \in 0 .. Len(objects')
    BY DEF LookUpRun, memory, AInv, SessionOK
  <2>3. calls' = [calls EXCEPT ![k].at = "abort", ![k].object = o]
    BY <1>3, <2>1
  <2>4. calls' \in [Calls -> CallRecords]
    BY <1>1, <2>2, <2>3 DEF CallRecords, CallPhases, CallPlaces
  <2>5. /\ Others(k)
        /\ calls'[k].phase = calls[k].phase /\ calls'[k].kind = calls[k].kind
        /\ calls'[k].request = calls[k].request /\ calls'[k].object = o
        /\ calls'[k].at = "abort"
    BY <1>1, <2>3 DEF CallRecords, CallPhases, CallPlaces, Others
  <2>6. Stands(k)'
    BY <1>1, <2>5 DEF Stands, Operating
  <2>7. Moves(k)
    BY <1>1, <1>3, <2>2, <2>4, <2>5, <2>6, StaysMoves DEF AInv
  <2> QED BY <1>1, <1>3, <2>7, MetLater, QuietKept DEF LookUpRun, AInv, ClientsOK
<1> QED BY <1>2, <1>3 DEF LookUpRun

\* The session goes on with the objects and the runs it has.
LEMMA SessionStays ==
    ASSUME SessionOK, revision' \in Nat, file' \in {NoFile} \cup Transcript,
           objects' \in Seq(ObjectRecords), Len(objects') = Len(objects),
           \A o \in DOMAIN objects : objects'[o].run \in {0, objects[o].run},
           runs' \in Seq(RunRecords), Len(runs') = Len(runs),
           \A r \in DOMAIN runs : runs'[r].object = runs[r].object,
           active' \in {0, active}, journal' \subseteq journal, expired' \subseteq Requests
    PROVE  SessionOK'
<1>1. DOMAIN objects' = DOMAIN objects /\ DOMAIN runs' = DOMAIN runs
  BY DEF SessionOK
<1>2. \A o \in DOMAIN objects' : objects'[o].run \in 0 .. Len(runs')
  BY <1>1 DEF SessionOK
<1>3. \A r \in DOMAIN runs' : runs'[r].object \in DOMAIN objects'
  BY <1>1 DEF SessionOK
<1>4. active' \in 0 .. Len(objects') /\ journal' \subseteq DOMAIN runs'
  BY <1>1 DEF SessionOK
<1> QED BY <1>2, <1>3, <1>4 DEF SessionOK

LEMMA RunsForgotten ==
    ASSUME runs \in Seq(RunRecords), runs' = Forget
    PROVE  /\ runs' \in Seq(RunRecords) /\ Len(runs') = Len(runs)
           /\ DOMAIN runs' = DOMAIN runs
           /\ \A r \in DOMAIN runs :
                 /\ runs'[r].object = runs[r].object /\ runs'[r].at = runs[r].at
                 /\ runs'[r].request = runs[r].request /\ runs'[r].cleared = TRUE
<1>1. Len(runs) \in Nat /\ DOMAIN runs = 1 .. Len(runs)
      /\ runs \in [1 .. Len(runs) -> RunRecords]
  OBVIOUS
<1>2. ASSUME NEW r \in DOMAIN runs
      PROVE  /\ runs'[r] \in RunRecords
             /\ runs'[r].object = runs[r].object /\ runs'[r].at = runs[r].at
             /\ runs'[r].request = runs[r].request /\ runs'[r].cleared = TRUE
  <2>1. PICK run \in RunRecords : run = runs[r]
    BY <1>1, <1>2
  <2>2. runs'[r] = [run EXCEPT !.cleared = TRUE]
    BY <1>2, <2>1 DEF Forget
  <2> QED BY <2>1, <2>2 DEF RunRecords
<1>3. runs' \in [1 .. Len(runs) -> RunRecords]
  BY <1>1, <1>2 DEF Forget
<1>4. runs' \in Seq(RunRecords) /\ DOMAIN runs' = 1 .. Len(runs)
  BY <1>1, <1>3
<1>5. Len(runs') = Len(runs)
  BY <1>1, <1>4
<1> QED BY <1>1, <1>2, <1>4, <1>5

\* A cancellation is noted in the run.
LEMMA Cancelled ==
    ASSUME AInv, NEW k \in Calls, AbortRun(k)
    PROVE  /\ runs' \in Seq(RunRecords) /\ Len(runs') = Len(runs)
           /\ DOMAIN runs' = DOMAIN runs
           /\ \A r \in DOMAIN runs :
                 /\ runs'[r].object = runs[r].object /\ runs'[r].at = runs[r].at
                 /\ runs'[r].copy = runs[r].copy /\ runs'[r].result = runs[r].result
                 /\ runs'[r].request = runs[r].request
                 /\ runs'[r].cleared = runs[r].cleared
                 /\ runs'[r].forgotten = runs[r].forgotten
<1>1. runs \in Seq(RunRecords)
  BY DEF AInv, SessionOK
<1>2. CASE runs' = runs
  BY <1>1, <1>2
<1>3. CASE runs' = [runs EXCEPT ![calls[k].run].cancelled = TRUE]
  <2>1. CASE calls[k].run \notin DOMAIN runs
    <3>1. runs' = runs
      BY <1>1, <1>3, <2>1
    <3> QED BY <1>1, <3>1
  <2>2. CASE calls[k].run \in DOMAIN runs
    <3>1. PICK c \in DOMAIN runs : c = calls[k].run
      BY <2>2
    <3>2. PICK old_run \in RunRecords : old_run = runs[c]
      BY <1>1
    <3>3. PICK run \in RunRecords : run = [old_run EXCEPT !.cancelled = TRUE]
      BY DEF RunRecords
    <3>4. runs' = [runs EXCEPT ![c] = run]
      BY <1>3, <3>1, <3>2, <3>3
    <3>5. /\ run.object = runs[c].object /\ run.at = runs[c].at
          /\ run.copy = runs[c].copy /\ run.result = runs[c].result
          /\ run.request = runs[c].request /\ run.cleared = runs[c].cleared
          /\ run.forgotten = runs[c].forgotten
      BY <3>2, <3>3 DEF RunRecords
    <3> QED BY <1>1, <3>4, <3>5, RunChanged
  <2> QED BY <2>1, <2>2
<1> QED BY <1>2, <1>3 DEF AbortRun

LEMMA AbortRunKept ==
    ASSUME AInv, NEW k \in Calls, AbortRun(k)
    PROVE  AInv'
<1>1. /\ ~Idle(k) /\ (Locks(k) => Holds(k)) /\ calls[k].at = "abort" /\ SessionOK
      /\ calls[k] \in CallRecords /\ CallOK(k) /\ calls \in [Calls -> CallRecords]
  BY NotIdle DEF AbortRun, AInv, CallsOK, QueueOK, WentOn
<1>2. calls[k].phase = "operate" /\ calls[k].kind \in {"abort", "reset", "delete"}
  BY <1>1, NoCallIs DEF CallOK, Stands, Operating, Idle
<1>3. SessionOK'
  BY <1>1, Cancelled, SessionStays DEF AbortRun, memory, SessionOK
<1>4. RememberedOK'
  BY Cancelled DEF RememberedOK, AInv, AbortRun, memory
<1>5. objects # <<>> /\ Len(objects') >= Len(objects)
  BY <1>1, <1>2, MetLater DEF AbortRun, memory, SessionOK
<1>6. CASE RefuseCall(k) \/ Answer(k, "done", calls[k].run)
  <2>1. Answered(k)
    <3>1. PICK r \in Nat : r = calls[k].run
      BY <1>1 DEF CallRecords, CallPhases, CallPlaces
    <3>2. Answer(k, "done", calls[k].run) => Answer(k, "done", r)
      BY <3>1 DEF Answer
    <3> QED BY <1>6, <3>2, RefusedIsAnswered DEF Answered, Outcomes, AInv
  <2>2. Moves(k) /\ calls'[k] = NoCall /\ client' \in [Requests -> ClientRecords]
    BY <1>1, <2>1, AnswerMoves DEF AInv, SessionOK, AbortRun, memory
  <2> QED BY <1>1, <1>3, <1>4, <1>5, <2>2, MovesKept DEF AbortRun
<1>7. CASE To(k, "wait") /\ UNCHANGED <<tail, client>> /\ calls[k].kind # "abort"
  <2>1. /\ calls' \in [Calls -> CallRecords] /\ Others(k)
        /\ calls'[k].phase = calls[k].phase /\ calls'[k].kind = calls[k].kind
        /\ calls'[k].request = calls[k].request /\ calls'[k].object = calls[k].object
        /\ calls'[k].at = "wait"
    BY <1>1, <1>7 DEF To, CallRecords, CallPhases, CallPlaces, Others
  <2>2. Stands(k)'
    BY <1>2, <1>7, <2>1 DEF Stands, Operating
  <2>3. Moves(k)
    BY <1>1, <1>7, <2>1, <2>2, StaysMoves DEF CallOK, AInv, AbortRun, memory
  <2> QED BY <1>3, <1>4, <1>5, <1>7, <2>3, MovesKept DEF AbortRun, AInv, ClientsOK
<1> QED BY <1>6, <1>7 DEF AbortRun

LEMMA InterruptKept ==
    ASSUME AInv, NEW k \in Calls, Interrupt(k)
    PROVE  AInv'
<1>1. /\ ~Idle(k) /\ (Locks(k) => Holds(k)) /\ calls[k].at = "seek" /\ SessionOK
      /\ calls[k].phase = "operate" /\ calls[k].kind \in {"reset", "delete"}
      /\ calls[k] \in CallRecords /\ CallOK(k) /\ calls \in [Calls -> CallRecords]
  BY FoundIs DEF Interrupt, AInv, CallsOK, IsAt
<1>2. CASE RefuseCall(k)
  BY <1>1, <1>2, RefusedIsAnswered, AnswerKept DEF Interrupt, AInv
<1>3. CASE /\ UNCHANGED <<tail, client>>
           /\ calls' = [calls EXCEPT ![k].object = Object(k), ![k].run = objects[Object(k)].run,
                  ![k].at = IF runs[objects[Object(k)].run].cancelled THEN "wait" ELSE "abort"]
  <2>1. PICK o \in DOMAIN objects : o = Object(k)
    BY <1>3, FoundObject DEF Interrupt
  <2>2. o \in Nat /\ o \in 0 .. Len(objects')
    BY <1>1 DEF Interrupt, memory, SessionOK
  <2>3. PICK r \in Nat : r = objects[o].run
    BY <1>1 DEF SessionOK, ObjectRecords
  <2>4. PICK at \in {"wait", "abort"} :
            at = IF runs[objects[Object(k)].run].cancelled THEN "wait" ELSE "abort"
    OBVIOUS
  <2>5. calls' = [calls EXCEPT ![k].object = o, ![k].run = r, ![k].at = at]
    BY <1>3, <2>1, <2>3, <2>4
  <2>6. calls' \in [Calls -> CallRecords]
    BY <1>1, <2>2, <2>5 DEF CallRecords, CallPhases, CallPlaces
  <2>7. /\ Others(k)
        /\ calls'[k].phase = calls[k].phase /\ calls'[k].kind = calls[k].kind
        /\ calls'[k].request = calls[k].request /\ calls'[k].object = o
        /\ calls'[k].at = at
    BY <1>1, <2>5 DEF CallRecords, CallPhases, CallPlaces, Others
  <2>8. Stands(k)'
    BY <1>1, <2>7 DEF Stands, Operating
  <2>9. Moves(k)
    BY <1>1, <1>3, <2>2, <2>6, <2>7, <2>8, StaysMoves DEF AInv
  <2> QED BY <1>1, <1>3, <2>9, MetLater, QuietKept DEF Interrupt, AInv, ClientsOK
<1> QED BY <1>2, <1>3 DEF Interrupt

\* Whoever may reset or remove the session holds its lock.
LEMMA AtRestIs ==
    ASSUME AInv, NEW k \in Calls, calls[k].kind \in {"reset", "delete"}, AtRest(k)
    PROVE  /\ ~Idle(k) /\ Locks(k) /\ Holds(k) /\ calls[k].phase = "operate"
           /\ objects # <<>>
<1>1. ~Idle(k) /\ CallOK(k)
  BY NotIdle DEF AtRest, IsAt, AInv, CallsOK
<1>2. calls[k].phase = "operate"
  BY <1>1, NoCallIs DEF AtRest, IsAt, CallOK, Stands, Operating, Idle
<1>3. Locks(k)
  BY <1>2 DEF Locks
<1>4. Holds(k)
  BY <1>3 DEF AtRest, MayGoOn, AInv, QueueOK, WentOn
<1> QED BY <1>1, <1>2, <1>3, <1>4, MetLater

LEMMA EmptyIsSeq == <<>> \in Seq(Nat)
  OBVIOUS

LEMMA Emptied ==
    ASSUME AInv, NEW k \in Calls, ResetSession(k)
    PROVE  /\ objects' \in Seq(ObjectRecords) /\ Len(objects') = Len(objects)
           /\ Object(k) \in DOMAIN objects
           /\ objects'[Object(k)].messages = <<>>
           /\ \A o \in DOMAIN objects :
                 /\ objects'[o].context = objects[o].context
                 /\ objects'[o].run = objects[o].run
                 /\ o # Object(k) => objects'[o] = objects[o]
<1>1. objects \in Seq(ObjectRecords)
  BY DEF AInv, SessionOK
<1>2. PICK o \in DOMAIN objects : o = Object(k)
  BY FoundObject DEF ResetSession
<1>3. PICK old_object \in ObjectRecords : old_object = objects[o]
  BY <1>1
<1>4. PICK object \in ObjectRecords : object = [old_object EXCEPT !.messages = <<>>]
  BY EmptyIsSeq DEF ObjectRecords
<1>5. objects' = [objects EXCEPT ![o] = object]
  BY <1>2, <1>3, <1>4 DEF ResetSession
<1>6. object.messages = <<>> /\ object.context = objects[o].context /\ object.run = objects[o].run
  BY <1>3, <1>4 DEF ObjectRecords
<1> QED BY <1>1, <1>2, <1>5, <1>6, ObjectChanged

LEMMA ResetSessionKept ==
    ASSUME AInv, NEW k \in Calls, ResetSession(k)
    PROVE  AInv'
<1>1. /\ ~Idle(k) /\ Locks(k) /\ Holds(k) /\ objects # <<>> /\ calls[k].phase = "operate"
      /\ calls[k].kind = "reset" /\ SessionOK
      /\ calls[k] \in CallRecords /\ CallOK(k) /\ calls \in [Calls -> CallRecords]
  BY AtRestIs DEF ResetSession, AInv, CallsOK
<1>2. SessionOK'
  BY <1>1, Emptied, RunsForgotten, SessionStays DEF ResetSession, SessionOK
<1>3. RememberedOK'
  BY <1>1, RunsForgotten DEF ResetSession, SessionOK, RememberedOK
<1>4. PICK context \in Nat : context = objects[Object(k)].context
  <2>1. objects[Object(k)] \in ObjectRecords
    BY <1>1, Emptied DEF SessionOK
  <2> QED BY <2>1 DEF ObjectRecords
<1>5. PICK copy \in Transcript : copy = [messages |-> <<>>, context |-> context]
  BY EmptyIsSeq DEF Transcript
<1>6. calls' = [calls EXCEPT ![k].at = "save", ![k].copy = copy]
  BY <1>4, <1>5 DEF ResetSession
<1>7. /\ calls' \in [Calls -> CallRecords] /\ Others(k)
      /\ calls'[k].phase = calls[k].phase /\ calls'[k].kind = calls[k].kind
      /\ calls'[k].request = calls[k].request /\ calls'[k].object = calls[k].object
      /\ calls'[k].at = "save"
  BY <1>1, <1>6 DEF CallRecords, CallPhases, CallPlaces, Others
<1>8. Stands(k)'
  BY <1>1, <1>7 DEF Stands, Operating
<1>9. Len(objects') = Len(objects) /\ Len(objects) \in Nat
  BY <1>1, Emptied DEF SessionOK
<1>10. calls'[k].object \in 0 .. Len(objects')
  BY <1>1, <1>7, <1>9 DEF CallOK
<1>11. Moves(k)
  BY <1>1, <1>7, <1>8, <1>10, StaysMoves DEF AInv, ResetSession
<1> QED BY <1>1, <1>2, <1>3, <1>7, <1>9, <1>11, MovesKept DEF ResetSession, AInv, ClientsOK

LEMMA DeleteSessionKept ==
    ASSUME AInv, NEW k \in Calls, DeleteSession(k)
    PROVE  AInv'
<1>1. /\ ~Idle(k) /\ Locks(k) /\ Holds(k) /\ objects # <<>> /\ calls[k].phase = "operate"
      /\ calls[k].kind = "delete" /\ SessionOK
      /\ calls[k] \in CallRecords /\ CallOK(k) /\ calls \in [Calls -> CallRecords]
  BY AtRestIs DEF DeleteSession, AInv, CallsOK
<1>2. SessionOK'
  BY <1>1, RunsForgotten, SessionStays DEF DeleteSession, SessionOK
<1>3. RememberedOK'
  BY <1>1, RunsForgotten DEF DeleteSession, SessionOK, RememberedOK
<1>4. /\ calls' \in [Calls -> CallRecords] /\ Others(k)
      /\ calls'[k].phase = calls[k].phase /\ calls'[k].kind = calls[k].kind
      /\ calls'[k].request = calls[k].request /\ calls'[k].object = calls[k].object
      /\ calls'[k].at = "remove"
  BY <1>1 DEF DeleteSession, To, CallRecords, CallPhases, CallPlaces, Others
<1>5. Stands(k)'
  BY <1>1, <1>4 DEF Stands, Operating
<1>6. Len(objects') >= Len(objects) /\ calls'[k].object \in 0 .. Len(objects')
  BY <1>1, <1>4 DEF DeleteSession, SessionOK, CallOK
<1>7. Moves(k)
  BY <1>1, <1>4, <1>5, <1>6, StaysMoves DEF AInv, DeleteSession
<1> QED BY <1>1, <1>2, <1>3, <1>4, <1>6, <1>7, MovesKept DEF DeleteSession, AInv, ClientsOK

\* A file is written, or removed, and the call is answered.
LEMMA WrittenKept ==
    ASSUME AInv, NEW k \in Calls, Answered(k), calls[k].at \in {"save", "refresh", "remove"},
           file' \in {NoFile} \cup Transcript,
           UNCHANGED <<revision, memory, runs, sent>>
    PROVE  AInv'
<1>1. /\ ~Idle(k) /\ (Locks(k) => Holds(k)) /\ SessionOK
  BY NotIdle DEF AInv, QueueOK, WentOn
<1>2. Moves(k) /\ calls'[k] = NoCall /\ client' \in [Requests -> ClientRecords]
  BY <1>1, AnswerMoves DEF AInv, SessionOK, memory
<1>3. SessionOK' /\ RememberedOK' /\ Len(objects') >= Len(objects) /\ objects # <<>>
  BY <1>1, MetLater DEF SessionOK, memory, AInv, RememberedOK
<1> QED BY <1>1, <1>2, <1>3, MovesKept

LEMMA SaveKept ==
    ASSUME AInv, NEW k \in Calls, Save(k)
    PROVE  AInv'
<1>1. Answered(k) /\ file' \in {NoFile} \cup Transcript
  BY DEF Save, Answered, Outcomes, AInv, CallsOK, CallRecords, CallPhases, CallPlaces
<1> QED BY <1>1, WrittenKept DEF Save

LEMMA RemoveKept ==
    ASSUME AInv, NEW k \in Calls, Remove(k)
    PROVE  AInv'
<1>1. Answered(k)
  BY DEF Remove, Answered, Outcomes
<1> QED BY <1>1, WrittenKept DEF Remove

LEMMA FailWriteKept ==
    ASSUME AInv, NEW k \in Calls, FailWrite(k)
    PROVE  AInv'
<1>1. Answered(k)
  BY RefusedIsAnswered DEF FailWrite, AInv
<1> QED BY <1>1, WrittenKept DEF FailWrite, AInv, SessionOK

\* The calls stand where they are.
LEMMA StillKept ==
    ASSUME AInv, SessionOK', RememberedOK', UNCHANGED <<tail, calls, client, sent>>,
           Len(objects') = Len(objects), objects # <<>>
    PROVE  AInv'
<1>1. CallsOK'
  <2>1. Len(objects') \in Nat
    BY DEF AInv, SessionOK
  <2>2. ASSUME NEW k \in Calls
        PROVE  CallOK(k)'
    <3>1. calls'[k] = calls[k] /\ CallOK(k)
      BY DEF AInv, CallsOK
    <3>2. Stands(k)'
      BY <3>1 DEF CallOK, Stands, Operating, Idle
    <3> QED BY <3>1, <3>2 DEF CallOK
  <2> QED BY <2>2 DEF AInv, CallsOK
<1>2. ClientsOK' /\ QueueOK'
  BY DEF AInv, ClientsOK, QueueOK, Locks, InTail, WentOn, Holds
<1>3. FirstOK'
  BY DEF AInv, SessionOK, FirstOK
<1> QED BY <1>1, <1>2, <1>3 DEF AInv

\* Where the calls stand does not change with the rest of the session.
LEMMA CallsUntouched ==
    ASSUME AInv, calls' = calls, Len(objects') = Len(objects)
    PROVE  CallsOK'
<1>1. ASSUME NEW k \in Calls
      PROVE  CallOK(k)'
  <2>1. CallOK(k)
    BY DEF AInv, CallsOK
  <2>2. Stands(k)'
    BY <2>1 DEF CallOK, Stands, Operating, Idle
  <2>3. (calls[k].object \in 0 .. Len(objects))'
    BY <2>1 DEF CallOK
  <2>4. (calls[k].kind = "prompt" => calls[k].request \in Requests)'
    BY <2>1 DEF CallOK
  <2>5. (calls[k].at = "install" => calls[k].copy \in Transcript)'
    BY <2>1 DEF CallOK
  <2> QED BY <2>2, <2>3, <2>4, <2>5 DEF CallOK
<1>2. (calls \in [Calls -> CallRecords])'
  BY DEF AInv, CallsOK
<1> QED BY <1>1, <1>2 DEF CallsOK

\* Runs are of a session that was in memory.
LEMMA RunIsLate ==
    ASSUME AInv, NEW r \in DOMAIN runs
    PROVE  /\ objects # <<>> /\ r \in Nat /\ runs[r] \in RunRecords
           /\ runs[r].object \in DOMAIN objects
           /\ objects[runs[r].object] \in ObjectRecords
<1>1. runs # <<>> /\ r \in Nat /\ runs[r] \in RunRecords /\ runs[r].object \in DOMAIN objects
  BY DEF AInv, SessionOK
<1>2. objects[runs[r].object] \in ObjectRecords
  BY <1>1 DEF AInv, SessionOK
<1> QED BY <1>1, <1>2

LEMMA AnswerIs ==
    ASSUME AInv, NEW r \in DOMAIN runs, AgentAnswers(r)
    PROVE  /\ objects' \in Seq(ObjectRecords) /\ Len(objects') = Len(objects)
           /\ \A o \in DOMAIN objects :
                 /\ objects'[o].context = objects[o].context
                 /\ objects'[o].run = objects[o].run
                 /\ o # runs[r].object => objects'[o] = objects[o]
           /\ objects'[runs[r].object].messages = Append(objects[runs[r].object].messages, r)
           /\ runs' \in Seq(RunRecords) /\ Len(runs') = Len(runs) /\ DOMAIN runs' = DOMAIN runs
           /\ \A p \in DOMAIN runs : p # r => runs'[p] = runs[p]
           /\ runs'[r].object = runs[r].object /\ runs'[r].at = "saving"
           /\ runs'[r].request = runs[r].request /\ runs'[r].result = runs[r].result
           /\ runs'[r].cleared = runs[r].cleared /\ runs'[r].forgotten = runs[r].forgotten
           /\ runs'[r].copy.messages = Append(objects[runs[r].object].messages, r)
           /\ runs'[r].copy.context = objects[runs[r].object].context
           /\ runs'[r].copy = [messages |-> Append(objects[runs[r].object].messages, r),
                               context |-> objects[runs[r].object].context]
           /\ runs'[r].copy \in Transcript
<1>1. objects \in Seq(ObjectRecords) /\ runs \in Seq(RunRecords) /\ r \in Nat
  BY RunIsLate DEF AInv, SessionOK
<1>2. PICK o \in DOMAIN objects : o = runs[r].object
  BY RunIsLate
<1>3. PICK old_object \in ObjectRecords : old_object = objects[o]
  BY <1>1
<1>4. PICK messages \in Seq(Nat) : messages = Append(old_object.messages, r)
  <2>1. PICK former \in Seq(Nat) : former = old_object.messages
    BY DEF ObjectRecords
  <2>2. Append(former, r) \in Seq(Nat)
    BY <1>1
  <2> QED BY <2>1, <2>2
<1>5. PICK object \in ObjectRecords : object = [old_object EXCEPT !.messages = messages]
  BY DEF ObjectRecords
<1>6. objects' = [objects EXCEPT ![o] = object]
  BY <1>2, <1>3, <1>4, <1>5 DEF AgentAnswers
<1>7. /\ object.messages = messages
      /\ object.context = objects[o].context /\ object.run = objects[o].run
  BY <1>3, <1>5 DEF ObjectRecords
<1>8. PICK copy \in Transcript :
          copy = [messages |-> messages, context |-> old_object.context]
  BY DEF Transcript, ObjectRecords
<1>9. PICK old_run \in RunRecords : old_run = runs[r]
  BY <1>1
<1>10. PICK run \in RunRecords : run = [old_run EXCEPT !.at = "saving", !.copy = copy]
  BY DEF RunRecords
<1>11. runs' = [runs EXCEPT ![r] = run]
  BY <1>2, <1>3, <1>4, <1>8, <1>9, <1>10 DEF AgentAnswers
<1>12. /\ run.object = runs[r].object /\ run.at = "saving" /\ run.copy = copy
       /\ run.request = runs[r].request /\ run.result = runs[r].result
       /\ run.cleared = runs[r].cleared /\ run.forgotten = runs[r].forgotten
  BY <1>9, <1>10 DEF RunRecords
<1>13. /\ objects' \in Seq(ObjectRecords) /\ Len(objects') = Len(objects)
       /\ objects'[o] = object
       /\ \A p \in DOMAIN objects : p # o => objects'[p] = objects[p]
  BY <1>1, <1>6, ObjectChanged
<1>14. /\ runs' \in Seq(RunRecords) /\ Len(runs') = Len(runs) /\ DOMAIN runs' = DOMAIN runs
       /\ runs'[r] = run
       /\ \A p \in DOMAIN runs : p # r => runs'[p] = runs[p]
  BY <1>1, <1>11, RunChanged
<1>15. /\ old_object.messages = objects[o].messages
       /\ old_object.context = objects[o].context
  BY <1>3
<1>16. copy = [messages |-> Append(objects[o].messages, r), context |-> objects[o].context]
  BY <1>4, <1>8, <1>15
<1>17. copy.messages = Append(objects[o].messages, r) /\ copy.context = objects[o].context
  BY <1>16
<1>18. /\ \A p \in DOMAIN objects :
             /\ objects'[p].context = objects[p].context
             /\ objects'[p].run = objects[p].run
       /\ objects'[o].messages = Append(objects[o].messages, r)
  BY <1>4, <1>7, <1>13, <1>15
<1>19. /\ runs'[r].object = runs[r].object /\ runs'[r].at = "saving"
       /\ runs'[r].request = runs[r].request /\ runs'[r].result = runs[r].result
       /\ runs'[r].cleared = runs[r].cleared /\ runs'[r].forgotten = runs[r].forgotten
       /\ runs'[r].copy = copy
  BY <1>12, <1>14
<1>20. /\ \A p \in DOMAIN objects : p # runs[r].object => objects'[p] = objects[p]
       /\ objects'[runs[r].object].messages = Append(objects[runs[r].object].messages, r)
  BY <1>2, <1>13, <1>18
<1>21. /\ runs'[r].copy.messages = Append(objects[runs[r].object].messages, r)
       /\ runs'[r].copy.context = objects[runs[r].object].context
       /\ runs'[r].copy = [messages |-> Append(objects[runs[r].object].messages, r),
                           context |-> objects[runs[r].object].context]
       /\ runs'[r].copy \in Transcript
  BY <1>2, <1>8, <1>16, <1>17, <1>19
<1>22. \A p \in DOMAIN objects :
          /\ objects'[p].context = objects[p].context
          /\ objects'[p].run = objects[p].run
          /\ p # runs[r].object => objects'[p] = objects[p]
  BY <1>18, <1>20
<1>23. objects' \in Seq(ObjectRecords) /\ Len(objects') = Len(objects)
  BY <1>13
<1>24. /\ runs' \in Seq(RunRecords) /\ Len(runs') = Len(runs) /\ DOMAIN runs' = DOMAIN runs
       /\ \A p \in DOMAIN runs : p # r => runs'[p] = runs[p]
  BY <1>14
<1>25. /\ runs'[r].object = runs[r].object /\ runs'[r].at = "saving"
       /\ runs'[r].request = runs[r].request /\ runs'[r].result = runs[r].result
       /\ runs'[r].cleared = runs[r].cleared /\ runs'[r].forgotten = runs[r].forgotten
  BY <1>19
<1> QED BY <1>20, <1>21, <1>22, <1>23, <1>24, <1>25, Zenon

LEMMA AgentAnswersKept ==
    ASSUME AInv, NEW r \in DOMAIN runs, AgentAnswers(r)
    PROVE  AInv'
<1>1. SessionOK'
  <2>1. SessionOK /\ revision' \in Nat /\ active' \in {0, active}
    BY DEF AInv, SessionOK, AgentAnswers
  <2>2. /\ file' \in {NoFile} \cup Transcript /\ expired' \subseteq Requests
        /\ journal' \subseteq journal
    BY DEF AInv, SessionOK, AgentAnswers
  <2>3. \A p \in DOMAIN runs : runs'[p].object = runs[p].object
    BY AnswerIs
  <2>4. /\ objects' \in Seq(ObjectRecords) /\ Len(objects') = Len(objects)
        /\ runs' \in Seq(RunRecords) /\ Len(runs') = Len(runs)
        /\ \A o \in DOMAIN objects : objects'[o].run \in {0, objects[o].run}
    BY AnswerIs
  <2> QED BY <2>1, <2>2, <2>3, <2>4, SessionStays
<1>2. RememberedOK'
  <2>1. \A p \in DOMAIN runs : /\ runs'[p].cleared = runs[p].cleared
                              /\ runs'[p].forgotten = runs[p].forgotten
                              /\ runs'[p].request = runs[p].request
    BY AnswerIs
  <2>2. DOMAIN runs' = DOMAIN runs
    BY AnswerIs
  <2> QED BY <2>1, <2>2 DEF AInv, RememberedOK, AgentAnswers
<1> QED BY <1>1, <1>2, StillKept, RunIsLate, AnswerIs DEF AgentAnswers

LEMMA FailureIs ==
    ASSUME AInv, NEW r \in DOMAIN runs, RunFails(r)
    PROVE  /\ runs' \in Seq(RunRecords) /\ Len(runs') = Len(runs) /\ DOMAIN runs' = DOMAIN runs
           /\ \A p \in DOMAIN runs : p # r => runs'[p] = runs[p]
           /\ runs'[r].object = runs[r].object /\ runs'[r].at = "failing"
           /\ runs'[r].request = runs[r].request /\ runs'[r].result = runs[r].result
           /\ runs'[r].cleared = runs[r].cleared /\ runs'[r].forgotten = runs[r].forgotten
           /\ runs'[r].copy = CopyOf(runs[r].object)
           /\ CopyOf(runs[r].object) \in Transcript
<1>1. runs \in Seq(RunRecords) /\ objects[runs[r].object] \in ObjectRecords
  BY RunIsLate DEF AInv, SessionOK
<1>2. PICK copy \in Transcript : copy = CopyOf(runs[r].object)
  BY <1>1 DEF CopyOf, Transcript, ObjectRecords
<1>3. PICK old_run \in RunRecords : old_run = runs[r]
  BY <1>1
<1>4. PICK run \in RunRecords : run = [old_run EXCEPT !.at = "failing", !.copy = copy]
  BY DEF RunRecords
<1>5. runs' = [runs EXCEPT ![r] = run]
  BY <1>2, <1>3, <1>4 DEF RunFails
<1>6. /\ run.object = runs[r].object /\ run.at = "failing" /\ run.copy = copy
      /\ run.request = runs[r].request /\ run.result = runs[r].result
      /\ run.cleared = runs[r].cleared /\ run.forgotten = runs[r].forgotten
  BY <1>3, <1>4 DEF RunRecords
<1>7. /\ runs' \in Seq(RunRecords) /\ Len(runs') = Len(runs) /\ DOMAIN runs' = DOMAIN runs
      /\ runs'[r] = run
      /\ \A p \in DOMAIN runs : p # r => runs'[p] = runs[p]
  BY <1>1, <1>5, RunChanged
<1> QED BY <1>2, <1>6, <1>7

LEMMA RunFailsKept ==
    ASSUME AInv, NEW r \in DOMAIN runs, RunFails(r)
    PROVE  AInv'
<1>1. SessionOK' /\ Len(objects') = Len(objects)
  BY FailureIs, SessionStays DEF AInv, SessionOK, RunFails, memory
<1>2. RememberedOK'
  <2>1. \A p \in DOMAIN runs : /\ runs'[p].cleared = runs[p].cleared
                              /\ runs'[p].forgotten = runs[p].forgotten
                              /\ runs'[p].request = runs[p].request
    BY FailureIs
  <2>2. DOMAIN runs' = DOMAIN runs
    BY FailureIs
  <2> QED BY <2>1, <2>2 DEF AInv, RememberedOK, RunFails, memory
<1> QED BY <1>1, <1>2, StillKept, RunIsLate DEF RunFails

\* Ending, a run leaves its object, and the journal those that are too old.
LEMMA EndIs ==
    ASSUME AInv, NEW r \in DOMAIN runs,
           NEW result \in {"completed", "aborted", "failed"}, EndRun(r, result)
    PROVE  /\ objects' \in Seq(ObjectRecords) /\ Len(objects') = Len(objects)
           /\ \A o \in DOMAIN objects :
                 /\ objects'[o].context = objects[o].context
                 /\ objects'[o].messages = objects[o].messages
                 /\ o # runs[r].object => objects'[o] = objects[o]
           /\ objects'[runs[r].object].run
                 = IF objects[runs[r].object].run = r THEN 0 ELSE objects[runs[r].object].run
           /\ runs' \in Seq(RunRecords) /\ Len(runs') = Len(runs) /\ DOMAIN runs' = DOMAIN runs
           /\ \A p \in DOMAIN runs : p # r => runs'[p] = runs[p]
           /\ runs'[r].object = runs[r].object /\ runs'[r].at = "ended"
           /\ runs'[r].request = runs[r].request /\ runs'[r].result = result
           /\ runs'[r].cleared = runs[r].cleared /\ runs'[r].forgotten = runs[r].forgotten
           /\ runs'[r].copy = NoFile
<1>1. /\ objects \in Seq(ObjectRecords) /\ runs \in Seq(RunRecords) /\ r \in Nat
      /\ Len(runs) \in Nat
  BY RunIsLate DEF AInv, SessionOK
<1>2. PICK o \in DOMAIN objects : o = runs[r].object
  BY RunIsLate
<1>3. PICK old_object \in ObjectRecords : old_object = objects[o]
  BY <1>1
<1>4. PICK n \in Nat : n = IF old_object.run = r THEN 0 ELSE old_object.run
  BY DEF ObjectRecords
<1>5. PICK object \in ObjectRecords : object = [old_object EXCEPT !.run = n]
  BY DEF ObjectRecords
<1>6. objects' = [objects EXCEPT ![o] = object]
  BY <1>2, <1>3, <1>4, <1>5 DEF EndRun
<1>7. object.messages = objects[o].messages /\ object.context = objects[o].context
      /\ object.run = n
  BY <1>3, <1>5 DEF ObjectRecords
<1>8. PICK old_run \in RunRecords : old_run = runs[r]
  BY <1>1
<1>9. PICK run \in RunRecords :
          run = [old_run EXCEPT !.at = "ended", !.result = result, !.copy = NoFile]
  BY DEF RunRecords
<1>10. runs' = [runs EXCEPT ![r] = run]
  BY <1>8, <1>9 DEF EndRun
<1>11. /\ run.object = runs[r].object /\ run.at = "ended" /\ run.copy = NoFile
       /\ run.request = runs[r].request /\ run.result = result
       /\ run.cleared = runs[r].cleared /\ run.forgotten = runs[r].forgotten
  BY <1>8, <1>9 DEF RunRecords
<1>12. /\ objects' \in Seq(ObjectRecords) /\ Len(objects') = Len(objects)
       /\ objects'[o] = object
       /\ \A p \in DOMAIN objects : p # o => objects'[p] = objects[p]
  BY <1>1, <1>6, ObjectChanged
<1>13. /\ runs' \in Seq(RunRecords) /\ Len(runs') = Len(runs) /\ DOMAIN runs' = DOMAIN runs
       /\ runs'[r] = run
       /\ \A p \in DOMAIN runs : p # r => runs'[p] = runs[p]
  BY <1>1, <1>10, RunChanged
<1> QED BY <1>2, <1>3, <1>4, <1>7, <1>11, <1>12, <1>13

LEMMA EndRunKept ==
    ASSUME AInv, NEW r \in DOMAIN runs,
           NEW result \in {"completed", "aborted", "failed"}, EndRun(r, result),
           file' \in {NoFile} \cup Transcript
    PROVE  AInv'
<1>1. Dropped(r) \subseteq journal
  BY DEF Dropped
<1>2. expired' \subseteq Requests /\ journal' \subseteq journal
  <2>1. \A p \in journal : runs[p].request \in Requests
    BY RunIsLate DEF AInv, SessionOK, RunRecords
  <2> QED BY <1>1, <2>1 DEF EndRun, Expired, AInv, SessionOK
<1>3. \A o \in DOMAIN objects : objects'[o].run \in {0, objects[o].run}
  BY EndIs
<1>4. SessionOK'
  <2>1. SessionOK /\ revision' \in Nat /\ active' \in {0, active}
    BY DEF AInv, SessionOK, EndRun
  <2>2. \A p \in DOMAIN runs : runs'[p].object = runs[p].object
    BY EndIs
  <2>3. /\ objects' \in Seq(ObjectRecords) /\ Len(objects') = Len(objects)
        /\ runs' \in Seq(RunRecords) /\ Len(runs') = Len(runs)
    BY EndIs
  <2> QED BY <1>2, <1>3, <2>1, <2>2, <2>3, SessionStays
<1>5. RememberedOK'
  <2>1. ASSUME NEW p \in DOMAIN runs
        PROVE  /\ runs'[p].cleared = runs[p].cleared
               /\ runs'[p].forgotten = runs[p].forgotten
               /\ runs'[p].request = runs[p].request
    BY EndIs
  <2>2. ASSUME NEW p \in journal, p \notin journal'
        PROVE  runs[p].request \in expired'
    BY <2>2 DEF EndRun, Expired
  <2>3. DOMAIN runs' = DOMAIN runs /\ expired \subseteq expired'
    BY EndIs DEF EndRun
  <2> QED BY <2>1, <2>2, <2>3 DEF RememberedOK, AInv
<1> QED BY <1>4, <1>5, StillKept, RunIsLate, EndIs DEF EndRun

LEMMA CompleteRunKept ==
    ASSUME AInv, NEW r \in DOMAIN runs, CompleteRun(r)
    PROVE  AInv'
<1>1. PICK result \in {"completed", "aborted", "failed"} :
         result = IF runs[r].cancelled THEN "aborted" ELSE "completed"
  OBVIOUS
<1>2. EndRun(r, result)
  BY <1>1 DEF CompleteRun
<1>3. file' \in {NoFile} \cup Transcript
  BY RunIsLate DEF CompleteRun, RunRecords
<1> QED BY <1>2, <1>3, EndRunKept

LEMMA FailRunKept ==
    ASSUME AInv, NEW r \in DOMAIN runs, FailRun(r)
    PROVE  AInv'
<1>1. file' \in {NoFile} \cup Transcript
  BY RunIsLate DEF FailRun, RunRecords, AInv, SessionOK
<1> QED BY <1>1, EndRunKept DEF FailRun

\* A call that arrives was idle, and knows the session unless it looks for it.
LEMMA ArriveKept ==
    ASSUME AInv, NEW k \in Calls, NEW kind \in Asked, NEW q \in Requests \cup {Nobody},
           NEW r \in Nat, kind = "prompt" => q \in Requests,
           Arrive(k, kind, q, r), client' \in [Requests -> ClientRecords]
    PROVE  AInv'
<1>1. /\ calls \in [Calls -> CallRecords] /\ calls[k] = NoCall /\ SessionOK /\ QueueOK
      /\ UNCHANGED <<revision, file, active, objects, runs, journal, expired>>
  BY DEF Arrive, Idle, AInv, CallsOK, memory
<1>2. PICK context \in Nat : context = revision
  BY <1>1 DEF SessionOK
<1>3. PICK phase \in {"look", "authorize"} : phase = IF kind = "list" THEN "look" ELSE "authorize"
  OBVIOUS
<1>4. PICK call \in CallRecords :
         call = [NoCall EXCEPT !.kind = kind, !.request = q, !.run = r, !.context = context,
                               !.phase = phase, !.at = "seek"]
  BY DEF CallRecords, CallPhases, CallPlaces, NoCall
<1>5. /\ call.kind = kind /\ call.request = q /\ call.phase = phase /\ call.at = "seek"
      /\ call.object = 0
  BY <1>4 DEF NoCall
<1>6. calls' = [calls EXCEPT ![k] = call]
  BY <1>2, <1>3, <1>4 DEF Arrive
<1>7. calls' \in [Calls -> CallRecords] /\ Others(k) /\ calls'[k] = call
  BY <1>1, <1>6 DEF Others
<1>8. CallOK(k)'
  <2>1. Stands(k)'
    BY <1>3, <1>5, <1>7 DEF Stands
  <2>2. 0 \in 0 .. Len(objects')
    BY <1>1 DEF SessionOK
  <2> QED BY <1>5, <1>7, <2>1, <2>2 DEF CallOK
<1>9. Queued(k)
  <2>1. ~Locks(k)
    BY <1>1, NoCallIs DEF Locks
  <2>2. CASE kind = "list"
    <3>1. tail' = tail /\ ~Locks(k)'
      BY <1>3, <1>5, <1>7, <2>2 DEF Arrive, Locks
    <3> QED BY <2>1, <3>1 DEF Queued, Locks
  <2>3. CASE kind # "list"
    BY <1>3, <1>5, <1>7, <2>1, <2>3 DEF Arrive, Locks, Queued, WentOn
  <2> QED BY <2>2, <2>3
<1>10. Moves(k)
  BY <1>7, <1>8, <1>9 DEF Moves
<1>11. CallsOK' /\ QueueOK'
  <2>1. Len(objects') >= Len(objects)
    BY <1>1 DEF SessionOK
  <2> QED BY <1>1, <1>7, <1>9, <1>10, <2>1, CallsKept, QueueKept DEF AInv, SessionOK
<1>12. SessionOK' /\ RememberedOK' /\ ClientsOK'
  BY <1>1 DEF SessionOK, RememberedOK, ClientsOK, AInv, Arrive
<1>13. FirstOK'
  <2> SUFFICES ASSUME objects = <<>>, NEW j \in Calls
               PROVE  Unmet(j)'
    BY <1>1 DEF FirstOK
  <2>1. CASE j # k
    BY <1>1, <1>7, <2>1 DEF AInv, FirstOK, Unmet, Looking, IsAt, Idle, Others
  <2>2. CASE j = k
    <3>1. kind = "list" \/ file # NoFile
      BY DEF Arrive, Known
    <3> QED BY <1>1, <1>3, <1>5, <1>7, <2>2, <3>1 DEF Unmet, Looking, IsAt
  <2> QED BY <2>1, <2>2
<1> QED BY <1>11, <1>12, <1>13 DEF AInv

LEMMA BrowsersKept ==
    ASSUME AInv, NEW q \in Requests, NEW k \in Calls,
           PostPrompt(q, k) \/ WatchRun(q, k) \/ CancelRun(q, k)
    PROVE  AInv'
<1>1. client \in [Requests -> ClientRecords]
  BY DEF AInv, ClientsOK
<1>2. PICK r \in Nat : r = client[q].run
  BY <1>1 DEF ClientRecords
<1>3. CASE PostPrompt(q, k)
  <2>1. client' \in [Requests -> ClientRecords]
    BY <1>1, <1>3 DEF PostPrompt, ClientRecords
  <2> QED BY <1>3, <2>1, ArriveKept DEF PostPrompt, Asked
<1>4. CASE WatchRun(q, k)
  <2>1. client' \in [Requests -> ClientRecords]
    BY <1>1, <1>4 DEF WatchRun, ClientRecords
  <2>2. Arrive(k, "events", q, r)
    BY <1>2, <1>4 DEF WatchRun
  <2> QED BY <2>1, <2>2, ArriveKept DEF Asked
<1>5. CASE CancelRun(q, k)
  <2>1. Arrive(k, "abort", q, r)
    BY <1>2, <1>5 DEF CancelRun
  <2> QED BY <1>1, <1>5, <2>1, ArriveKept DEF Asked, CancelRun
<1> QED BY <1>3, <1>4, <1>5

LEMMA AskForKept ==
    ASSUME AInv, NEW kind \in {"list", "get", "reset", "delete"}, NEW k \in Calls,
           AskFor(kind, k)
    PROVE  AInv'
  BY ArriveKept DEF AskFor, Asked, AInv, ClientsOK

LEMMA LoseAnswerKept ==
    ASSUME AInv, NEW q \in Requests, LoseAnswer(q)
    PROVE  AInv'
<1>1. client' \in [Requests -> ClientRecords]
  <2>1. client \in [Requests -> ClientRecords]
    BY DEF AInv, ClientsOK
  <2>2. PICK browser \in ClientRecords : browser = client[q]
    BY <2>1
  <2>3. PICK at \in {"new", "posted", "unsure"} \cup Outcomes :
            at = IF browser.at = "posted" THEN "unsure" ELSE browser.at
    BY DEF ClientRecords
  <2>4. client' = [client EXCEPT ![q] = [browser EXCEPT !.awaits = Nobody, !.at = at]]
    BY <2>1, <2>2, <2>3 DEF LoseAnswer, ClientRecords
  <2> QED BY <2>1, <2>4 DEF ClientRecords
<1>2. SessionOK' /\ RememberedOK' /\ FirstOK' /\ ClientsOK'
  BY <1>1 DEF LoseAnswer, memory, AInv, SessionOK, RememberedOK, FirstOK, Unmet, Looking, IsAt, Idle,
     ClientsOK
<1>3. CallsOK' /\ QueueOK'
  <2>1. CallsOK'
    BY CallsUntouched DEF LoseAnswer, memory
  <2> QED BY <2>1 DEF LoseAnswer, AInv, QueueOK, Locks, InTail, WentOn, Holds
<1> QED BY <1>2, <1>3 DEF AInv

LEMMA TaskChangesKept ==
    ASSUME AInv, TaskChanges
    PROVE  AInv'
<1>1. SessionOK' /\ RememberedOK' /\ FirstOK' /\ ClientsOK'
  BY DEF TaskChanges, memory, AInv, SessionOK, RememberedOK, FirstOK, Unmet, Looking, IsAt, Idle,
     ClientsOK
<1>2. CallsOK' /\ QueueOK'
  <2>1. CallsOK'
    BY CallsUntouched DEF TaskChanges, memory
  <2> QED BY <2>1 DEF TaskChanges, AInv, QueueOK, Locks, InTail, WentOn, Holds
<1> QED BY <1>1, <1>2 DEF AInv

\* Nobody has found the session when it is made.
LEMMA CreateSessionKept ==
    ASSUME AInv, NEW k \in Calls, CreateSession(k)
    PROVE  AInv'
<1>1. /\ objects = <<>> /\ file = NoFile /\ SessionOK /\ CallsOK
      /\ revision \in Nat /\ calls[k] = NoCall
  BY DEF CreateSession, AInv, SessionOK, Idle
<1>2. runs = <<>> /\ journal = {}
  <2>1. DOMAIN objects = {} /\ runs \in Seq(RunRecords) /\ journal \subseteq DOMAIN runs
    BY <1>1 DEF SessionOK
  <2>2. DOMAIN runs = {}
    BY <1>1, <2>1 DEF SessionOK
  <2> QED BY <2>1, <2>2
<1>3. PICK copy \in Transcript : copy = [messages |-> <<>>, context |-> revision]
  BY <1>1, EmptyIsSeq DEF Transcript
<1>4. PICK call \in CallRecords :
         call = [NoCall EXCEPT !.kind = "create", !.phase = "operate", !.at = "save", !.copy = copy]
  BY NoCallIs DEF CallRecords, CallPhases, CallPlaces
<1>5. call.kind = "create" /\ call.phase = "operate" /\ call.at = "save" /\ call.object = 0
  BY <1>4, NoCallIs DEF NoCall
<1>6. calls' = [calls EXCEPT ![k] = call]
  BY <1>3, <1>4 DEF CreateSession
<1>7. calls' \in [Calls -> CallRecords] /\ calls'[k] = call /\ Others(k)
  BY <1>1, <1>6 DEF CallsOK, Others
<1>8. PICK object \in ObjectRecords :
         object.run = 0 /\ object = [messages |-> <<>>, context |-> revision, run |-> 0]
  BY <1>1, EmptyIsSeq DEF ObjectRecords
<1>9. /\ objects' = <<object>> /\ objects' \in Seq(ObjectRecords) /\ Len(objects') = 1
      /\ DOMAIN objects' = {1} /\ objects'[1] = object
  BY <1>8 DEF CreateSession
<1>10. SessionOK'
  <2>1. runs' = <<>> /\ runs' \in Seq(RunRecords) /\ Len(runs') = 0 /\ DOMAIN runs' = {}
    BY <1>2 DEF CreateSession
  <2>2. \A o \in DOMAIN objects' : objects'[o].run \in 0 .. Len(runs')
    BY <1>8, <1>9, <2>1
  <2>3. active' \in 0 .. Len(objects')
    BY <1>9 DEF CreateSession
  <2> QED BY <1>1, <1>2, <1>9, <2>1, <2>2, <2>3 DEF CreateSession, SessionOK
<1>11. Moves(k)
  <2>1. 0 \in 0 .. Len(objects')
    BY <1>9
  <2>2. CallOK(k)'
    BY <1>5, <1>7, <2>1 DEF CallOK, Stands, Operating
  <2>3. ~Locks(k) /\ ~Locks(k)' /\ tail' = tail
    BY <1>1, <1>5, <1>7, NoCallIs DEF CreateSession, Locks
  <2> QED BY <1>7, <2>2, <2>3 DEF Moves, Queued, Locks
<1>12. RememberedOK' /\ client' \in [Requests -> ClientRecords] /\ sent' = sent
  BY DEF CreateSession, AInv, ClientsOK, RememberedOK
<1>13. Len(objects') >= Len(objects) /\ objects' # <<>>
  BY <1>1, <1>9
<1> QED BY <1>10, <1>11, <1>12, <1>13, MovesKept

LEMMA RestartIs ==
    ASSUME SessionOK, Restart
    PROVE  /\ runs' \in Seq(RunRecords) /\ Len(runs') = Len(runs)
           /\ DOMAIN runs' = DOMAIN runs
           /\ \A r \in DOMAIN runs :
                 /\ runs'[r].object = runs[r].object /\ runs'[r].at \in {"ended", "gone"}
                 /\ runs'[r].result = runs[r].result /\ runs'[r].cleared = runs[r].cleared
                 /\ runs'[r].request = runs[r].request /\ runs'[r].forgotten = TRUE
<1>1. Len(runs) \in Nat /\ DOMAIN runs = 1 .. Len(runs)
      /\ runs \in [1 .. Len(runs) -> RunRecords]
  BY DEF SessionOK
<1>2. ASSUME NEW r \in DOMAIN runs
      PROVE  /\ runs'[r] \in RunRecords
             /\ runs'[r].object = runs[r].object /\ runs'[r].at \in {"ended", "gone"}
             /\ runs'[r].result = runs[r].result /\ runs'[r].cleared = runs[r].cleared
             /\ runs'[r].request = runs[r].request /\ runs'[r].forgotten = TRUE
  <2>1. PICK run \in RunRecords : run = runs[r]
    BY <1>1, <1>2
  <2>2. PICK at \in {"ended", "gone"} : at = IF Working(r) THEN "gone" ELSE run.at
    BY <2>1 DEF Working, RunRecords
  <2>3. runs'[r] = [run EXCEPT !.forgotten = TRUE, !.copy = NoFile, !.at = at]
    BY <1>2, <2>1, <2>2 DEF Restart, RunRecords
  <2> QED BY <2>1, <2>2, <2>3 DEF RunRecords
<1>3. runs' \in [1 .. Len(runs) -> RunRecords]
  BY <1>1, <1>2 DEF Restart
<1>4. runs' \in Seq(RunRecords) /\ DOMAIN runs' = 1 .. Len(runs)
  BY <1>1, <1>3
<1>5. Len(runs') = Len(runs)
  BY <1>1, <1>4
<1> QED BY <1>1, <1>2, <1>4, <1>5

LEMMA RestartKept ==
    ASSUME AInv, Restart
    PROVE  AInv'
<1>1. SessionOK' /\ RememberedOK'
  <2>1. SessionOK'
    BY RestartIs, SessionStays DEF AInv, SessionOK, Restart
  <2> QED BY <2>1, RestartIs DEF AInv, RememberedOK
<1>2. calls' \in [Calls -> CallRecords] /\ \A k \in Calls : calls'[k] = NoCall
  BY NoCallIs DEF Restart
<1>3. CallsOK'
  <2>1. 0 \in 0 .. Len(objects')
    BY <1>1 DEF SessionOK
  <2>2. ASSUME NEW k \in Calls
        PROVE  CallOK(k)'
    BY <1>2, <2>1, NoCallIs DEF CallOK, Stands, Idle
  <2> QED BY <1>2, <2>2 DEF CallsOK
<1>4. QueueOK'
  <2>1. tail' = <<>>
    BY DEF Restart
  <2>2. tail' \in Seq(Calls) /\ DOMAIN tail' = {}
    BY <2>1
  <2>3. \A k \in Calls : ~Locks(k)'
    BY <1>2, NoCallIs DEF Locks
  <2> QED BY <2>2, <2>3 DEF QueueOK, InTail
<1>5. client' \in [Requests -> ClientRecords]
  <2>1. ASSUME NEW q \in Requests
        PROVE  client'[q] \in ClientRecords
    <3>1. PICK browser \in ClientRecords : browser = client[q]
      BY DEF AInv, ClientsOK
    <3>2. PICK at \in {"new", "posted", "unsure"} \cup Outcomes :
              at = IF browser.at = "posted" THEN "unsure" ELSE browser.at
      BY DEF ClientRecords
    <3>3. client'[q] = [browser EXCEPT !.awaits = Nobody, !.at = at]
      BY <3>1, <3>2 DEF Restart, ClientRecords
    <3> QED BY <3>3 DEF ClientRecords
  <2> QED BY <2>1 DEF Restart
<1>6. FirstOK' /\ ClientsOK'
  BY <1>2, <1>5 DEF FirstOK, Unmet, Idle, ClientsOK, AInv, Restart
<1> QED BY <1>1, <1>3, <1>4, <1>6 DEF AInv

LEMMA InitIsSound == AgentInit => AInv
<1> SUFFICES ASSUME AgentInit PROVE AInv
  OBVIOUS
<1>1. SessionOK
  <2>1. [messages |-> <<>>, context |-> 1] \in Transcript
    BY EmptyIsSeq DEF Transcript
  <2>2. file \in {NoFile} \cup Transcript
    BY <2>1 DEF AgentInit
  <2>3. /\ objects \in Seq(ObjectRecords) /\ Len(objects) = 0 /\ DOMAIN objects = {}
        /\ runs \in Seq(RunRecords) /\ Len(runs) = 0 /\ DOMAIN runs = {}
    BY DEF AgentInit
  <2> QED BY <2>2, <2>3 DEF AgentInit, SessionOK
<1>2. calls \in [Calls -> CallRecords] /\ \A k \in Calls : calls[k] = NoCall
  BY NoCallIs DEF AgentInit
<1>3. CallsOK
  <2>1. 0 \in 0 .. Len(objects)
    BY <1>1 DEF SessionOK
  <2> QED BY <1>2, <2>1, NoCallIs DEF CallsOK, CallOK, Stands, Idle
<1>4. QueueOK
  <2>1. tail \in Seq(Calls) /\ DOMAIN tail = {}
    BY DEF AgentInit
  <2>2. \A k \in Calls : ~Locks(k)
    BY <1>2, NoCallIs DEF Locks
  <2> QED BY <2>1, <2>2 DEF QueueOK, InTail
<1>5. FirstOK /\ RememberedOK
  <2>1. runs = <<>> /\ DOMAIN runs = {}
    BY DEF AgentInit
  <2> QED BY <1>2, <2>1 DEF FirstOK, Unmet, Idle, RememberedOK
<1>6. ClientsOK
  BY DEF AgentInit, ClientsOK, ClientRecords
<1> QED BY <1>1, <1>3, <1>4, <1>5, <1>6 DEF AInv

LEMMA AInvKept ==
    ASSUME AInv, [AgentNext]_agentVars
    PROVE  AInv'
<1>1. ASSUME NEW k \in Calls, CallStep(k) \/ FailWrite(k)
      PROVE  AInv'
  BY <1>1, LoadKept, InstallKept, AuthorizeKept, RefreshKept, InstallRefreshedKept,
     ContinueKept, ListSessionKept, GetSessionKept, ReplayRunKept, RefusePromptKept,
     StartPromptRunKept, ObserveRunKept, SendOutcomeKept, LookUpRunKept, AbortRunKept,
     InterruptKept, ResetSessionKept, DeleteSessionKept, SaveKept, RemoveKept, FailWriteKept
     DEF CallStep
<1>2. ASSUME NEW r \in DOMAIN runs, RunStep(r) \/ RunFails(r)
      PROVE  AInv'
  BY <1>2, AgentAnswersKept, CompleteRunKept, FailRunKept, RunFailsKept DEF RunStep
<1>3. CASE Browse
  BY <1>3, BrowsersKept, AskForKept, CreateSessionKept DEF Browse
<1>4. CASE UNCHANGED agentVars
  <2>1. SessionOK' /\ RememberedOK' /\ FirstOK' /\ ClientsOK'
    BY <1>4 DEF agentVars, memory, AInv, SessionOK, RememberedOK, FirstOK, Unmet, Looking, IsAt, Idle,
     ClientsOK
  <2>2. CallsOK'
    BY <1>4, CallsUntouched DEF agentVars, memory
  <2>3. CallsOK' /\ QueueOK'
    BY <1>4, <2>2 DEF agentVars, AInv, QueueOK, Locks, InTail, WentOn, Holds
  <2> QED BY <2>1, <2>3 DEF AInv
<1> QED BY <1>1, <1>2, <1>3, <1>4, LoseAnswerKept, TaskChangesKept, RestartKept DEF AgentNext

LEMMA AgentSound == AgentSpec => []AInv
<1>1. AInv /\ [AgentNext]_agentVars => AInv'
  BY AInvKept
<1> QED BY <1>1, InitIsSound, PTL DEF AgentSpec

-----------------------------------------------------------------------------
(* As long as no load is overtaken and no creation listed half way *)

NothingRuns == \A r \in DOMAIN runs : ~Working(r)

Lasting(r) == runs[r].result \in {"completed", "aborted"} /\ ~runs[r].cleared

\* The messages have what has been answered.
KeepsAll(messages) == \A r \in DOMAIN runs : Lasting(r) => Contains(messages, r)

\* Whoever was authorized with the context finds one that is not older.
Covers(context) ==
    /\ active # 0 => objects[active].context >= context
    /\ active = 0 /\ file # NoFile => file.context >= context

\* A run at work is that of the active object, and the only one.
RunsFit ==
    /\ \A r \in DOMAIN runs : Working(r) =>
          active # 0 /\ runs[r].object = active /\ objects[active].run = r
    /\ active # 0 /\ objects[active].run # 0 =>
          objects[active].run \in DOMAIN runs /\ Working(objects[active].run)

\* Memory, file and what will be written have what was answered.
TranscriptsFit ==
    /\ active # 0 => KeepsAll(objects[active].messages)
    /\ file # NoFile => KeepsAll(file.messages)
    /\ file # NoFile /\ active # 0 => file.context = objects[active].context
    /\ \A r \in DOMAIN runs : runs[r].at \in {"saving", "failing"} =>
          runs[r].copy = CopyOf(active)
    /\ \A r \in DOMAIN runs : runs[r].at = "saving" =>
          Contains(objects[active].messages, r)

\* A call on its way to the file
LoadFits(k) ==
    /\ calls[k].at = "remove" => active = 0
    /\ calls[k].at = "install" => calls[k].copy # NoFile /\ calls[k].object = 0
    /\ calls[k].at \in {"refresh", "save"} => active # 0
    /\ Locks(k) /\ calls[k].object # 0 /\ calls[k].at \notin {"refresh", "remove"} =>
          calls[k].object = active

WorkFits(k) ==
    /\ calls[k].at \in {"refresh", "save", "remove"} => NothingRuns
    /\ Locks(k) /\ calls[k].at \in {"abort", "wait"} =>
          /\ calls[k].object # 0
          /\ \A r \in DOMAIN runs : Working(r) => r = calls[k].run

CopyFits(k) ==
    /\ calls[k].at = "refresh" =>
          /\ calls[k].object # 0
          /\ objects[calls[k].object].run = 0
          /\ calls[k].copy = CopyOf(calls[k].object)
          /\ KeepsAll(calls[k].copy.messages)
          /\ calls[k].copy.context = calls[k].context
          /\ calls[k].context > objects[active].context
    /\ calls[k].at = "save" =>
          calls[k].copy = CopyOf(active) /\ KeepsAll(calls[k].copy.messages)

CallFits(k) ==
    /\ LoadFits(k) /\ WorkFits(k) /\ CopyFits(k)
    /\ calls[k].phase \in {"between", "operate"} => Covers(calls[k].context)

\* While the session is written for the first time, the others look for it at most.
MakingFits ==
    \A k \in Calls : calls[k].kind = "create" =>
        /\ active # 0 /\ file = NoFile
        /\ \A j \in Calls \ {k} : Idle(j) \/ Looking(j)

BInv == RunsFit /\ TranscriptsFit /\ MakingFits /\ \A k \in Calls : CallFits(k)

-----------------------------------------------------------------------------
LEMMA IdleFits ==
    ASSUME NEW k \in Calls, calls'[k] = NoCall
    PROVE  CallFits(k)'
  BY NoCallIs DEF CallFits, LoadFits, WorkFits, CopyFits, Locks

\* What a call does that is neither the one that makes the session nor one that
\* looks for it, is done when the session has been made.
LEMMA MakingKept ==
    ASSUME BInv, NEW k \in Calls, Others(k), calls'[k].kind \in {"none", calls[k].kind},
           Creating' => UNCHANGED <<file, active>>,
           Creating' => calls'[k].kind = "create" \/ Idle(k)' \/ Looking(k)'
    PROVE  MakingFits'
<1> SUFFICES ASSUME NEW c \in Calls, calls'[c].kind = "create"
             PROVE  /\ active' # 0 /\ file' = NoFile
                    /\ \A j \in Calls \ {c} : Idle(j)' \/ Looking(j)'
  BY DEF MakingFits
<1>1. calls[c].kind = "create" /\ Creating'
  BY DEF Others, Creating
<1>2. /\ active' # 0 /\ file' = NoFile
      /\ \A j \in Calls \ {c} : Idle(j) \/ Looking(j)
  BY <1>1 DEF BInv, MakingFits
<1>3. ASSUME NEW j \in Calls \ {c}
      PROVE  Idle(j)' \/ Looking(j)'
  <2>1. CASE j = k
    <3>1. calls[k].kind # "create"
      BY <1>2, <2>1, NoCallIs DEF BInv, MakingFits, Idle, Looking, IsAt
    <3> QED BY <1>1, <2>1, <3>1
  <2>2. CASE j # k
    BY <1>2, <2>2 DEF Others, Idle, Looking, IsAt
  <2> QED BY <2>1, <2>2
<1> QED BY <1>2, <1>3

LEMMA NobodyMakes ==
    ASSUME BInv, NEW k \in Calls, ~Idle(k), ~Looking(k), calls[k].kind # "create"
    PROVE  ~Creating
  BY DEF BInv, MakingFits, Creating

\* A session that stays as it is fits the call that moves as the others.
LEMMA QuietFits ==
    ASSUME BInv, NEW k \in Calls, Others(k), UNCHANGED <<file, memory, runs>>,
           CallFits(k)', MakingFits'
    PROVE  BInv'
<1>1. RunsFit' /\ TranscriptsFit'
  BY DEF memory, BInv, RunsFit, TranscriptsFit, Working, KeepsAll, Lasting, CopyOf, Contains
<1>2. ASSUME NEW j \in Calls \ {k}
      PROVE  CallFits(j)'
  <2>1. calls'[j] = calls[j] /\ CallFits(j)
    BY DEF Others, BInv
  <2>2. LoadFits(j)' /\ WorkFits(j)'
    BY <2>1 DEF CallFits, LoadFits, WorkFits, Locks, NothingRuns, Working, memory
  <2>3. CopyFits(j)'
    BY <2>1 DEF CallFits, CopyFits, KeepsAll, Lasting, Contains, CopyOf, memory
  <2> QED BY <2>1, <2>2, <2>3 DEF CallFits, Covers, memory
<1> QED BY <1>1, <1>2 DEF BInv

\* It fits a call that has met it, and stays the same.
LEMMA MetFits ==
    ASSUME BInv, NEW k \in Calls, Others(k), ~Idle(k), ~Looking(k),
           calls[k].kind # "create", calls'[k].kind \in {"none", calls[k].kind}
    PROVE  MakingFits'
<1>1. ~Creating'
  BY NobodyMakes DEF Creating, Others
<1> QED BY <1>1, MakingKept

LEMMA QuietAnswerFits ==
    ASSUME AInv, BInv, NEW k \in Calls, Answered(k), UNCHANGED <<file, memory, runs>>
    PROVE  BInv'
<1>1. calls'[k] = NoCall /\ Others(k)
  BY NoCallIs DEF Answered, Answer, Others, AInv, CallsOK
<1>2. MakingFits'
  BY <1>1, MakingKept, NoCallIs DEF Idle, memory
<1> QED BY <1>1, <1>2, IdleFits, QuietFits

\* Who needs the lock has met the session, or knows that there is one.
LEMMA LockersMeet ==
    ASSUME AInv, NEW k \in Calls, Locks(k)
    PROVE  ~Idle(k) /\ ~Looking(k) /\ calls[k].kind # "create"
<1>1. ~Idle(k) /\ CallOK(k)
  BY NotIdle DEF Locks, AInv, CallsOK
<1> QED BY <1>1 DEF Locks, Looking, IsAt, CallOK, Stands, Asked

\* Who holds the lock keeps the others that need it where they are.
LEMMA OthersRest ==
    ASSUME AInv, BInv, NEW k \in Calls, Locks(k), Holds(k), NEW j \in Calls \ {k}
    PROVE  /\ calls[j].at \notin {"refresh", "save", "remove", "wait"}
           /\ Locks(j) => calls[j].at = "seek" /\ calls[j].object = 0
<1>1. Locks(j) => calls[j].at = "seek" /\ calls[j].object = 0
  BY DEF AInv, QueueOK, Holds, WentOn
<1>2. calls[j].kind # "create"
  BY LockersMeet, NobodyMakes DEF Creating
<1>3. CallOK(j)
  BY DEF AInv, CallsOK
<1>4. calls[j].at \in {"refresh", "save", "remove", "wait"} => Locks(j)
  BY <1>2, <1>3, NoCallIs DEF CallOK, Stands, Operating, Idle, Locks
<1> QED BY <1>1, <1>4

\* A call that is not on its way to the file fits any session that has come to
\* a context as new.
LEMMA OthersFit ==
    ASSUME AInv, BInv, NEW j \in Calls, calls'[j] = calls[j],
           calls[j].at \notin {"refresh", "save", "remove"},
           Locks(j) /\ calls[j].object # 0 => active' = active,
           Locks(j) /\ calls[j].at \in {"abort", "wait"} =>
               \A r \in DOMAIN runs' : Working(r)' => r \in DOMAIN runs /\ Working(r),
           \A c \in Nat : Covers(c) => Covers(c)'
    PROVE  CallFits(j)'
<1>1. CallFits(j) /\ calls[j].context \in Nat
  BY DEF BInv, AInv, CallsOK, CallRecords, CallPhases, CallPlaces
<1>2. Locks(j)' <=> Locks(j)
  BY DEF Locks
<1>3. LoadFits(j)'
  BY <1>1, <1>2 DEF CallFits, LoadFits
<1>4. WorkFits(j)'
  BY <1>1, <1>2 DEF CallFits, WorkFits
<1>5. CopyFits(j)'
  BY DEF CopyFits
<1>6. calls'[j].phase \in {"between", "operate"} => Covers(calls[j].context)'
  <2>1. PICK c \in Nat : c = calls[j].context
    BY <1>1
  <2>2. calls[j].phase \in {"between", "operate"} => Covers(c)
    BY <1>1, <2>1 DEF CallFits, Covers
  <2>3. Covers(c)' => Covers(calls[j].context)'
    BY <2>1 DEF Covers
  <2> QED BY <2>2, <2>3
<1> QED BY <1>3, <1>4, <1>5, <1>6 DEF CallFits

LEMMA LoadBInv ==
    ASSUME AInv, BInv, NEW k \in Calls, Load(k)
    PROVE  BInv'
<1>1. CASE RefuseCall(k)
  BY <1>1, RefusedIsAnswered, QuietAnswerFits DEF Load, AInv
<1>2. CASE /\ file # NoFile /\ UNCHANGED <<tail, client>>
           /\ calls' = [calls EXCEPT ![k].copy = file, ![k].at = "install"]
  <2>0. calls \in [Calls -> CallRecords] /\ calls[k] \in CallRecords
    BY DEF AInv, CallsOK
  <2>1. /\ Others(k) /\ calls'[k].at = "install" /\ calls'[k].copy = file
        /\ calls'[k].object = calls[k].object /\ calls'[k].phase = calls[k].phase
        /\ calls'[k].context = calls[k].context /\ calls'[k].kind = calls[k].kind
    BY <1>2, <2>0 DEF Others, CallRecords, CallPhases, CallPlaces
  <2>2. active = 0 /\ calls[k].object = 0
    BY DEF Load, Object
  <2>3. UNCHANGED <<file, active, objects>>
    BY DEF Load, memory
  <2>4. LoadFits(k)' /\ WorkFits(k)' /\ CopyFits(k)'
    BY <1>2, <2>1, <2>2, <2>3 DEF LoadFits, WorkFits, CopyFits
  <2>5. calls'[k].phase \in {"between", "operate"} => Covers(calls[k].context)'
    BY <2>1, <2>3 DEF BInv, CallFits, Covers
  <2>6. MakingFits'
    <3>1. ~Creating'
      BY <2>1, <2>2 DEF BInv, MakingFits, Creating, Others
    <3> QED BY <2>1, <3>1, MakingKept
  <2> QED BY <2>1, <2>4, <2>5, <2>6, QuietFits DEF CallFits, Load
<1> QED BY <1>1, <1>2 DEF Load

\* Of whoever holds the lock, and has found the session, it is the active one.
LEMMA HolderFinds ==
    ASSUME AInv, BInv, NEW k \in Calls, Locks(k), Object(k) # 0,
           calls[k].at \notin {"refresh", "remove"}
    PROVE  Object(k) = active /\ active # 0
  BY DEF BInv, CallFits, LoadFits, Object

LEMMA RestIsQuiet ==
    ASSUME AInv, BInv, active # 0 => ~Busy(active)
    PROVE  NothingRuns
<1>1. \A r \in DOMAIN runs : r # 0
  BY DEF AInv, SessionOK
<1> QED BY <1>1 DEF BInv, RunsFit, Busy, NothingRuns

LEMMA InstallBInv ==
    ASSUME AInv, BInv, ~crossed', NEW k \in Calls, Install(k)
    PROVE  BInv'
<1>0. ~Overtaken(k)
  BY DEF Install
<1>1. /\ active = 0 /\ file # NoFile /\ calls[k].copy = file /\ calls[k].at = "install"
      /\ \A j \in Calls : calls[j].at # "remove"
      /\ file \in Transcript /\ objects \in Seq(ObjectRecords)
      /\ calls \in [Calls -> CallRecords] /\ calls[k] \in CallRecords
  BY <1>0 DEF Overtaken, Install, BInv, CallFits, LoadFits, AInv, SessionOK, CallsOK
<1>2. PICK object \in ObjectRecords :
         object = [messages |-> file.messages, context |-> file.context, run |-> 0]
  BY <1>1 DEF Transcript, ObjectRecords
<1>3. object.messages = file.messages /\ object.context = file.context /\ object.run = 0
  BY <1>2
<1>4. objects' = Append(objects, object)
  BY <1>1, <1>2 DEF Install
<1>5. PICK n \in Nat : n = Len(objects) + 1
  BY <1>1
<1>6. /\ n # 0 /\ active' = n /\ objects'[n] = object
      /\ calls' = [calls EXCEPT ![k].at = "seek", ![k].object = n]
  BY <1>1, <1>4, <1>5 DEF Install
<1>7. /\ Others(k) /\ calls'[k].at = "seek" /\ calls'[k].object = n
      /\ calls'[k].phase = calls[k].phase /\ calls'[k].context = calls[k].context
      /\ calls'[k].kind = calls[k].kind
  BY <1>1, <1>6 DEF Others, CallRecords, CallPhases, CallPlaces
<1>8. UNCHANGED <<file, runs>>
  BY DEF Install
<1>9. NothingRuns /\ NothingRuns'
  BY <1>1, <1>8 DEF BInv, RunsFit, NothingRuns, Working
<1>10. RunsFit'
  BY <1>3, <1>6, <1>9 DEF RunsFit, NothingRuns
<1>11. TranscriptsFit'
  <2>1. KeepsAll(file.messages)'
    BY <1>1, <1>8 DEF BInv, TranscriptsFit, KeepsAll, Lasting, Contains
  <2>2. KeepsAll(objects[active].messages)'
    BY <1>3, <1>6, <1>8, <2>1 DEF KeepsAll
  <2>3. \A r \in DOMAIN runs' : runs'[r].at \notin {"saving", "failing"}
    BY <1>9 DEF NothingRuns, Working
  <2> QED BY <1>3, <1>6, <1>8, <2>1, <2>2, <2>3 DEF TranscriptsFit
<1>12. \A c \in Nat : Covers(c) => Covers(c)'
  BY <1>1, <1>3, <1>6, <1>8 DEF Covers
<1>13. CallFits(k)'
  <2>1. PICK c \in Nat : c = calls[k].context
    BY <1>1 DEF CallRecords, CallPhases, CallPlaces
  <2>2. calls[k].phase \in {"between", "operate"} => Covers(c)
    BY <2>1 DEF BInv, CallFits, Covers
  <2>3. Covers(c)' => Covers(calls[k].context)'
    BY <1>7, <2>1 DEF Covers
  <2>4. LoadFits(k)' /\ WorkFits(k)' /\ CopyFits(k)'
    BY <1>6, <1>7 DEF LoadFits, WorkFits, CopyFits
  <2> QED BY <1>7, <1>12, <2>2, <2>3, <2>4 DEF CallFits
<1>14. ASSUME NEW j \in Calls \ {k}
       PROVE  CallFits(j)'
  <2>1. calls'[j] = calls[j] /\ CallFits(j)
    BY <1>7 DEF Others, BInv
  <2>2. /\ calls[j].at \notin {"refresh", "save", "remove"}
        /\ ~(Locks(j) /\ calls[j].object # 0)
        /\ ~(Locks(j) /\ calls[j].at \in {"abort", "wait"})
    BY <1>1, <2>1 DEF CallFits, LoadFits, WorkFits
  <2> QED BY <1>12, <2>1, <2>2, OthersFit
<1>15. MakingFits'
  <2>1. ~Creating'
    BY <1>1, <1>7 DEF BInv, MakingFits, Creating, Others
  <2> QED BY <1>7, <2>1, MakingKept
<1> QED BY <1>10, <1>11, <1>13, <1>14, <1>15 DEF BInv

LEMMA AuthorizeBInv ==
    ASSUME AInv, BInv, NEW k \in Calls, Authorize(k)
    PROVE  BInv'
<1>1. /\ Locks(k) /\ Object(k) # 0 /\ calls[k].at = "seek"
      /\ calls \in [Calls -> CallRecords] /\ calls[k] \in CallRecords
  BY DEF Authorize, Found, IsAt, Locks, AInv, CallsOK
<1>2. /\ Object(k) = active /\ active # 0 /\ active \in DOMAIN objects
      /\ objects[active] \in ObjectRecords
  BY <1>1, HolderFinds, FoundObject
<1>3. CASE ~Stale(k) /\ ~Changed(k) /\ Proceed(k)
  <2>1. /\ Others(k) /\ calls'[k].at = "" /\ calls'[k].object = 0
        /\ calls'[k].phase = "between" /\ calls'[k].context = calls[k].context
        /\ calls'[k].kind = calls[k].kind
    BY <1>1, <1>3 DEF Proceed, Others, CallRecords, CallPhases, CallPlaces
  <2>2. objects[active].context \in Nat /\ calls[k].context \in Nat
    BY <1>1, <1>2 DEF CallRecords, CallPhases, CallPlaces, ObjectRecords
  <2>3. objects[active].context >= calls[k].context
    BY <1>2, <1>3, <2>2 DEF Changed
  <2>4. Covers(calls[k].context)'
    BY <1>2, <2>1, <2>3 DEF Covers, Authorize, memory
  <2>5. CallFits(k)'
    BY <2>1, <2>4 DEF CallFits, LoadFits, WorkFits, CopyFits
  <2>6. MakingFits'
    BY <1>1, <2>1, LockersMeet, MetFits
  <2> QED BY <2>1, <2>5, <2>6, QuietFits DEF Authorize
<1>4. CASE RefuseCall(k)
  BY <1>4, RefusedIsAnswered, QuietAnswerFits DEF Authorize, AInv
<1> QED BY <1>3, <1>4 DEF Authorize

LEMMA RefreshBInv ==
    ASSUME AInv, BInv, NEW k \in Calls, Refresh(k)
    PROVE  BInv'
<1>1. /\ Locks(k) /\ Holds(k) /\ Object(k) # 0 /\ calls[k].at = "seek"
      /\ calls[k].phase = "authorize"
      /\ calls \in [Calls -> CallRecords] /\ calls[k] \in CallRecords
      /\ objects \in Seq(ObjectRecords) /\ Len(objects) \in Nat
      /\ UNCHANGED <<file, active, runs>>
  BY DEF Refresh, Found, IsAt, Locks, AInv, CallsOK, SessionOK, MayGoOn
<1>2. /\ Object(k) = active /\ active # 0 /\ active \in DOMAIN objects
      /\ objects[active] \in ObjectRecords
  BY <1>1, HolderFinds, FoundObject
<1>3. NothingRuns
  BY <1>2, RestIsQuiet DEF Refresh
<1>4. PICK object \in ObjectRecords :
         object = [messages |-> objects[active].messages, context |-> calls[k].context, run |-> 0]
  BY <1>1, <1>2 DEF CallRecords, CallPhases, CallPlaces, ObjectRecords
<1>5. /\ object.messages = objects[active].messages
      /\ object.context = calls[k].context /\ object.run = 0
  BY <1>4
<1>6. objects' = Append(objects, object)
  BY <1>2, <1>4 DEF Refresh, TakenOver
<1>7. PICK n \in Nat : n = Len(objects) + 1
  BY <1>1
<1>8. n # 0 /\ objects'[n] = object /\ objects'[active] = objects[active] /\ Len(objects') = n
  BY <1>1, <1>2, <1>6, <1>7
<1>9. PICK copy \in Transcript :
         copy = [messages |-> objects[active].messages, context |-> calls[k].context]
  BY <1>1, <1>2 DEF CallRecords, CallPhases, CallPlaces, ObjectRecords, Transcript
<1>10. copy.messages = object.messages /\ copy.context = object.context
       /\ copy = [messages |-> object.messages, context |-> object.context]
  BY <1>5, <1>9
<1>11. calls' = [calls EXCEPT ![k].at = "refresh", ![k].object = n, ![k].copy = copy]
  BY <1>2, <1>8, <1>9 DEF Refresh, TakenOver
<1>12. /\ Others(k) /\ calls'[k].at = "refresh" /\ calls'[k].object = n
       /\ calls'[k].copy = copy /\ calls'[k].context = calls[k].context
       /\ calls'[k].phase = "authorize" /\ calls'[k].kind = calls[k].kind
  BY <1>1, <1>11 DEF Others, CallRecords, CallPhases, CallPlaces
<1>13. RunsFit'
  BY <1>1, <1>8 DEF BInv, RunsFit, Working
<1>14. TranscriptsFit'
  BY <1>1, <1>8 DEF BInv, TranscriptsFit, KeepsAll, Lasting, Contains, CopyOf
<1>15. CallFits(k)'
  <2>1. LoadFits(k)' /\ WorkFits(k)'
    <3>1. NothingRuns'
      BY <1>1, <1>3 DEF NothingRuns, Working
    <3> QED BY <1>1, <1>2, <1>12, <3>1 DEF LoadFits, WorkFits
  <2>2. CopyFits(k)'
    <3>1. copy = CopyOf(n)'
      BY <1>8, <1>10 DEF CopyOf
    <3>2. KeepsAll(copy.messages)'
      BY <1>1, <1>2, <1>5, <1>10 DEF BInv, TranscriptsFit, KeepsAll, Lasting, Contains
    <3>3. calls[k].context > objects[active].context
      BY <1>2 DEF Refresh, Changed
    <3> QED BY <1>1, <1>5, <1>8, <1>10, <1>12, <3>1, <3>2, <3>3 DEF CopyFits, CopyOf, KeepsAll
  <2> QED BY <1>12, <2>1, <2>2 DEF CallFits
<1>16. \A c \in Nat : Covers(c) => Covers(c)'
  BY <1>1, <1>8 DEF Covers
<1>17. ASSUME NEW j \in Calls \ {k}
       PROVE  CallFits(j)'
  BY <1>1, <1>12, <1>16, OthersRest, OthersFit DEF Others
<1>18. MakingFits'
  BY <1>1, <1>12, LockersMeet, MetFits
<1> QED BY <1>13, <1>14, <1>15, <1>17, <1>18 DEF BInv

LEMMA InstallRefreshedBInv ==
    ASSUME AInv, BInv, NEW k \in Calls, InstallRefreshed(k)
    PROVE  BInv'
<1>1. /\ Locks(k) /\ Holds(k) /\ calls[k].at = "refresh" /\ calls[k].phase = "authorize"
      /\ calls \in [Calls -> CallRecords] /\ calls[k] \in CallRecords /\ CallFits(k)
  <2>1. CallOK(k) /\ calls[k].at = "refresh" /\ CallFits(k)
    BY DEF InstallRefreshed, AInv, BInv, CallsOK
  <2>2. calls[k].phase = "authorize"
    BY <2>1, NoCallIs DEF CallOK, Stands, Operating, Idle
  <2> QED BY <2>1, <2>2 DEF Locks, AInv, QueueOK, WentOn, CallsOK
<1>2. /\ NothingRuns /\ active # 0 /\ calls[k].object # 0
      /\ objects[calls[k].object].run = 0
      /\ calls[k].copy = CopyOf(calls[k].object)
      /\ KeepsAll(calls[k].copy.messages)
      /\ calls[k].copy.context = calls[k].context
      /\ calls[k].context > objects[active].context
  BY <1>1 DEF CallFits, LoadFits, WorkFits, CopyFits
<1>3. PICK n \in DOMAIN objects : n = calls[k].object
  BY <1>2 DEF AInv, CallsOK, CallOK, SessionOK
<1>4. /\ active' = n /\ file' = calls[k].copy /\ UNCHANGED <<objects, runs>>
      /\ n # 0
  BY <1>2, <1>3 DEF InstallRefreshed
<1>5. /\ file' = [messages |-> objects[n].messages, context |-> objects[n].context]
      /\ file'.messages = objects[n].messages /\ file'.context = objects[n].context
      /\ objects[n].context = calls[k].context
  BY <1>2, <1>3, <1>4 DEF CopyOf
<1>6. /\ Others(k) /\ calls'[k].at = "" /\ calls'[k].object = 0
      /\ calls'[k].phase = "between" /\ calls'[k].context = calls[k].context
      /\ calls'[k].kind = calls[k].kind
  BY <1>1 DEF InstallRefreshed, Proceed, Others, CallRecords, CallPhases, CallPlaces
<1>7. NothingRuns'
  BY <1>2, <1>4 DEF NothingRuns, Working
<1>8. RunsFit'
  BY <1>2, <1>3, <1>4, <1>7 DEF RunsFit, NothingRuns
<1>9. TranscriptsFit'
  <2>1. KeepsAll(file.messages)'
    BY <1>2, <1>4 DEF KeepsAll, Lasting, Contains
  <2>2. KeepsAll(objects[active].messages)'
    BY <1>4, <1>5, <2>1 DEF KeepsAll
  <2>3. \A r \in DOMAIN runs' : runs'[r].at \notin {"saving", "failing"}
    BY <1>7 DEF NothingRuns, Working
  <2> QED BY <1>4, <1>5, <2>1, <2>2, <2>3 DEF TranscriptsFit
<1>10. calls[k].context \in Nat /\ objects[active].context \in Nat
  <2>1. objects[active] \in ObjectRecords
    BY <1>2 DEF AInv, SessionOK
  <2> QED BY <1>1, <2>1 DEF CallRecords, CallPhases, CallPlaces, ObjectRecords
<1>11. \A c \in Nat : Covers(c) => Covers(c)'
  BY <1>2, <1>4, <1>5, <1>10 DEF Covers
<1>12. CallFits(k)'
  <2>1. Covers(calls[k].context)'
    <3>1. objects'[active'].context = calls'[k].context /\ calls'[k].context \in Nat
      BY <1>4, <1>5, <1>6, <1>10
    <3>2. objects'[active'].context >= calls'[k].context
      BY <3>1
    <3> QED BY <1>4, <3>2 DEF Covers
  <2> QED BY <1>6, <2>1 DEF CallFits, LoadFits, WorkFits, CopyFits
<1>13. ASSUME NEW j \in Calls \ {k}
       PROVE  CallFits(j)'
  BY <1>1, <1>6, <1>11, OthersRest, OthersFit DEF Others
<1>14. MakingFits'
  BY <1>1, <1>6, LockersMeet, MetFits
<1> QED BY <1>8, <1>9, <1>12, <1>13, <1>14 DEF BInv

LEMMA ContinueBInv ==
    ASSUME AInv, BInv, NEW k \in Calls, Continue(k)
    PROVE  BInv'
<1>1. /\ calls \in [Calls -> CallRecords] /\ calls[k] \in CallRecords
      /\ CallOK(k) /\ calls[k].phase = "between" /\ ~Idle(k)
  BY NotIdle DEF AInv, CallsOK, Continue
<1>2. calls[k].object = 0 /\ Covers(calls[k].context) /\ calls[k].kind # "create"
  BY <1>1 DEF CallOK, Stands, Asked, BInv, CallFits
<1>3. /\ Others(k) /\ calls'[k].at = "seek" /\ calls'[k].object = 0
      /\ calls'[k].context = calls[k].context /\ calls'[k].kind = calls[k].kind
  BY <1>1, <1>2 DEF Continue, CallRecords, CallPhases, CallPlaces, Others
<1>4. Covers(calls[k].context)'
  BY <1>2, <1>3 DEF Covers, Continue, memory
<1>5. CallFits(k)'
  BY <1>3, <1>4 DEF CallFits, LoadFits, WorkFits, CopyFits
<1>6. MakingFits'
  BY <1>1, <1>2, <1>3, MetFits DEF Looking, IsAt
<1> QED BY <1>3, <1>5, <1>6, QuietFits DEF Continue

LEMMA ListSessionBInv ==
    ASSUME AInv, BInv, ~crossed', NEW k \in Calls, ListSession(k)
    PROVE  BInv'
<1>1. CASE Busy(Object(k))
  <2>1. Answered(k)
    BY <1>1 DEF ListSession, Answered, Outcomes
  <2> QED BY <2>1, QuietAnswerFits DEF ListSession
<1>2. CASE ~Busy(Object(k))
  <2>1. /\ calls \in [Calls -> CallRecords] /\ calls[k] \in CallRecords
        /\ calls[k].at = "seek"
    BY DEF AInv, CallsOK, ListSession, Found, IsAt
  <2>2. calls' = [calls EXCEPT ![k].phase = "authorize", ![k].object = 0]
    BY <1>2 DEF ListSession
  <2>3. /\ Others(k) /\ calls'[k].at = "seek" /\ calls'[k].object = 0
        /\ calls'[k].phase = "authorize" /\ calls'[k].kind = calls[k].kind
    BY <2>1, <2>2 DEF CallRecords, CallPhases, CallPlaces, Others
  <2>4. CallFits(k)'
    BY <2>3 DEF CallFits, LoadFits, WorkFits, CopyFits
  <2>5. MakingFits'
    <3>1. ~Creating
      BY DEF ListSession
    <3>2. ~Creating'
      BY <2>3, <3>1 DEF Creating, Others
    <3> QED BY <2>3, <3>2, MakingKept
  <2> QED BY <2>3, <2>4, <2>5, QuietFits DEF ListSession
<1> QED BY <1>1, <1>2

LEMMA GetSessionBInv ==
    ASSUME AInv, BInv, NEW k \in Calls, GetSession(k)
    PROVE  BInv'
<1>1. Answered(k)
  BY DEF GetSession, Answered, Outcomes
<1> QED BY <1>1, QuietAnswerFits DEF GetSession

LEMMA ReplayRunBInv ==
    ASSUME AInv, BInv, NEW k \in Calls, ReplayRun(k)
    PROVE  BInv'
<1>1. PICK r \in Remembered(calls[k].request) : Answer(k, "started", r)
  BY DEF ReplayRun
<1>2. r \in Nat
  BY DEF Remembered, AInv, SessionOK
<1>3. Answered(k)
  BY <1>1, <1>2 DEF Answered, Outcomes
<1> QED BY <1>3, QuietAnswerFits DEF ReplayRun

LEMMA RefusePromptBInv ==
    ASSUME AInv, BInv, NEW k \in Calls, RefusePrompt(k)
    PROVE  BInv'
  BY RefusedIsAnswered, QuietAnswerFits DEF RefusePrompt, AInv

\* A prompt's run starts in the active object, at rest until then.
LEMMA StartsInActive ==
    ASSUME AInv, BInv, NEW k \in Calls, StartPromptRun(k)
    PROVE  /\ Locks(k) /\ Holds(k) /\ Object(k) = active /\ active # 0
           /\ active \in DOMAIN objects /\ NothingRuns /\ Covers(calls[k].context)
<1>1. /\ Locks(k) /\ Holds(k) /\ Object(k) # 0 /\ calls[k].at = "seek"
      /\ calls[k].phase = "operate"
  BY DEF StartPromptRun, Found, IsAt, Locks, MayGoOn
<1>2. Object(k) = active /\ active # 0 /\ active \in DOMAIN objects
  BY <1>1, HolderFinds, FoundObject
<1>3. NothingRuns
  BY <1>2, RestIsQuiet DEF StartPromptRun
<1> QED BY <1>1, <1>2, <1>3 DEF BInv, CallFits

LEMMA StartPromptRunBInv ==
    ASSUME AInv, BInv, NEW k \in Calls, StartPromptRun(k)
    PROVE  BInv'
<1>1. /\ Locks(k) /\ Holds(k) /\ Object(k) = active /\ active # 0
      /\ active \in DOMAIN objects /\ NothingRuns
  BY StartsInActive
<1>2. PICK n \in Nat : n = Len(runs) + 1
  BY DEF AInv, SessionOK
<1>3. /\ n # 0
      /\ \A o \in DOMAIN objects :
            /\ objects'[o].messages = objects[o].messages
            /\ objects'[o].context = objects[o].context
            /\ objects'[o].run = IF o = active THEN n ELSE objects[o].run
      /\ \A r \in DOMAIN runs : runs'[r] = runs[r]
      /\ runs'[n].at = "prompting" /\ runs'[n].object = active
      /\ runs'[n].result = "none" /\ DOMAIN runs' = DOMAIN runs \cup {n}
      /\ UNCHANGED <<file, active>>
  BY <1>1, <1>2, Started DEF NewRun, StartPromptRun, AInv, SessionOK
<1>4. Others(k) /\ calls'[k] = NoCall
  BY NoCallIs DEF StartPromptRun, Answer, Others, AInv, CallsOK
<1>5. RunsFit'
  BY <1>1, <1>3 DEF RunsFit, NothingRuns, Working
<1>6. TranscriptsFit'
  <2>1. ASSUME NEW messages, KeepsAll(messages)
        PROVE  KeepsAll(messages)'
    BY <1>3, <2>1 DEF KeepsAll, Lasting, Contains
  <2>2. active' # 0 => KeepsAll(objects[active].messages)'
    <3>1. KeepsAll(objects[active].messages)
      BY <1>1 DEF BInv, TranscriptsFit
    <3>2. PICK messages : messages = objects[active].messages
      OBVIOUS
    <3> QED BY <1>1, <1>3, <2>1, <3>1, <3>2 DEF KeepsAll
  <2>3. file' # NoFile => KeepsAll(file.messages)'
    <3>1. PICK messages : messages = file.messages
      OBVIOUS
    <3> QED BY <1>3, <2>1, <3>1 DEF BInv, TranscriptsFit, KeepsAll
  <2>4. \A r \in DOMAIN runs' : runs'[r].at \notin {"saving", "failing"}
    BY <1>1, <1>3 DEF NothingRuns, Working
  <2> QED BY <1>1, <1>3, <2>2, <2>3, <2>4 DEF BInv, TranscriptsFit
<1>7. \A c \in Nat : Covers(c) => Covers(c)'
  BY <1>1, <1>3 DEF Covers
<1>8. ASSUME NEW j \in Calls \ {k}
      PROVE  CallFits(j)'
  BY <1>1, <1>3, <1>4, <1>7, OthersRest, OthersFit DEF Others
<1>9. MakingFits'
  BY <1>1, <1>4, NoCallIs, LockersMeet, MetFits
<1> QED BY <1>4, <1>5, <1>6, <1>8, <1>9, IdleFits DEF BInv

LEMMA ObserveRunBInv ==
    ASSUME AInv, BInv, NEW k \in Calls, ObserveRun(k)
    PROVE  BInv'
<1>1. CASE RefuseCall(k)
  BY <1>1, RefusedIsAnswered, QuietAnswerFits DEF ObserveRun, AInv
<1>2. CASE To(k, "stream")
  <2>0. /\ calls \in [Calls -> CallRecords] /\ calls[k] \in CallRecords
        /\ calls[k].phase = "operate" /\ calls[k].kind = "events" /\ ~Idle(k)
    BY NotIdle DEF AInv, CallsOK, ObserveRun, IsAt
  <2>1. /\ Others(k) /\ calls'[k].at = "stream" /\ calls'[k].kind = "events"
        /\ calls'[k].phase = "operate" /\ calls'[k].context = calls[k].context
    BY <1>2, <2>0 DEF To, CallRecords, CallPhases, CallPlaces, Others
  <2>2. Covers(calls[k].context)'
    BY <2>0, <2>1 DEF BInv, CallFits, Covers, ObserveRun, memory
  <2>3. CallFits(k)'
    BY <2>1, <2>2 DEF CallFits, LoadFits, WorkFits, CopyFits, Locks
  <2>4. MakingFits'
    BY <2>0, <2>1, MetFits DEF Looking, IsAt
  <2> QED BY <2>1, <2>3, <2>4, QuietFits DEF ObserveRun
<1> QED BY <1>1, <1>2 DEF ObserveRun

LEMMA SendOutcomeBInv ==
    ASSUME AInv, BInv, NEW k \in Calls, SendOutcome(k)
    PROVE  BInv'
<1>1. PICK r \in Nat : r = calls[k].run
  BY DEF AInv, CallsOK, CallRecords, CallPhases, CallPlaces
<1>2. Answer(k, "done", r)
  BY <1>1 DEF SendOutcome, Answer
<1>3. Answered(k)
  BY <1>2 DEF Answered, Outcomes
<1> QED BY <1>3, QuietAnswerFits DEF SendOutcome

LEMMA LookUpRunBInv ==
    ASSUME AInv, BInv, NEW k \in Calls, LookUpRun(k)
    PROVE  BInv'
<1>1. CASE Answer(k, "done", 0)
  <2>1. Answered(k)
    BY <1>1 DEF Answered, Outcomes
  <2> QED BY <2>1, QuietAnswerFits DEF LookUpRun
<1>2. CASE calls' = [calls EXCEPT ![k].at = "abort", ![k].object = Object(k)]
  <2>1. /\ calls \in [Calls -> CallRecords] /\ calls[k] \in CallRecords
        /\ calls[k].phase = "operate" /\ calls[k].kind = "abort" /\ ~Idle(k)
    BY NotIdle DEF AInv, CallsOK, LookUpRun, IsAt
  <2>2. PICK n : n = Object(k)
    OBVIOUS
  <2>3. calls' = [calls EXCEPT ![k].at = "abort", ![k].object = n]
    BY <1>2, <2>2
  <2>4. /\ Others(k) /\ calls'[k].at = "abort" /\ calls'[k].kind = "abort"
        /\ calls'[k].phase = "operate" /\ calls'[k].context = calls[k].context
    BY <2>1, <2>3 DEF CallRecords, CallPhases, CallPlaces, Others
  <2>5. Covers(calls[k].context)'
    BY <2>1, <2>4 DEF BInv, CallFits, Covers, LookUpRun, memory
  <2>6. CallFits(k)'
    BY <2>4, <2>5 DEF CallFits, LoadFits, WorkFits, CopyFits, Locks
  <2>7. MakingFits'
    BY <2>1, <2>4, MetFits DEF Looking, IsAt
  <2> QED BY <2>4, <2>6, <2>7, QuietFits DEF LookUpRun
<1> QED BY <1>1, <1>2 DEF LookUpRun

LEMMA AbortRunBInv ==
    ASSUME AInv, BInv, NEW k \in Calls, AbortRun(k)
    PROVE  BInv'
<1>1. /\ DOMAIN runs' = DOMAIN runs /\ UNCHANGED <<file, active, objects>>
      /\ \A r \in DOMAIN runs :
            /\ runs'[r].object = runs[r].object /\ runs'[r].at = runs[r].at
            /\ runs'[r].copy = runs[r].copy /\ runs'[r].result = runs[r].result
            /\ runs'[r].cleared = runs[r].cleared
  BY Cancelled DEF AbortRun, memory
<1>2. RunsFit'
  BY <1>1 DEF BInv, RunsFit, Working
<1>3. /\ \A messages : KeepsAll(messages) => KeepsAll(messages)'
      /\ \A c \in Nat : Covers(c) => Covers(c)'
      /\ \A r \in DOMAIN runs' : Working(r)' => r \in DOMAIN runs /\ Working(r)
  BY <1>1 DEF KeepsAll, Lasting, Contains, Covers, Working
<1>4. TranscriptsFit'
  BY <1>1 DEF BInv, TranscriptsFit, KeepsAll, Lasting, Contains, CopyOf
<1>5. /\ calls[k].at = "abort" /\ calls \in [Calls -> CallRecords] /\ calls[k] \in CallRecords
      /\ CallFits(k) /\ ~Idle(k) /\ ~Looking(k) /\ calls[k].kind # "create"
  BY NotIdle DEF AbortRun, AInv, BInv, CallsOK, CallOK, Stands, Operating, Looking, IsAt
<1>6. ASSUME NEW j \in Calls \ {k}, calls'[j] = calls[j]
      PROVE  CallFits(j)'
  <2>1. LoadFits(j)' /\ WorkFits(j)' /\ Covers(calls[j].context)' = Covers(calls[j].context)
    BY <1>1, <1>3, <1>6 DEF BInv, CallFits, LoadFits, WorkFits, Locks, NothingRuns, Covers
  <2>2. CopyFits(j)'
    BY <1>1, <1>6 DEF BInv, CallFits, CopyFits, KeepsAll, Lasting, Contains, CopyOf
  <2> QED BY <1>6, <2>1, <2>2 DEF BInv, CallFits
<1>7. CASE calls'[k] = NoCall /\ Others(k)
  <2>1. MakingFits'
    BY <1>5, <1>7, NoCallIs, MetFits
  <2> QED BY <1>2, <1>4, <1>6, <1>7, <2>1, IdleFits DEF BInv, Others
<1>8. CASE To(k, "wait")
  <2>1. /\ Others(k) /\ calls'[k].at = "wait" /\ calls'[k].kind = calls[k].kind
        /\ calls'[k].object = calls[k].object /\ calls'[k].run = calls[k].run
        /\ calls'[k].phase = calls[k].phase /\ calls'[k].context = calls[k].context
    BY <1>5, <1>8 DEF To, CallRecords, CallPhases, CallPlaces, Others
  <2>2. CallFits(k)'
    <3>1. LoadFits(k)' /\ WorkFits(k)' /\ CopyFits(k)'
      BY <1>1, <1>3, <1>5, <2>1 DEF CallFits, LoadFits, WorkFits, CopyFits, Locks
    <3> QED BY <1>1, <1>5, <2>1, <3>1 DEF CallFits, Covers
  <2>3. MakingFits'
    BY <1>5, <2>1, MetFits
  <2> QED BY <1>2, <1>4, <1>6, <2>1, <2>2, <2>3 DEF BInv, Others
<1>9. RefuseCall(k) \/ Answer(k, "done", calls[k].run) => calls'[k] = NoCall /\ Others(k)
  BY <1>5 DEF RefuseCall, Answer, Others
<1> QED BY <1>7, <1>8, <1>9 DEF AbortRun

LEMMA InterruptBInv ==
    ASSUME AInv, BInv, NEW k \in Calls, Interrupt(k)
    PROVE  BInv'
<1>1. CASE RefuseCall(k)
  BY <1>1, RefusedIsAnswered, QuietAnswerFits DEF Interrupt, AInv
<1>2. CASE calls' = [calls EXCEPT ![k].object = Object(k), ![k].run = objects[Object(k)].run,
                  ![k].at = IF runs[objects[Object(k)].run].cancelled THEN "wait" ELSE "abort"]
  <2>1. /\ calls \in [Calls -> CallRecords] /\ calls[k] \in CallRecords
        /\ Locks(k) /\ calls[k].phase = "operate" /\ calls[k].at = "seek"
    BY DEF AInv, CallsOK, Interrupt, IsAt, Locks
  <2>2. Object(k) = active /\ active # 0
    BY <2>1, HolderFinds DEF Interrupt
  <2>3. PICK n : n = active
    OBVIOUS
  <2>4. PICK r : r = objects[active].run
    OBVIOUS
  <2>5. PICK at \in {"wait", "abort"} :
            at = IF runs[objects[Object(k)].run].cancelled THEN "wait" ELSE "abort"
    OBVIOUS
  <2>6. calls' = [calls EXCEPT ![k].object = n, ![k].run = r, ![k].at = at]
    BY <1>2, <2>2, <2>3, <2>4, <2>5
  <2>7. /\ Others(k) /\ calls'[k].at = at /\ calls'[k].object = n /\ calls'[k].run = r
        /\ calls'[k].phase = "operate" /\ calls'[k].context = calls[k].context
        /\ calls'[k].kind = calls[k].kind
    BY <2>1, <2>6 DEF CallRecords, CallPhases, CallPlaces, Others
  <2>8. UNCHANGED <<file, active, objects, runs>>
    BY DEF Interrupt, memory
  <2>9. CallFits(k)'
    <3>1. LoadFits(k)' /\ CopyFits(k)'
      BY <2>3, <2>5, <2>7, <2>8 DEF LoadFits, CopyFits
    <3>2. WorkFits(k)'
      BY <2>2, <2>3, <2>4, <2>5, <2>7, <2>8 DEF WorkFits, BInv, RunsFit, Working
    <3>3. Covers(calls[k].context)'
      BY <2>1, <2>7, <2>8 DEF BInv, CallFits, Covers
    <3> QED BY <3>1, <3>2, <3>3 DEF CallFits
  <2>10. MakingFits'
    BY <2>1, <2>7, LockersMeet, MetFits
  <2> QED BY <2>7, <2>9, <2>10, QuietFits DEF Interrupt
<1> QED BY <1>1, <1>2 DEF Interrupt

\* Nothing runs any more in a session that is reset or removed.
LEMMA RestsWhenReset ==
    ASSUME AInv, BInv, NEW k \in Calls, calls[k].kind \in {"reset", "delete"}, AtRest(k)
    PROVE  NothingRuns
<1>1. Locks(k)
  BY AtRestIs
<1>2. CASE calls[k].at = "wait" /\ ~Working(calls[k].run)
  BY <1>1, <1>2 DEF BInv, CallFits, WorkFits, NothingRuns
<1>3. CASE calls[k].at = "seek" /\ (Object(k) # 0 => ~Busy(Object(k)))
  <2>1. active # 0 => Object(k) = active
    BY <1>1, <1>3 DEF BInv, CallFits, LoadFits, Object
  <2> QED BY <1>3, <2>1, RestIsQuiet
<1> QED BY <1>2, <1>3 DEF AtRest, IsAt

LEMMA ResetSessionBInv ==
    ASSUME AInv, BInv, NEW k \in Calls, ResetSession(k)
    PROVE  BInv'
<1>1. /\ Locks(k) /\ Holds(k) /\ calls[k].phase = "operate" /\ NothingRuns
      /\ calls[k].at \in {"wait", "seek"} /\ Object(k) # 0
      /\ calls \in [Calls -> CallRecords] /\ calls[k] \in CallRecords
  BY AtRestIs, RestsWhenReset DEF ResetSession, AtRest, IsAt, AInv, CallsOK
<1>2. Object(k) = active /\ active # 0 /\ active \in DOMAIN objects
  BY <1>1, HolderFinds, FoundObject
<1>3. /\ objects'[active].messages = <<>>
      /\ \A o \in DOMAIN objects :
            /\ objects'[o].context = objects[o].context
            /\ objects'[o].run = objects[o].run
      /\ UNCHANGED <<file, active>>
  BY <1>2, Emptied DEF ResetSession
<1>4. /\ DOMAIN runs' = DOMAIN runs
      /\ \A r \in DOMAIN runs : runs'[r].at = runs[r].at /\ runs'[r].cleared = TRUE
  BY RunsForgotten DEF ResetSession, AInv, SessionOK
<1>5. NothingRuns' /\ \A messages : KeepsAll(messages)'
  BY <1>1, <1>4 DEF NothingRuns, Working, KeepsAll, Lasting
<1>6. PICK copy : copy = [messages |-> <<>>, context |-> objects[active].context]
  OBVIOUS
<1>7. calls' = [calls EXCEPT ![k].at = "save", ![k].copy = copy]
  BY <1>2, <1>6 DEF ResetSession
<1>8. /\ Others(k) /\ calls'[k].at = "save" /\ calls'[k].copy = copy
      /\ calls'[k].object = calls[k].object /\ calls'[k].phase = "operate"
      /\ calls'[k].context = calls[k].context /\ calls'[k].kind = calls[k].kind
  BY <1>1, <1>7 DEF CallRecords, CallPhases, CallPlaces, Others
<1>9. RunsFit'
  BY <1>1, <1>2, <1>3, <1>5 DEF BInv, RunsFit, NothingRuns
<1>10. TranscriptsFit'
  <2>1. \A r \in DOMAIN runs' : runs'[r].at \notin {"saving", "failing"}
    BY <1>5 DEF NothingRuns, Working
  <2>2. KeepsAll(file.messages)' /\ KeepsAll(objects[active].messages)'
    BY <1>4 DEF KeepsAll, Lasting
  <2> QED BY <1>2, <1>3, <2>1, <2>2 DEF BInv, TranscriptsFit
<1>11. \A c \in Nat : Covers(c) => Covers(c)'
  BY <1>2, <1>3 DEF Covers
<1>12. CallFits(k)'
  <2>1. LoadFits(k)' /\ WorkFits(k)'
    BY <1>1, <1>2, <1>3, <1>5, <1>8 DEF BInv, CallFits, LoadFits, WorkFits
  <2>2. copy = CopyOf(active)'
    BY <1>2, <1>3, <1>6 DEF CopyOf
  <2>3. KeepsAll(calls[k].copy.messages)'
    BY <1>4 DEF KeepsAll, Lasting
  <2>4. CopyFits(k)'
    BY <1>8, <2>2, <2>3 DEF CopyFits, CopyOf
  <2>5. Covers(calls[k].context)'
    BY <1>1, <1>2, <1>3, <1>8 DEF BInv, CallFits, Covers
  <2> QED BY <2>1, <2>4, <2>5 DEF CallFits
<1>13. ASSUME NEW j \in Calls \ {k}
       PROVE  CallFits(j)'
  BY <1>1, <1>3, <1>8, <1>11, OthersRest, OthersFit DEF Others
<1>14. MakingFits'
  BY <1>1, <1>8, LockersMeet, MetFits
<1> QED BY <1>9, <1>10, <1>12, <1>13, <1>14 DEF BInv

LEMMA DeleteSessionBInv ==
    ASSUME AInv, BInv, NEW k \in Calls, DeleteSession(k)
    PROVE  BInv'
<1>1. /\ Locks(k) /\ Holds(k) /\ calls[k].phase = "operate" /\ NothingRuns
      /\ calls \in [Calls -> CallRecords] /\ calls[k] \in CallRecords
      /\ active' = 0 /\ UNCHANGED <<file, objects>>
  BY AtRestIs, RestsWhenReset DEF DeleteSession, AInv, CallsOK
<1>2. /\ DOMAIN runs' = DOMAIN runs
      /\ \A r \in DOMAIN runs : runs'[r].at = runs[r].at /\ runs'[r].cleared = TRUE
  BY RunsForgotten DEF DeleteSession, AInv, SessionOK
<1>3. NothingRuns'
  BY <1>1, <1>2 DEF NothingRuns, Working
<1>4. /\ Others(k) /\ calls'[k].at = "remove" /\ calls'[k].phase = "operate"
      /\ calls'[k].context = calls[k].context /\ calls'[k].kind = calls[k].kind
  BY <1>1 DEF DeleteSession, To, CallRecords, CallPhases, CallPlaces, Others
<1>5. RunsFit'
  BY <1>1, <1>3 DEF RunsFit, NothingRuns
<1>6. TranscriptsFit'
  <2>1. \A r \in DOMAIN runs' : runs'[r].at \notin {"saving", "failing"}
    BY <1>3 DEF NothingRuns, Working
  <2>2. KeepsAll(file.messages)'
    BY <1>2 DEF KeepsAll, Lasting
  <2> QED BY <1>1, <2>1, <2>2 DEF TranscriptsFit
<1>7. \A c \in Nat : Covers(c) => Covers(c)'
  BY <1>1 DEF BInv, TranscriptsFit, Covers
<1>8. CallFits(k)'
  <2>1. PICK c \in Nat : c = calls[k].context
    BY <1>1 DEF CallRecords, CallPhases, CallPlaces
  <2>2. Covers(c)
    BY <1>1, <2>1 DEF BInv, CallFits, Covers
  <2>3. Covers(c)' => Covers(calls[k].context)'
    BY <1>4, <2>1 DEF Covers
  <2> QED BY <1>1, <1>3, <1>4, <1>7, <2>2, <2>3 DEF CallFits, LoadFits, WorkFits, CopyFits
<1>9. ASSUME NEW j \in Calls \ {k}
      PROVE  CallFits(j)'
  BY <1>1, <1>4, <1>7, OthersRest, OthersFit DEF Others
<1>10. MakingFits'
  BY <1>1, <1>4, LockersMeet, MetFits
<1> QED BY <1>5, <1>6, <1>8, <1>9, <1>10 DEF BInv

LEMMA LookersList ==
    ASSUME AInv, NEW k \in Calls, Looking(k)
    PROVE  calls[k].kind = "list"
  BY NoCallIs DEF AInv, CallsOK, CallOK, Stands, Looking, IsAt, Idle

LEMMA SaveBInv ==
    ASSUME AInv, BInv, NEW k \in Calls, Save(k)
    PROVE  BInv'
<1>1. /\ calls[k].at = "save" /\ NothingRuns /\ active # 0 /\ calls[k].copy = CopyOf(active)
      /\ KeepsAll(calls[k].copy.messages) /\ CallOK(k)
  BY DEF Save, BInv, CallFits, LoadFits, WorkFits, CopyFits, AInv, CallsOK
<1>2. /\ file' = CopyOf(active) /\ file'.messages = objects[active].messages
      /\ file'.context = objects[active].context
      /\ UNCHANGED <<active, objects, runs>>
  BY <1>1 DEF Save, memory, CopyOf
<1>3. Others(k) /\ calls'[k] = NoCall
  BY NoCallIs DEF Save, Answer, Others, AInv, CallsOK
<1>4. RunsFit'
  BY <1>2 DEF BInv, RunsFit, Working
<1>5. TranscriptsFit'
  <2>1. KeepsAll(objects[active].messages)' /\ KeepsAll(file.messages)'
    BY <1>1, <1>2 DEF CopyOf, KeepsAll, Lasting, Contains
  <2> QED BY <1>2, <2>1 DEF BInv, TranscriptsFit, CopyOf, Contains
<1>6. \A c \in Nat : Covers(c) => Covers(c)'
  BY <1>1, <1>2 DEF Covers
<1>9. Locks(k) \/ calls[k].kind = "create"
  BY <1>1, NoCallIs DEF CallOK, Stands, Operating, Idle, Locks
<1>7. ASSUME NEW j \in Calls \ {k}
      PROVE  CallFits(j)'
  <2>1. CASE Locks(k)
    <3>1. Holds(k)
      BY <1>1, <2>1 DEF AInv, QueueOK, WentOn
    <3> QED BY <1>2, <1>3, <1>6, <2>1, <3>1, OthersRest, OthersFit DEF Others
  <2>2. CASE ~Locks(k)
    <3>1. calls'[j] = calls[j] /\ (Idle(j) \/ Looking(j))
      BY <1>3, <1>9, <2>2 DEF BInv, MakingFits, Others
    <3>2. CASE Idle(j)
      BY <3>1, <3>2, IdleFits DEF Idle
    <3>3. CASE Looking(j)
      BY <1>2, <1>6, <3>1, <3>3, OthersFit DEF Looking, IsAt, Locks
    <3> QED BY <3>1, <3>2, <3>3
  <2> QED BY <2>1, <2>2
<1>8. MakingFits'
  <2>1. ~Creating'
    <3>1. CASE calls[k].kind = "create"
      BY <1>3, <3>1, NoCallIs, LookersList DEF BInv, MakingFits, Creating, Others, Idle
    <3>2. CASE calls[k].kind # "create"
      BY <1>1, <1>3, <3>2, NotIdle, NobodyMakes, NoCallIs DEF Creating, Others, Looking, IsAt
    <3> QED BY <3>1, <3>2
  <2> QED BY <1>3, <2>1, NoCallIs, MakingKept
<1> QED BY <1>3, <1>4, <1>5, <1>7, <1>8, IdleFits DEF BInv

LEMMA RemoveBInv ==
    ASSUME AInv, BInv, NEW k \in Calls, Remove(k)
    PROVE  BInv'
<1>1. calls[k].at = "remove" /\ NothingRuns /\ active = 0 /\ CallOK(k)
  BY DEF Remove, BInv, CallFits, LoadFits, WorkFits, AInv, CallsOK
<1>2. file' = NoFile /\ UNCHANGED <<active, objects, runs>>
  BY DEF Remove, memory
<1>3. Others(k) /\ calls'[k] = NoCall
  BY NoCallIs DEF Remove, Answer, Others, AInv, CallsOK
<1>4. Locks(k) /\ Holds(k)
  <2>1. Locks(k)
    BY <1>1, NoCallIs DEF CallOK, Stands, Operating, Idle, Locks
  <2> QED BY <1>1, <2>1 DEF AInv, QueueOK, WentOn
<1>5. RunsFit'
  BY <1>2 DEF BInv, RunsFit, Working
<1>6. TranscriptsFit'
  BY <1>1, <1>2 DEF TranscriptsFit, NothingRuns, Working
<1>7. \A c \in Nat : Covers(c)'
  BY <1>1, <1>2 DEF Covers
<1>8. ASSUME NEW j \in Calls \ {k}
      PROVE  CallFits(j)'
  BY <1>2, <1>3, <1>4, <1>7, OthersRest, OthersFit DEF Others
<1>9. MakingFits'
  BY <1>3, <1>4, NoCallIs, LockersMeet, MetFits
<1> QED BY <1>3, <1>5, <1>6, <1>8, <1>9, IdleFits DEF BInv

LEMMA FailWriteBInv ==
    ASSUME AInv, BInv, NEW k \in Calls, FailWrite(k)
    PROVE  BInv'
  BY RefusedIsAnswered, QuietAnswerFits DEF FailWrite, AInv

\* While a run is at work nobody writes or removes the file.
LEMMA AtWorkFits ==
    ASSUME AInv, BInv, NEW r \in DOMAIN runs, Working(r), UNCHANGED <<active, calls>>,
           \A p \in DOMAIN runs' : Working(p)' => p \in DOMAIN runs /\ Working(p),
           \A o \in DOMAIN objects : objects'[o].context = objects[o].context
    PROVE  MakingFits' /\ \A k \in Calls : CallFits(k)'
<1>1. active # 0 /\ active \in DOMAIN objects
  BY RunIsLate DEF BInv, RunsFit
<1>2. ASSUME NEW k \in Calls
      PROVE  calls[k].at \notin {"refresh", "save", "remove"}
  BY DEF BInv, CallFits, WorkFits, NothingRuns
<1>3. \A c \in Nat : Covers(c) => Covers(c)'
  BY <1>1 DEF Covers
<1>4. ASSUME NEW k \in Calls
      PROVE  CallFits(k)'
  BY <1>2, <1>3, OthersFit
<1>5. ASSUME NEW k \in Calls
      PROVE  calls'[k].kind # "create"
  BY <1>2, NoCallIs DEF AInv, CallsOK, CallOK, Stands, Operating, Asked, Idle
<1> QED BY <1>4, <1>5 DEF MakingFits

LEMMA AgentAnswersBInv ==
    ASSUME AInv, BInv, NEW r \in DOMAIN runs, AgentAnswers(r)
    PROVE  BInv'
<1>1. /\ Working(r) /\ runs[r].object = active /\ active # 0 /\ active \in DOMAIN objects
      /\ objects[active].run = r /\ r \in Nat /\ objects[active] \in ObjectRecords
      /\ \A p \in DOMAIN runs : Working(p) => p = r
  BY RunIsLate DEF AgentAnswers, Working, BInv, RunsFit
<1>2. PICK messages \in Seq(Nat) : messages = objects[active].messages
  BY <1>1 DEF ObjectRecords
<1>3. /\ \A o \in DOMAIN objects :
            /\ objects'[o].context = objects[o].context /\ objects'[o].run = objects[o].run
      /\ objects'[active].messages = Append(messages, r)
      /\ DOMAIN runs' = DOMAIN runs
      /\ \A p \in DOMAIN runs : p # r => runs'[p] = runs[p]
      /\ runs'[r].object = active /\ runs'[r].at = "saving"
      /\ runs'[r].result = runs[r].result /\ runs'[r].cleared = runs[r].cleared
      /\ UNCHANGED <<file, active, calls>>
  BY <1>1, <1>2, AnswerIs DEF AgentAnswers
<1>4. runs'[r].copy = CopyOf(active)'
  <2>1. runs'[r].copy = [messages |-> Append(messages, r), context |-> objects[active].context]
    BY <1>1, <1>2, AnswerIs
  <2>2. /\ objects'[active'].messages = Append(messages, r)
        /\ objects'[active'].context = objects[active].context
    BY <1>1, <1>3
  <2> QED BY <2>1, <2>2 DEF CopyOf
<1>5. /\ Contains(Append(messages, r), r)
      /\ \A p \in DOMAIN runs : Contains(messages, p) => Contains(Append(messages, r), p)
  <2>1. /\ Len(messages) \in Nat /\ DOMAIN messages = 1 .. Len(messages)
        /\ DOMAIN Append(messages, r) = 1 .. Len(messages) + 1
        /\ Append(messages, r)[Len(messages) + 1] = r
        /\ \A i \in DOMAIN messages : Append(messages, r)[i] = messages[i]
    BY <1>1
  <2> QED BY <2>1 DEF Contains
<1>6. Working(r)' /\ \A p \in DOMAIN runs' : Working(p)' => p \in DOMAIN runs /\ Working(p)
  BY <1>1, <1>3 DEF Working
<1>7. RunsFit'
  BY <1>1, <1>3, <1>6 DEF BInv, RunsFit
<1>8. TranscriptsFit'
  <2>1. \A p \in DOMAIN runs : Lasting(p)' <=> Lasting(p)
    BY <1>3 DEF Lasting
  <2>2. KeepsAll(objects[active].messages)'
    <3>1. KeepsAll(messages)
      BY <1>1, <1>2 DEF BInv, TranscriptsFit
    <3> QED BY <1>3, <1>5, <2>1, <3>1 DEF KeepsAll
  <2>3. file' # NoFile => KeepsAll(file.messages)'
    BY <1>3, <2>1 DEF BInv, TranscriptsFit, KeepsAll
  <2>4. \A p \in DOMAIN runs' : runs'[p].at \in {"saving", "failing"} => p = r
    BY <1>1, <1>3, <1>6 DEF Working
  <2>5. Contains(objects[active].messages, r)'
    BY <1>3, <1>5 DEF Contains
  <2> QED BY <1>1, <1>3, <1>4, <2>2, <2>3, <2>4, <2>5 DEF BInv, TranscriptsFit, CopyOf, Contains
<1>9. MakingFits' /\ \A k \in Calls : CallFits(k)'
  BY <1>1, <1>3, <1>6, AtWorkFits
<1> QED BY <1>7, <1>8, <1>9 DEF BInv

LEMMA RunFailsBInv ==
    ASSUME AInv, BInv, NEW r \in DOMAIN runs, RunFails(r)
    PROVE  BInv'
<1>1. /\ Working(r) /\ runs[r].object = active /\ active # 0 /\ active \in DOMAIN objects
      /\ objects[active].run = r
      /\ \A p \in DOMAIN runs : Working(p) => p = r
  BY RunIsLate DEF RunFails, Working, BInv, RunsFit
<1>2. /\ DOMAIN runs' = DOMAIN runs
      /\ \A p \in DOMAIN runs : p # r => runs'[p] = runs[p]
      /\ runs'[r].object = active /\ runs'[r].at = "failing"
      /\ runs'[r].result = runs[r].result /\ runs'[r].cleared = runs[r].cleared
      /\ runs'[r].copy = CopyOf(active)
      /\ UNCHANGED <<file, active, objects, calls>>
  BY <1>1, FailureIs DEF RunFails, memory
<1>3. Working(r)' /\ \A p \in DOMAIN runs' : Working(p)' => p \in DOMAIN runs /\ Working(p)
  BY <1>1, <1>2 DEF Working
<1>4. RunsFit'
  BY <1>1, <1>2, <1>3 DEF BInv, RunsFit
<1>5. TranscriptsFit'
  <2>1. \A p \in DOMAIN runs : Lasting(p)' <=> Lasting(p)
    BY <1>2 DEF Lasting
  <2>2. KeepsAll(objects[active].messages)' /\ (file' # NoFile => KeepsAll(file.messages)')
    BY <1>1, <1>2, <2>1 DEF BInv, TranscriptsFit, KeepsAll, Contains
  <2>3. \A p \in DOMAIN runs' : runs'[p].at \in {"saving", "failing"} => p = r
    BY <1>1, <1>2, <1>3 DEF Working
  <2> QED BY <1>1, <1>2, <2>2, <2>3 DEF BInv, TranscriptsFit, CopyOf, Contains
<1>6. MakingFits' /\ \A k \in Calls : CallFits(k)'
  BY <1>1, <1>2, <1>3, AtWorkFits
<1> QED BY <1>4, <1>5, <1>6 DEF BInv

\* The file gets the run's answer, or is left as it was by one that failed.
LEMMA EndRunBInv ==
    ASSUME AInv, BInv, NEW r \in DOMAIN runs,
           NEW result \in {"completed", "aborted", "failed"}, EndRun(r, result),
           \/ runs[r].at = "saving" /\ file' = runs[r].copy
           \/ runs[r].at = "failing" /\ result = "failed" /\ file' \in {file, runs[r].copy}
    PROVE  BInv'
<1>1. /\ Working(r) /\ runs[r].object = active /\ active # 0 /\ active \in DOMAIN objects
      /\ objects[active].run = r
      /\ \A p \in DOMAIN runs : Working(p) => p = r
  BY RunIsLate DEF Working, BInv, RunsFit
<1>2. /\ \A o \in DOMAIN objects :
            /\ objects'[o].context = objects[o].context
            /\ objects'[o].messages = objects[o].messages
      /\ objects'[active].run = 0
      /\ DOMAIN runs' = DOMAIN runs
      /\ \A p \in DOMAIN runs : p # r => runs'[p] = runs[p]
      /\ runs'[r].at = "ended" /\ runs'[r].result = result
      /\ runs'[r].cleared = runs[r].cleared
      /\ UNCHANGED <<active, calls>>
  <2>1. PICK o \in DOMAIN objects : o = active
    BY <1>1
  <2>2. runs[r].object = o /\ objects[o].run = r
    BY <1>1, <2>1
  <2>3. objects'[o].run = 0
    BY <2>1, <2>2, EndIs
  <2>4. /\ \A p \in DOMAIN objects :
              /\ objects'[p].context = objects[p].context
              /\ objects'[p].messages = objects[p].messages
        /\ DOMAIN runs' = DOMAIN runs
        /\ \A p \in DOMAIN runs : p # r => runs'[p] = runs[p]
        /\ runs'[r].at = "ended" /\ runs'[r].result = result
        /\ runs'[r].cleared = runs[r].cleared
    BY EndIs
  <2> QED BY <2>1, <2>3, <2>4 DEF EndRun
<1>3. NothingRuns'
  BY <1>1, <1>2 DEF NothingRuns, Working
<1>4. RunsFit'
  BY <1>2, <1>3 DEF RunsFit, NothingRuns
<1>5. runs[r].copy = CopyOf(active)
  BY DEF BInv, TranscriptsFit
<1>6. KeepsAll(objects[active].messages)'
  <2>1. ASSUME NEW p \in DOMAIN runs, Lasting(p)'
        PROVE  Contains(objects[active].messages, p)
    <3>1. CASE p = r
      <4>1. runs[r].at = "saving"
        BY <1>2, <2>1, <3>1 DEF Lasting
      <4> QED BY <3>1, <4>1 DEF BInv, TranscriptsFit
    <3>2. CASE p # r
      BY <1>1, <1>2, <2>1, <3>2 DEF BInv, TranscriptsFit, KeepsAll, Lasting
    <3> QED BY <3>1, <3>2
  <2> QED BY <1>1, <1>2, <2>1 DEF KeepsAll, Contains
<1>7. TranscriptsFit'
  <2>1. CASE file' = runs[r].copy
    <3>1. file'.messages = objects'[active'].messages /\ file'.context = objects'[active'].context
      BY <1>1, <1>2, <1>5, <2>1 DEF CopyOf
    <3>2. KeepsAll(file.messages)'
      BY <1>6, <3>1 DEF KeepsAll
    <3> QED BY <1>3, <1>6, <3>1, <3>2 DEF TranscriptsFit, NothingRuns, Working
  <2>2. CASE file' = file /\ result = "failed"
    <3>1. file' # NoFile => KeepsAll(file.messages)'
      BY <1>2, <2>2 DEF BInv, TranscriptsFit, KeepsAll, Lasting, Contains
    <3>2. file' # NoFile => file'.context = objects'[active'].context
      BY <1>1, <1>2, <2>2 DEF BInv, TranscriptsFit
    <3> QED BY <1>3, <1>6, <3>1, <3>2 DEF TranscriptsFit, NothingRuns, Working
  <2> QED BY <2>1, <2>2
<1>8. MakingFits' /\ \A k \in Calls : CallFits(k)'
  BY <1>1, <1>2, <1>3, AtWorkFits DEF NothingRuns
<1> QED BY <1>4, <1>7, <1>8 DEF BInv

LEMMA CompleteRunBInv ==
    ASSUME AInv, BInv, NEW r \in DOMAIN runs, CompleteRun(r)
    PROVE  BInv'
<1>1. PICK result \in {"completed", "aborted", "failed"} :
         result = IF runs[r].cancelled THEN "aborted" ELSE "completed"
  OBVIOUS
<1>2. EndRun(r, result)
  BY <1>1 DEF CompleteRun
<1> QED BY <1>2, EndRunBInv DEF CompleteRun

LEMMA FailRunBInv ==
    ASSUME AInv, BInv, NEW r \in DOMAIN runs, FailRun(r)
    PROVE  BInv'
  BY EndRunBInv DEF FailRun

\* A call that arrives has nothing of the session yet.
LEMMA ArriveBInv ==
    ASSUME AInv, BInv, ~crossed', NEW k \in Calls, NEW kind \in Asked, NEW q, NEW r,
           Arrive(k, kind, q, r)
    PROVE  BInv'
<1>1. PICK phase \in {"look", "authorize"} : phase = IF kind = "list" THEN "look" ELSE "authorize"
  OBVIOUS
<1>2. PICK context : context = revision
  OBVIOUS
<1>3. PICK call :
         call = [NoCall EXCEPT !.kind = kind, !.request = q, !.run = r, !.context = context,
                               !.phase = phase, !.at = "seek"]
  OBVIOUS
<1>4. call.phase = phase /\ call.at = "seek" /\ call.object = 0 /\ call.kind = kind
  BY <1>3 DEF NoCall
<1>5. calls' = [calls EXCEPT ![k] = call]
  BY <1>1, <1>2, <1>3 DEF Arrive
<1>6. Others(k) /\ calls'[k] = call
  BY <1>5 DEF Others, AInv, CallsOK
<1>7. CallFits(k)'
  BY <1>4, <1>6 DEF CallFits, LoadFits, WorkFits, CopyFits
<1>8. MakingFits'
  <2> SUFFICES ASSUME NEW c \in Calls, calls'[c].kind = "create"
               PROVE  /\ active' # 0 /\ file' = NoFile
                      /\ \A j \in Calls \ {c} : Idle(j)' \/ Looking(j)'
    BY DEF MakingFits
  <2>1. c # k /\ calls[c].kind = "create"
    BY <1>4, <1>6 DEF Asked, Others
  <2>2. /\ active # 0 /\ file = NoFile
        /\ \A j \in Calls \ {c} : Idle(j) \/ Looking(j)
    BY <2>1 DEF BInv, MakingFits
  <2>3. kind = "list"
    BY <2>1, <2>2 DEF Arrive, Known, Creating
  <2>4. Looking(k)'
    BY <1>1, <1>4, <1>6, <2>3 DEF Looking, IsAt
  <2> QED BY <1>6, <2>2, <2>4 DEF Others, Idle, Looking, IsAt, Arrive, memory
<1> QED BY <1>6, <1>7, <1>8, QuietFits DEF Arrive

LEMMA BrowseBInv ==
    ASSUME AInv, BInv, ~crossed', NEW k \in Calls,
           \/ \E q \in Requests : PostPrompt(q, k) \/ WatchRun(q, k) \/ CancelRun(q, k)
           \/ \E kind \in {"list", "get", "reset", "delete"} : AskFor(kind, k)
    PROVE  BInv'
<1>1. ASSUME NEW q \in Requests, PostPrompt(q, k) \/ WatchRun(q, k) \/ CancelRun(q, k)
      PROVE  BInv'
  <2>1. CASE PostPrompt(q, k)
    BY <2>1, ArriveBInv DEF PostPrompt, Asked
  <2>2. CASE WatchRun(q, k)
    BY <2>2, ArriveBInv DEF WatchRun, Asked
  <2>3. CASE CancelRun(q, k)
    BY <2>3, ArriveBInv DEF CancelRun, Asked
  <2> QED BY <1>1, <2>1, <2>2, <2>3
<1>2. ASSUME NEW kind \in Asked, AskFor(kind, k)
      PROVE  BInv'
  BY <1>2, ArriveBInv DEF AskFor
<1> QED BY <1>1, <1>2 DEF Asked

\* Calls and session stay as they are.
LEMMA StillFits ==
    ASSUME BInv, UNCHANGED <<file, memory, runs, tail, calls>>
    PROVE  BInv'
<1>1. RunsFit' /\ TranscriptsFit' /\ MakingFits'
  BY DEF memory, BInv, RunsFit, TranscriptsFit, MakingFits, Idle, Looking, IsAt, Working, KeepsAll,
     Lasting, CopyOf, Contains
<1>2. ASSUME NEW j \in Calls
      PROVE  CallFits(j)'
  <2>1. CallFits(j)
    BY DEF BInv
  <2>2. LoadFits(j)' /\ WorkFits(j)'
    BY <2>1 DEF CallFits, LoadFits, WorkFits, Locks, NothingRuns, Working, memory
  <2>3. CopyFits(j)'
    BY <2>1 DEF CallFits, CopyFits, KeepsAll, Lasting, Contains, CopyOf, memory
  <2> QED BY <2>1, <2>2, <2>3 DEF CallFits, Covers, memory
<1> QED BY <1>1, <1>2 DEF BInv

\* Nothing is in the session that is made, and it is what is written.
LEMMA CreateSessionBInv ==
    ASSUME AInv, BInv, NEW k \in Calls, CreateSession(k)
    PROVE  BInv'
<1>1. /\ file = NoFile /\ active = 0 /\ runs = <<>>
      /\ calls \in [Calls -> CallRecords]
  <2>1. objects = <<>> /\ file = NoFile /\ SessionOK /\ CallsOK
    BY DEF CreateSession, AInv
  <2>2. /\ DOMAIN objects = {} /\ Len(objects) = 0
        /\ runs \in Seq(RunRecords) /\ active \in 0 .. Len(objects)
    BY <2>1 DEF SessionOK
  <2>3. DOMAIN runs = {}
    BY <2>1, <2>2 DEF SessionOK
  <2>4. runs = <<>>
    BY <2>2, <2>3
  <2> QED BY <2>1, <2>2, <2>4 DEF CallsOK
<1>2. \A j \in Calls : Idle(j) \/ Looking(j)
  BY <1>1 DEF CreateSession, AInv, FirstOK, Unmet
<1>3. PICK copy : copy = [messages |-> <<>>, context |-> revision]
  OBVIOUS
<1>4. PICK call :
         call = [NoCall EXCEPT !.kind = "create", !.phase = "operate", !.at = "save", !.copy = copy]
  OBVIOUS
<1>5. /\ call.kind = "create" /\ call.phase = "operate" /\ call.at = "save" /\ call.object = 0
      /\ call.copy = copy /\ call.context = 0
  BY <1>4 DEF NoCall
<1>6. calls' = [calls EXCEPT ![k] = call]
  BY <1>3, <1>4 DEF CreateSession
<1>7. calls'[k] = call /\ Others(k)
  BY <1>1, <1>6 DEF Others
<1>8. /\ runs' = <<>> /\ DOMAIN runs' = {} /\ file' = NoFile /\ active' = 1
      /\ objects'[1] = [messages |-> <<>>, context |-> revision, run |-> 0]
  BY <1>1 DEF CreateSession
<1>9. NothingRuns' /\ RunsFit' /\ \A messages : KeepsAll(messages)'
  BY <1>8 DEF NothingRuns, RunsFit, KeepsAll
<1>10. KeepsAll(objects[active].messages)' /\ KeepsAll(calls[k].copy.messages)'
  BY <1>8 DEF KeepsAll
<1>11. TranscriptsFit'
  BY <1>8, <1>10 DEF TranscriptsFit
<1>12. CallFits(k)'
  <2>1. CopyOf(active)' = copy
    BY <1>3, <1>8 DEF CopyOf, CreateSession
  <2>2. LoadFits(k)' /\ WorkFits(k)' /\ CopyFits(k)'
    BY <1>5, <1>7, <1>8, <1>9, <1>10, <2>1 DEF LoadFits, WorkFits, CopyFits, Locks
  <2>3. revision \in Nat
    BY DEF AInv, SessionOK
  <2>4. Covers(calls[k].context)'
    BY <1>5, <1>7, <1>8, <2>3 DEF Covers
  <2> QED BY <2>2, <2>4 DEF CallFits
<1>13. ASSUME NEW j \in Calls \ {k}
       PROVE  CallFits(j)'
  <2>1. calls'[j] = calls[j]
    BY <1>7 DEF Others
  <2>2. CASE Idle(j)
    BY <2>1, <2>2, IdleFits DEF Idle
  <2>3. CASE Looking(j)
    BY <2>1, <2>3 DEF Looking, IsAt, CallFits, LoadFits, WorkFits, CopyFits, Locks
  <2> QED BY <1>2, <2>2, <2>3
<1>14. MakingFits'
  <2>1. ASSUME NEW j \in Calls \ {k}
        PROVE  (Idle(j)' \/ Looking(j)') /\ calls'[j].kind # "create"
    BY <1>2, <1>7, NoCallIs, LookersList DEF Others, Idle, Looking, IsAt
  <2> QED BY <1>8, <2>1 DEF MakingFits
<1> QED BY <1>9, <1>11, <1>12, <1>13, <1>14 DEF BInv

\* What was answered is in the file, and nobody is on the way to it.
LEMMA RestartBInv ==
    ASSUME AInv, BInv, Restart
    PROVE  BInv'
<1>1. /\ DOMAIN runs' = DOMAIN runs
      /\ \A r \in DOMAIN runs :
            /\ runs'[r].at \in {"ended", "gone"}
            /\ runs'[r].result = runs[r].result /\ runs'[r].cleared = runs[r].cleared
  BY RestartIs DEF AInv
<1>2. active' = 0 /\ file' = file /\ \A k \in Calls : calls'[k] = NoCall
  BY DEF Restart
<1>3. RunsFit'
  BY <1>1, <1>2 DEF RunsFit, Working
<1>4. TranscriptsFit'
  <2>1. file' # NoFile => KeepsAll(file.messages)'
    BY <1>1, <1>2 DEF BInv, TranscriptsFit, KeepsAll, Lasting
  <2> QED BY <1>1, <1>2, <2>1 DEF TranscriptsFit
<1>5. MakingFits' /\ \A k \in Calls : CallFits(k)'
  BY <1>2, NoCallIs, IdleFits DEF MakingFits
<1> QED BY <1>3, <1>4, <1>5 DEF BInv

LEMMA InitFits == AgentInit => BInv
<1> SUFFICES ASSUME AgentInit PROVE BInv
  OBVIOUS
<1>1. runs = <<>> /\ DOMAIN runs = {} /\ active = 0 /\ \A k \in Calls : calls[k] = NoCall
  BY DEF AgentInit
<1>2. RunsFit /\ TranscriptsFit
  BY <1>1 DEF RunsFit, TranscriptsFit, KeepsAll
<1>3. MakingFits /\ \A k \in Calls : CallFits(k)
  BY <1>1, NoCallIs DEF MakingFits, CallFits, LoadFits, WorkFits, CopyFits, Locks
<1> QED BY <1>2, <1>3 DEF BInv

LEMMA BInvKept ==
    ASSUME AInv, BInv, ~crossed', [AgentNext]_agentVars
    PROVE  BInv'
<1>1. ASSUME NEW k \in Calls, CallStep(k) \/ FailWrite(k)
      PROVE  BInv'
  BY <1>1, LoadBInv, InstallBInv, AuthorizeBInv, RefreshBInv, InstallRefreshedBInv,
     ContinueBInv, ListSessionBInv, GetSessionBInv, ReplayRunBInv, RefusePromptBInv,
     StartPromptRunBInv, ObserveRunBInv, SendOutcomeBInv, LookUpRunBInv, AbortRunBInv,
     InterruptBInv, ResetSessionBInv, DeleteSessionBInv, SaveBInv, RemoveBInv, FailWriteBInv
     DEF CallStep
<1>2. ASSUME NEW r \in DOMAIN runs, RunStep(r) \/ RunFails(r)
      PROVE  BInv'
  BY <1>2, AgentAnswersBInv, CompleteRunBInv, FailRunBInv, RunFailsBInv DEF RunStep
<1>3. CASE Browse
  BY <1>3, BrowseBInv, CreateSessionBInv DEF Browse
<1>4. ASSUME NEW q \in Requests, LoseAnswer(q)
      PROVE  BInv'
  BY <1>4, StillFits DEF LoseAnswer
<1>5. CASE TaskChanges
  BY <1>5, StillFits DEF TaskChanges
<1>6. CASE UNCHANGED agentVars
  BY <1>6, StillFits DEF agentVars
<1> QED BY <1>1, <1>2, <1>3, <1>4, <1>5, <1>6, RestartBInv DEF AgentNext

\* What was overtaken stays overtaken.
LEMMA CrossedLasts ==
    ASSUME [AgentNext]_agentVars, ~crossed'
    PROVE  ~crossed
<1>1. ASSUME NEW k \in Calls, CallStep(k) \/ FailWrite(k)
      PROVE  crossed => crossed'
  <2>1. CASE Load(k) \/ Authorize(k) \/ Refresh(k) \/ InstallRefreshed(k) \/ Continue(k)
    BY <2>1 DEF Load, Authorize, Refresh, InstallRefreshed, Continue
  <2>2. CASE Install(k) \/ ListSession(k) \/ GetSession(k)
    BY <2>2 DEF Install, ListSession, GetSession
  <2>3. CASE ReplayRun(k) \/ RefusePrompt(k) \/ StartPromptRun(k)
    BY <2>3 DEF ReplayRun, RefusePrompt, StartPromptRun
  <2>4. CASE ObserveRun(k) \/ SendOutcome(k) \/ LookUpRun(k) \/ AbortRun(k)
    BY <2>4 DEF ObserveRun, SendOutcome, LookUpRun, AbortRun
  <2>5. CASE Interrupt(k) \/ ResetSession(k) \/ DeleteSession(k)
    BY <2>5 DEF Interrupt, ResetSession, DeleteSession
  <2>6. CASE Save(k) \/ Remove(k) \/ FailWrite(k)
    BY <2>6 DEF Save, Remove, FailWrite
  <2> QED BY <1>1, <2>1, <2>2, <2>3, <2>4, <2>5, <2>6 DEF CallStep
<1>2. ASSUME NEW r \in DOMAIN runs, RunStep(r) \/ RunFails(r)
      PROVE  crossed' = crossed
  BY <1>2 DEF RunStep, RunFails, AgentAnswers, CompleteRun, FailRun, EndRun
<1>3. CASE Browse
  BY <1>3 DEF Browse, PostPrompt, WatchRun, CancelRun, AskFor, Arrive, CreateSession
<1>4. CASE TaskChanges \/ Restart \/ \E q \in Requests : LoseAnswer(q)
  BY <1>4 DEF TaskChanges, Restart, LoseAnswer
<1>5. CASE UNCHANGED agentVars
  BY <1>5 DEF agentVars
<1> QED BY <1>1, <1>2, <1>3, <1>4, <1>5 DEF AgentNext

LEMMA AgentFits == AgentSpec => [](AInv /\ (crossed \/ BInv))
<1>1. AInv /\ (crossed \/ BInv) /\ [AgentNext]_agentVars => (AInv /\ (crossed \/ BInv))'
  BY AInvKept, BInvKept, CrossedLasts
<1>2. AgentInit => AInv /\ BInv
  BY InitIsSound, InitFits
<1> QED BY <1>1, <1>2, PTL DEF AgentSpec

-----------------------------------------------------------------------------
(* A prompt is answered once *)

\* Runs do not go, and what was noted of them stays.
RunsLast ==
    /\ DOMAIN runs' = DOMAIN runs /\ Len(runs') = Len(runs)
    /\ \A r \in DOMAIN runs :
          /\ runs'[r].request = runs[r].request
          /\ runs[r].cleared => runs'[r].cleared
          /\ runs[r].forgotten => runs'[r].forgotten

AnsweredOnce ==
    \A r, o \in DOMAIN runs :
        r < o /\ runs[r].request = runs[o].request => runs[r].cleared \/ runs[r].forgotten

\* Only a prompt makes a run.
LEMMA OnlyPromptsStart ==
    ASSUME AInv, [AgentNext]_agentVars
    PROVE  RunsLast \/ \E k \in Calls : StartPromptRun(k)
<1>0. runs \in Seq(RunRecords)
  BY DEF AInv, SessionOK
<1>1. ASSUME runs' = runs
      PROVE  RunsLast
  BY <1>1 DEF RunsLast
<1>2. ASSUME NEW k \in Calls, AbortRun(k)
      PROVE  RunsLast
  BY <1>2, Cancelled DEF RunsLast
<1>3. ASSUME runs' = Forget
      PROVE  RunsLast
  <2>1. ASSUME NEW r \in DOMAIN runs
        PROVE  runs'[r].forgotten = runs[r].forgotten
    <3>1. PICK run \in RunRecords : run = runs[r]
      BY <1>0
    <3>2. runs'[r] = [run EXCEPT !.cleared = TRUE]
      BY <1>3, <3>1 DEF Forget
    <3> QED BY <3>1, <3>2 DEF RunRecords
  <2> QED BY <1>0, <1>3, <2>1, RunsForgotten DEF RunsLast
<1>4. CASE Restart
  BY <1>4, RestartIs DEF RunsLast, AInv
<1>5. ASSUME NEW r \in DOMAIN runs, AgentAnswers(r)
      PROVE  RunsLast
  BY <1>5, AnswerIs DEF RunsLast
<1>6. ASSUME NEW r \in DOMAIN runs, RunFails(r)
      PROVE  RunsLast
  BY <1>6, FailureIs DEF RunsLast
<1>7. ASSUME NEW r \in DOMAIN runs, CompleteRun(r) \/ FailRun(r)
      PROVE  RunsLast
  <2>1. PICK result \in {"completed", "aborted", "failed"} : EndRun(r, result)
    BY <1>7 DEF CompleteRun, FailRun
  <2> QED BY <2>1, EndIs DEF RunsLast
<1>8. ASSUME NEW k \in Calls, CallStep(k), ~StartPromptRun(k)
      PROVE  RunsLast
  <2>1. runs' = runs \/ runs' = Forget \/ AbortRun(k)
    BY <1>8 DEF CallStep, Load, Install, Authorize, Refresh, InstallRefreshed, Continue,
       ListSession, GetSession, ReplayRun, RefusePrompt, ObserveRun, SendOutcome, LookUpRun,
       Interrupt, ResetSession, DeleteSession, Save, Remove
  <2> QED BY <1>1, <1>2, <1>3, <2>1
<1>9. CASE Browse
  <2>1. runs' = runs
    BY <1>9 DEF Browse, PostPrompt, WatchRun, CancelRun, AskFor, Arrive, CreateSession
  <2> QED BY <1>1, <2>1
<1>10. ASSUME NEW k \in Calls, FailWrite(k)
       PROVE  RunsLast
  <2>1. runs' = runs
    BY <1>10 DEF FailWrite
  <2> QED BY <1>1, <2>1
<1> QED BY <1>1, <1>4, <1>5, <1>6, <1>7, <1>8, <1>9, <1>10
        DEF AgentNext, RunStep, LoseAnswer, TaskChanges, agentVars

\* A run of a prompt that has one that still counts is not made: the journal
\* has the one, or the prompt has expired.
LEMMA AnsweredOnceKept ==
    ASSUME AInv, AnsweredOnce, [AgentNext]_agentVars
    PROVE  AnsweredOnce'
<1>1. CASE RunsLast
  BY <1>1 DEF RunsLast, AnsweredOnce
<1>2. ASSUME NEW k \in Calls, StartPromptRun(k)
      PROVE  AnsweredOnce'
  <2>1. PICK n \in Nat : n = Len(runs) + 1
    BY DEF AInv, SessionOK
  <2>2. /\ \A r \in DOMAIN runs : runs'[r] = runs[r] /\ r \in Nat /\ r < n
        /\ runs'[n].request = calls[k].request
        /\ DOMAIN runs' = DOMAIN runs \cup {n}
    <3>1. /\ \A r \in DOMAIN runs : runs'[r] = runs[r]
          /\ runs'[n] = NewRun(calls[k].request, Object(k))
          /\ Len(runs') = n /\ runs' \in Seq(RunRecords) /\ runs \in Seq(RunRecords)
      BY <1>2, <2>1, Started DEF AInv, SessionOK
    <3> QED BY <2>1, <3>1 DEF NewRun
  <2>3. ASSUME NEW r \in DOMAIN runs, runs[r].request = calls[k].request
        PROVE  runs[r].cleared \/ runs[r].forgotten
    BY <1>2, <2>3 DEF StartPromptRun, Remembered, AInv, RememberedOK
  <2>4. ASSUME NEW r \in DOMAIN runs', NEW o \in DOMAIN runs', r < o,
               runs'[r].request = runs'[o].request
        PROVE  runs'[r].cleared \/ runs'[r].forgotten
    <3>1. CASE o = n
      <4>1. r \in DOMAIN runs
        BY <2>2, <2>4, <3>1
      <4> QED BY <2>2, <2>3, <2>4, <3>1, <4>1
    <3>2. CASE o \in DOMAIN runs
      <4>1. r \in DOMAIN runs
        BY <2>2, <2>4, <3>2
      <4> QED BY <2>2, <2>4, <3>2, <4>1 DEF AnsweredOnce
    <3> QED BY <2>2, <3>1, <3>2
  <2> QED BY <2>4 DEF AnsweredOnce
<1> QED BY <1>1, <1>2, OnlyPromptsStart

\* However often a prompt is posted, and in whatever order its answers are lost
\* and its calls are worked at, it is answered once until the session is reset
\* or the server stops.  This needs nothing of how the session is loaded.
THEOREM PromptsAnsweredOnce == AgentSpec => []AnsweredOnce
<1>1. AInv /\ AnsweredOnce /\ [AgentNext]_agentVars => AnsweredOnce'
  BY AnsweredOnceKept
<1>2. AgentInit => AnsweredOnce
  BY DEF AgentInit, AnsweredOnce
<1> QED BY <1>1, <1>2, AgentSound, PTL DEF AgentSpec

-----------------------------------------------------------------------------
(* What holds of the agent's sessions *)

\* The variables of a session have values of their kinds: nobody stands twice in
\* the queue of its lock, who stands there is a call at work, and the journal
\* names runs there are.  This needs nothing of how the session is loaded.
THEOREM AgentTypesHold == AgentSpec => []AgentTypeOK
<1>1. AInv => AgentTypeOK
  <2> SUFFICES ASSUME AInv PROVE AgentTypeOK
    OBVIOUS
  <2>1. ASSUME NEW o \in DOMAIN objects
        PROVE  CopyOf(o) \in Transcript /\ objects[o].run \in 0 .. Len(runs)
    <3>1. objects[o] \in ObjectRecords
      BY DEF AInv, SessionOK
    <3> QED BY <3>1 DEF CopyOf, Transcript, ObjectRecords, AInv, SessionOK
  <2>2. ASSUME NEW i \in DOMAIN tail
        PROVE  ~Idle(tail[i])
    <3>1. tail[i] \in Calls
      BY DEF AInv, QueueOK
    <3>2. Locks(tail[i])
      BY <3>1 DEF AInv, QueueOK, InTail
    <3>3. PICK k \in Calls : k = tail[i]
      BY <3>1
    <3>4. ~Idle(k)
      BY <3>2, <3>3, NotIdle DEF Locks
    <3> QED BY <3>3, <3>4 DEF Idle
  <2>3. \A k \in Calls : calls[k].copy \in {NoFile} \cup Transcript
    BY DEF AInv, CallsOK, CallRecords, CallPhases, CallPlaces
  <2> QED BY <2>1, <2>2, <2>3 DEF AgentTypeOK, AInv, SessionOK, QueueOK
<1> QED BY <1>1, AgentSound, PTL

\* A session answers one prompt at a time as long as no load of it was overtaken
\* and its creation was not listed half way, and every prompt once in any case.
THEOREM OneRunHolds == AgentSpec => []OneRunAtATime
<1>1. AInv /\ (crossed \/ BInv) /\ AnsweredOnce => OneRunAtATime
  <2> SUFFICES ASSUME AInv, crossed \/ BInv, AnsweredOnce PROVE OneRunAtATime
    OBVIOUS
  <2>1. ~crossed => \A r, o \in DOMAIN runs : Working(r) /\ Working(o) => r = o
    BY DEF BInv, RunsFit
  <2>2. \A r \in DOMAIN runs : r \in Nat
    BY RunIsLate
  <2> QED BY <2>1, <2>2 DEF OneRunAtATime, RefusesConcurrentPrompts, AnsweredOnce
<1> QED BY <1>1, AgentFits, PromptsAnsweredOnce, PTL

\* What a run has answered stays in memory and in the file: a reload, a refresh
\* or a write that is under way has it as well.
THEOREM AnswersHold == AgentSpec => []AnswersAreKept
<1>1. (crossed \/ BInv) /\ AgentTypeOK => AnswersAreKept
  BY DEF BInv, TranscriptsFit, AnswersAreKept, KeepsAll, Lasting
<1> QED BY <1>1, AgentFits, AgentTypesHold, PTL

\* A run starts in the session's object, which was refreshed when its caller
\* was authorized or later.
THEOREM CurrentContextHolds == AgentSpec => RunsOnCurrentContext
<1>1. ASSUME AInv, BInv, [AgentNext]_agentVars
      PROVE  Len(runs') > Len(runs) =>
                /\ tail # <<>>
                /\ objects[runs'[Len(runs')].object].context >= calls[Head(tail)].context
  <2>1. CASE RunsLast
    <3>1. Len(runs') = Len(runs) /\ Len(runs) \in Nat
      BY <1>1, <2>1 DEF RunsLast, AInv, SessionOK
    <3> QED BY <3>1
  <2>2. ASSUME NEW k \in Calls, StartPromptRun(k)
        PROVE  /\ tail # <<>>
               /\ objects[runs'[Len(runs')].object].context >= calls[Head(tail)].context
    <3>1. Holds(k) /\ Object(k) = active /\ active # 0 /\ Covers(calls[k].context)
      BY <1>1, <2>2, StartsInActive
    <3>2. runs'[Len(runs')].object = active
      <4>1. PICK n \in Nat : n = Len(runs) + 1
        BY <1>1 DEF AInv, SessionOK
      <4>2. Len(runs') = n /\ runs'[n] = NewRun(calls[k].request, Object(k))
        BY <1>1, <2>2, <4>1, Started
      <4> QED BY <3>1, <4>2 DEF NewRun, StartPromptRun
    <3> QED BY <3>1, <3>2 DEF Holds, Covers
  <2> QED BY <1>1, <2>1, <2>2, OnlyPromptsStart
<1>2. ASSUME AInv, crossed \/ BInv, [AgentNext]_agentVars
      PROVE  Len(runs') > Len(runs) /\ ~crossed =>
                /\ tail # <<>>
                /\ objects[runs'[Len(runs')].object].context >= calls[Head(tail)].context
  BY <1>1, <1>2
<1> QED BY <1>2, AgentFits, PTL DEF AgentSpec, RunsOnCurrentContext

\* Nothing that is still under way when a session is removed brings it back,
\* but a load that has read it before.
THEOREM RemovalHolds == AgentSpec => RemovedStaysRemoved
<1>1. ASSUME AInv, BInv, [AgentNext]_agentVars, objects # <<>>, file = NoFile, active = 0,
             ~crossed'
      PROVE  file' = NoFile /\ active' = 0
  <2>1. NothingRuns
    BY <1>1 DEF BInv, RunsFit, NothingRuns
  <2>2. \A k \in Calls : /\ calls[k].at \notin {"refresh", "save"}
                         /\ calls[k].at = "install" => calls[k].copy # NoFile
    BY <1>1 DEF BInv, CallFits, LoadFits
  <2>3. ASSUME NEW k \in Calls, Install(k)
        PROVE  FALSE
    BY <1>1, <2>2, <2>3 DEF Install, Overtaken
  <2>4. ASSUME NEW k \in Calls, CallStep(k)
        PROVE  file' = NoFile /\ active' = 0
    BY <1>1, <2>2, <2>3, <2>4 DEF memory, CallStep, Load, Authorize, Refresh,
       InstallRefreshed, Continue, ListSession, GetSession, ReplayRun, RefusePrompt,
       StartPromptRun, ObserveRun, SendOutcome, LookUpRun, AbortRun, Interrupt, ResetSession,
       DeleteSession, Save, Remove
  <2>5. ASSUME NEW r \in DOMAIN runs, RunStep(r) \/ RunFails(r)
        PROVE  FALSE
    BY <2>1, <2>5 DEF NothingRuns, Working, RunStep, AgentAnswers, CompleteRun, FailRun, RunFails
  <2>6. CASE Browse
    BY <1>1, <2>6 DEF memory, Browse, PostPrompt, WatchRun, CancelRun, AskFor, Arrive,
       CreateSession
  <2> QED BY <1>1, <2>4, <2>5, <2>6
          DEF AgentNext, FailWrite, LoseAnswer, TaskChanges, Restart, memory, agentVars
<1>2. ASSUME AInv, crossed \/ BInv, [AgentNext]_agentVars
      PROVE  objects # <<>> /\ file = NoFile /\ active = 0 /\ ~crossed' =>
                file' = NoFile /\ active' = 0
  BY <1>1, <1>2, CrossedLasts
<1> QED BY <1>2, AgentFits, PTL DEF AgentSpec, RemovedStaysRemoved
=============================================================================

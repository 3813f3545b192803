------------------------ MODULE MediaArtifactsProofs ------------------------
(***************************************************************************)
(* The registrations of media artifacts, for any tasks, ids, accounts and  *)
(* any number of calls: the locks alone keep the versions of a stage dense *)
(* and the rows apart, and nobody waits in a circle for them.  Two calls   *)
(* that hold the same kind of lock hold different ones, so that what a     *)
(* call has found out under a lock stays true until it lets the lock go.   *)
(***************************************************************************)
EXTENDS MediaArtifacts, TLAPS

Fields == {"kind", "step", "actor", "media", "request", "locks", "number",
           "answer", "reference"}

Shape ==
    /\ DOMAIN calls = Calls
    /\ \A n \in Calls : DOMAIN calls[n] = Fields

\* What the place of a call says of the call
CallOK(c) ==
    /\ c.kind = "register" =>
          c.media \in Candidates /\ c.actor \in Accounts /\ c.request \in Requests
    /\ c.locks \in 0 .. 4
    /\ c.locks > 0 =>
          /\ c.kind = "register"
          /\ c.step \in {"locking", "locked", "checked", "numbered"}
    /\ c.step = "locking" => c.kind = "register" /\ c.locks \in 0 .. 3
    /\ c.step \in {"locked", "checked", "numbered"} => c.locks = 4
    /\ c.answer # "collision"

\* Two calls do not hold the same lock.
Apart(c, d) ==
    /\ c.locks > 0 /\ d.locks > 0 =>
          ~(c.media.task = d.media.task /\ c.actor = d.actor /\ c.request = d.request)
    /\ c.locks > 1 /\ d.locks > 1 =>
          ~(c.media.task = d.media.task /\ c.media.stage = d.media.stage)
    /\ c.locks > 2 /\ d.locks > 2 => c.media.id # d.media.id

\* The versions of a stage in a table (VersionsOf, of the rows)
Numbers(table, t, s) ==
    {r.version : r \in {q \in table : q.media.task = t /\ q.media.stage = s}}

\* What a call has found out in the table under its locks
Found(c, table) ==
    /\ c.locks > 0 =>
          \A r \in table : ~(/\ r.media.task = c.media.task
                             /\ r.actor = c.actor /\ r.request = c.request)
    /\ c.step \in {"checked", "numbered"} =>
          \A r \in table : r.media.id # c.media.id
    /\ c.step = "numbered" =>
          /\ c.number \in Nat \ {0}
          /\ Numbers(table, c.media.task, c.media.stage) = 1 .. (c.number - 1)

CallsOK == \A n \in Calls : CallOK(calls[n]) /\ Found(calls[n], rows)

CallsApart == \A n \in Calls : \A m \in Calls \ {n} : Apart(calls[n], calls[m])

RowsDiffer ==
    \A r \in rows, q \in rows : r # q =>
        /\ r.media.id # q.media.id
        /\ r.media.task = q.media.task =>
            /\ r.media.stage = q.media.stage => r.version # q.version
            /\ ~(r.actor = q.actor /\ r.request = q.request)

Dense ==
    \A t \in Tasks, s \in Stages :
        \E k \in Nat : Numbers(rows, t, s) = 1 .. k

RowsOK == rows \subseteq Rows /\ RowsDiffer /\ Dense

IInv == Shape /\ CallsOK /\ CallsApart /\ RowsOK

-----------------------------------------------------------------------------
(* Locks.                                                                  *)

\* The kind of a lock tells where it is in the order.
LEMMA LockKinds ==
    ASSUME NEW c, NEW d, NEW i \in 1 .. 4, NEW j \in 1 .. 4,
           LockKeys(c)[i] = LockKeys(d)[j]
    PROVE  i = j
<1>1. /\ LockKeys(c)[i][1] = <<"request", "version", "id", "object">>[i]
      /\ LockKeys(d)[j][1] = <<"request", "version", "id", "object">>[j]
  BY DEF LockKeys
<1> QED BY <1>1

\* A lock that is free is not the one another call holds of that kind.
LEMMA FreeIsApart ==
    ASSUME NEW n \in Calls, NEW m \in Calls \ {n}, NEW i \in 1 .. 4,
           LockIsFree(n, LockKeys(calls[n])[i]),
           calls[m].locks \in 0 .. 4, calls[m].locks >= i
    PROVE  LockKeys(calls[n])[i] # LockKeys(calls[m])[i]
  BY DEF LockIsFree, Holds

\* Taking the next lock keeps a call apart from the others.
LEMMA TakesApart ==
    ASSUME IInv, NEW n \in Calls, NEW i \in 1 .. 4,
           calls[n].locks = i - 1, LockIsFree(n, LockKeys(calls[n])[i]),
           NEW m \in Calls \ {n}, NEW c,
           c.locks = i, c.media = calls[n].media, c.actor = calls[n].actor,
           c.request = calls[n].request
    PROVE  Apart(c, calls[m]) /\ Apart(calls[m], c)
<1> DEFINE d == calls[n]
           e == calls[m]
<1>1. e.locks \in 0 .. 4 /\ Apart(d, e) /\ Apart(e, d)
  BY DEF IInv, CallsOK, CallOK, CallsApart
<1>2. e.locks >= i => LockKeys(d)[i] # LockKeys(e)[i]
  BY <1>1, FreeIsApart
<1>3. i = 1 /\ e.locks >= 1 =>
        ~(d.media.task = e.media.task /\ d.actor = e.actor /\ d.request = e.request)
  BY <1>2 DEF LockKeys
<1>4. i = 2 /\ e.locks >= 2 =>
        ~(d.media.task = e.media.task /\ d.media.stage = e.media.stage)
  BY <1>2 DEF LockKeys
<1>5. i = 3 /\ e.locks >= 3 => d.media.id # e.media.id
  BY <1>2 DEF LockKeys
<1> QED BY <1>1, <1>3, <1>4, <1>5 DEF Apart

-----------------------------------------------------------------------------
(* Steps that leave the rows alone.                                        *)

\* One call moves, the rows stay: it is enough to look at that call.
LEMMA OneMoves ==
    ASSUME IInv, NEW n \in Calls, UNCHANGED rows, Shape',
           \A m \in Calls \ {n} : calls'[m] = calls[m],
           CallOK(calls'[n]), Found(calls'[n], rows'),
           \A m \in Calls \ {n} :
              Apart(calls'[n], calls[m]) /\ Apart(calls[m], calls'[n])
    PROVE  IInv'
<1>1. \A m \in Calls \ {n} : CallOK(calls'[m]) /\ Found(calls'[m], rows')
  BY DEF IInv, CallsOK
<1>2. CallsOK'
  BY <1>1 DEF CallsOK
<1>3. CallsApart'
  BY DEF IInv, CallsApart
<1>4. RowsOK'
  BY DEF IInv, RowsOK, RowsDiffer, Dense
<1> QED BY <1>2, <1>3, <1>4 DEF IInv

\* A call that holds nothing is apart from all.
LEMMA HoldsNothing ==
    ASSUME IInv, NEW n \in Calls, UNCHANGED rows, Shape',
           \A m \in Calls \ {n} : calls'[m] = calls[m],
           CallOK(calls'[n]), calls'[n].locks = 0,
           calls'[n].step \notin {"checked", "numbered"}
    PROVE  IInv'
<1>1. /\ Found(calls'[n], rows')
      /\ \A m \in Calls \ {n} :
            Apart(calls'[n], calls[m]) /\ Apart(calls[m], calls'[n])
  BY DEF Found, Apart
<1> QED BY <1>1, OneMoves

\* A failure, and the answer of a row
LEMMA FailsKeeps ==
    ASSUME IInv, NEW n \in Calls, NEW answer, answer # "collision",
           Fails(n, answer), UNCHANGED rows
    PROVE  IInv'
<1>1. /\ Shape' /\ \A m \in Calls \ {n} : calls'[m] = calls[m]
      /\ calls'[n].kind = "failed" /\ calls'[n].step = "ended"
      /\ calls'[n].locks = 0 /\ calls'[n].answer = answer
  BY DEF IInv, Shape, Fields, Fails, Ended
<1>2. CallOK(calls'[n])
  BY <1>1 DEF CallOK
<1> QED BY <1>1, <1>2, HoldsNothing

\* A call that holds the same, and knows what its new place says
LEMMA HoldsTheSame ==
    ASSUME IInv, NEW n \in Calls, UNCHANGED rows, Shape',
           \A m \in Calls \ {n} : calls'[m] = calls[m],
           calls'[n].media = calls[n].media, calls'[n].actor = calls[n].actor,
           calls'[n].request = calls[n].request,
           calls'[n].locks = calls[n].locks,
           CallOK(calls'[n]), Found(calls'[n], rows')
    PROVE  IInv'
<1>1. \A m \in Calls \ {n} :
        Apart(calls'[n], calls[m]) /\ Apart(calls[m], calls'[n])
  BY DEF IInv, CallsApart, Apart
<1> QED BY <1>1, OneMoves

LEMMA RegisterKeeps ==
    ASSUME IInv, NEW n \in Calls, NEW a \in Accounts, NEW media \in Candidates,
           NEW request \in Requests, Register(n, a, media, request)
    PROVE  IInv'
<1>1. /\ Shape' /\ UNCHANGED rows
      /\ \A m \in Calls \ {n} : calls'[m] = calls[m]
      /\ calls'[n].kind = "register" /\ calls'[n].step = "authorized"
      /\ calls'[n].locks = 0 /\ calls'[n].answer = "none"
      /\ calls'[n].media = media /\ calls'[n].actor = a
      /\ calls'[n].request = request
  BY DEF IInv, Shape, Fields, Register, Unused
<1>2. CallOK(calls'[n])
  BY <1>1 DEF CallOK
<1> QED BY <1>1, <1>2, HoldsNothing

LEMMA VerifyKeeps ==
    ASSUME IInv, NEW n \in Calls, Verify(n)
    PROVE  IInv'
<1>1. CASE Fails(n, "not ready")
  BY <1>1, FailsKeeps DEF Verify
<1>2. CASE Goes(n, "locking")
  <2>1. /\ Shape' /\ UNCHANGED rows
        /\ \A m \in Calls \ {n} : calls'[m] = calls[m]
        /\ calls'[n] = [calls[n] EXCEPT !.step = "locking"]
    BY <1>2 DEF IInv, Shape, Fields, Verify, Goes
  <2>2. CallOK(calls[n]) /\ DOMAIN calls[n] = Fields
        /\ calls[n].kind = "register" /\ calls[n].step = "authorized"
    BY DEF IInv, CallsOK, Shape, Verify, Registering
  <2>3. CallOK(calls'[n]) /\ calls'[n].locks = 0 /\ calls'[n].step = "locking"
    BY <2>1, <2>2 DEF CallOK, Fields
  <2> QED BY <2>1, <2>3, HoldsNothing
<1> QED BY <1>1, <1>2 DEF Verify

LEMMA LockRequestKeeps ==
    ASSUME IInv, NEW n \in Calls, LockRequest(n)
    PROVE  IInv'
<1> DEFINE c == calls[n]
<1>1. /\ CallOK(c) /\ DOMAIN c = Fields /\ c.kind = "register"
      /\ c.step = "locking" /\ c.locks = 0
      /\ LockIsFree(n, LockKeys(c)[1]) /\ UNCHANGED rows
  BY DEF IInv, CallsOK, Shape, LockRequest, Registering
<1>2. CASE Replays(c) = {} /\ calls' = [calls EXCEPT ![n].locks = 1]
  <2>1. /\ Shape' /\ \A m \in Calls \ {n} : calls'[m] = calls[m]
        /\ calls'[n].locks = 1 /\ calls'[n].media = c.media
        /\ calls'[n].actor = c.actor /\ calls'[n].request = c.request
        /\ calls'[n].kind = "register" /\ calls'[n].step = "locking"
        /\ calls'[n].answer = c.answer
    BY <1>1, <1>2 DEF IInv, Shape, Fields
  <2>2. CallOK(calls'[n])
    BY <1>1, <2>1 DEF CallOK
  <2>3. Found(calls'[n], rows')
    BY <1>1, <1>2, <2>1 DEF Found, Replays
  <2>4. \A m \in Calls \ {n} :
          Apart(calls'[n], calls[m]) /\ Apart(calls[m], calls'[n])
    BY <1>1, <2>1, TakesApart
  <2> QED BY <1>1, <2>1, <2>2, <2>3, <2>4, OneMoves
<1>3. ASSUME NEW r \in Replays(c), Tells(n, "replayed", r)
      PROVE  IInv'
  <2>1. /\ Shape' /\ \A m \in Calls \ {n} : calls'[m] = calls[m]
        /\ calls'[n].locks = 0 /\ calls'[n].media = c.media
        /\ calls'[n].actor = c.actor /\ calls'[n].request = c.request
        /\ calls'[n].kind = "register" /\ calls'[n].step = "ended"
        /\ calls'[n].answer = "replayed"
    BY <1>1, <1>3 DEF IInv, Shape, Fields, Tells, Ended
  <2>2. CallOK(calls'[n])
    BY <1>1, <2>1 DEF CallOK
  <2> QED BY <1>1, <2>1, <2>2, HoldsNothing
<1>4. CASE Fails(n, "conflict")
  BY <1>1, <1>4, FailsKeeps
<1> QED BY <1>2, <1>3, <1>4 DEF LockRequest

LEMMA LockKeeps ==
    ASSUME IInv, NEW n \in Calls, Lock(n)
    PROVE  IInv'
<1> DEFINE c == calls[n]
           i == c.locks + 1
<1>1. /\ CallOK(c) /\ Found(c, rows) /\ DOMAIN c = Fields /\ c.kind = "register"
      /\ c.step = "locking" /\ c.locks \in 1 .. 3 /\ i \in 1 .. 4
      /\ LockIsFree(n, LockKeys(c)[i]) /\ UNCHANGED rows
  BY DEF IInv, CallsOK, Shape, Lock, Registering
<1>2. /\ Shape' /\ \A m \in Calls \ {n} : calls'[m] = calls[m]
      /\ calls'[n].locks = i /\ calls'[n].media = c.media
      /\ calls'[n].actor = c.actor /\ calls'[n].request = c.request
      /\ calls'[n].kind = "register" /\ calls'[n].answer = c.answer
      /\ calls'[n].step = IF c.locks = 3 THEN "locked" ELSE "locking"
  BY <1>1 DEF IInv, Shape, Fields, Lock
<1>3. CallOK(calls'[n])
  BY <1>1, <1>2 DEF CallOK
<1>4. Found(calls'[n], rows')
  BY <1>1, <1>2 DEF Found
<1>5. \A m \in Calls \ {n} :
        Apart(calls'[n], calls[m]) /\ Apart(calls[m], calls'[n])
  BY <1>1, <1>2, TakesApart
<1> QED BY <1>1, <1>2, <1>3, <1>4, <1>5, OneMoves

LEMMA FindConflictsKeeps ==
    ASSUME IInv, NEW n \in Calls, FindConflicts(n)
    PROVE  IInv'
<1> DEFINE c == calls[n]
<1>1. /\ CallOK(c) /\ Found(c, rows) /\ DOMAIN c = Fields /\ c.kind = "register"
      /\ c.step = "locked" /\ UNCHANGED rows
  BY DEF IInv, CallsOK, Shape, FindConflicts, Registering
<1>2. CASE Fails(n, "conflict")
  BY <1>1, <1>2, FailsKeeps
<1>3. CASE Goes(n, "checked") /\ ~\E r \in rows : r.media.id = c.media.id
  <2>1. /\ Shape' /\ \A m \in Calls \ {n} : calls'[m] = calls[m]
        /\ calls'[n].locks = c.locks /\ calls'[n].media = c.media
        /\ calls'[n].actor = c.actor /\ calls'[n].request = c.request
        /\ calls'[n].kind = "register" /\ calls'[n].answer = c.answer
        /\ calls'[n].step = "checked"
    BY <1>1, <1>3 DEF IInv, Shape, Fields, Goes
  <2>2. CallOK(calls'[n]) /\ Found(calls'[n], rows')
    BY <1>1, <1>3, <2>1 DEF CallOK, Found
  <2> QED BY <1>1, <2>1, <2>2, HoldsTheSame
<1> QED BY <1>2, <1>3 DEF FindConflicts

\* The next version follows the last.
LEMMA NextIsNext ==
    ASSUME IInv, NEW t \in Tasks, NEW s \in Stages
    PROVE  /\ NextVersion(t, s) \in Nat \ {0}
           /\ Numbers(rows, t, s) = 1 .. (NextVersion(t, s) - 1)
<1>1. PICK k \in Nat : Numbers(rows, t, s) = 1 .. k
  BY DEF IInv, RowsOK, Dense
<1> DEFINE versions == VersionsOf(t, s)
<1>2. versions = 1 .. k
  BY <1>1 DEF Numbers, VersionsOf
<1>3. NextVersion(t, s) =
        IF versions = {} THEN 1
        ELSE 1 + CHOOSE v \in versions : \A w \in versions : w <= v
  BY DEF NextVersion
<1> HIDE DEF versions
<1>4. CASE k = 0
  BY <1>1, <1>2, <1>3, <1>4
<1>5. CASE k > 0
  <2> DEFINE last == CHOOSE v \in versions : \A w \in versions : w <= v
  <2>1. k \in versions /\ \A w \in versions : w <= k
    BY <1>2, <1>5
  <2>2. last \in versions /\ \A w \in versions : w <= last
    BY <2>1
  <2>3. last = k
    BY <1>2, <2>1, <2>2
  <2>4. versions # {}
    BY <2>1
  <2> HIDE DEF last
  <2>5. NextVersion(t, s) = 1 + last
    BY <1>3, <2>4 DEF last
  <2> QED BY <1>1, <2>3, <2>5
<1> QED BY <1>4, <1>5

LEMMA AllocateVersionKeeps ==
    ASSUME IInv, NEW n \in Calls, AllocateVersion(n)
    PROVE  IInv'
<1> DEFINE c == calls[n]
           next == NextVersion(c.media.task, c.media.stage)
<1>1. /\ CallOK(c) /\ Found(c, rows) /\ DOMAIN c = Fields /\ c.kind = "register"
      /\ c.step = "checked" /\ UNCHANGED rows
  BY DEF IInv, CallsOK, Shape, AllocateVersion, Registering
<1>2. c.media.task \in Tasks /\ c.media.stage \in Stages
  BY <1>1 DEF CallOK, Candidates
<1>3. /\ next \in Nat \ {0}
      /\ Numbers(rows, c.media.task, c.media.stage) = 1 .. (next - 1)
  BY <1>2, NextIsNext
<1>4. /\ Shape' /\ \A m \in Calls \ {n} : calls'[m] = calls[m]
      /\ calls'[n].locks = c.locks /\ calls'[n].media = c.media
      /\ calls'[n].actor = c.actor /\ calls'[n].request = c.request
      /\ calls'[n].kind = "register" /\ calls'[n].answer = c.answer
      /\ calls'[n].step = "numbered" /\ calls'[n].number = next
  BY <1>1 DEF IInv, Shape, Fields, AllocateVersion
<1>5. CallOK(calls'[n])
  BY <1>1, <1>4 DEF CallOK
<1>6. Found(calls'[n], rows')
  BY <1>1, <1>3, <1>4 DEF Found
<1> QED BY <1>1, <1>4, <1>5, <1>6, HoldsTheSame

-----------------------------------------------------------------------------
(* The insert.                                                             *)

\* The table has no reason to refuse a row.
LEMMA NothingCollides ==
    ASSUME IInv, NEW n \in Calls, Registering(n, "numbered")
    PROVE  RowOf(calls[n]) \in Rows /\ ~Collides(RowOf(calls[n]))
<1> DEFINE c == calls[n]
           row == RowOf(c)
<1>1. CallOK(c) /\ Found(c, rows) /\ c.kind = "register" /\ c.step = "numbered"
  BY DEF IInv, CallsOK, Registering
<1>2. /\ row.media = c.media /\ row.version = c.number
      /\ row.actor = c.actor /\ row.request = c.request
      /\ c.number \in Nat \ {0}
  BY <1>1 DEF RowOf, Found
<1>3. row \in Rows
  BY <1>1, <1>2 DEF CallOK, Rows, RowOf
<1>4. ASSUME NEW r \in rows PROVE r.media.id # c.media.id
  BY <1>1 DEF Found
<1>5. ASSUME NEW r \in rows PROVE Key(r.media) # Key(c.media)
  BY <1>4 DEF Key
<1>6. ASSUME NEW r \in rows, r.media.task = c.media.task,
             r.media.stage = c.media.stage
      PROVE  r.version # c.number
  <2>1. r.version \in 1 .. (c.number - 1)
    BY <1>1, <1>6 DEF Found, Numbers
  <2> QED BY <1>2, <2>1
<1>7. ASSUME NEW r \in rows, r.media.task = c.media.task
      PROVE  ~(r.actor = c.actor /\ r.request = c.request)
  BY <1>1, <1>7 DEF CallOK, Found
<1> HIDE DEF row
<1>8. ~Collides(row)
  BY <1>2, <1>4, <1>5, <1>6, <1>7 DEF Collides
<1> QED BY <1>3, <1>8 DEF row

\* What the others know of the table stays true.
LEMMA OthersFound ==
    ASSUME IInv, NEW n \in Calls, Registering(n, "numbered"),
           NEW m \in Calls \ {n}
    PROVE  Found(calls[m], rows \cup {RowOf(calls[n])})
<1> DEFINE c == calls[n]
           d == calls[m]
           row == RowOf(c)
<1>1. /\ CallOK(c) /\ CallOK(d) /\ Found(d, rows) /\ Apart(c, d)
      /\ c.step = "numbered"
  BY DEF IInv, CallsOK, CallsApart, Registering
<1>2. /\ row.media = c.media /\ row.actor = c.actor /\ row.request = c.request
      /\ c.locks = 4
  BY <1>1 DEF RowOf, CallOK
<1> HIDE DEF row
<1>3. d.locks > 0 =>
        ~(/\ row.media.task = d.media.task
          /\ row.actor = d.actor /\ row.request = d.request)
  BY <1>1, <1>2 DEF Apart
<1>4. d.step \in {"checked", "numbered"} => row.media.id # d.media.id
  BY <1>1, <1>2 DEF Apart, CallOK
<1>5. d.step = "numbered" =>
        ~(row.media.task = d.media.task /\ row.media.stage = d.media.stage)
  BY <1>1, <1>2 DEF Apart, CallOK
<1>6. d.step = "numbered" =>
        Numbers(rows \cup {row}, d.media.task, d.media.stage)
           = Numbers(rows, d.media.task, d.media.stage)
  BY <1>5 DEF Numbers
<1>7. Found(d, rows \cup {row})
  BY <1>1, <1>3, <1>4, <1>6 DEF Found
<1> QED BY <1>7 DEF row

\* The table with one row more
LEMMA RowsGrow ==
    ASSUME IInv, NEW n \in Calls, Registering(n, "numbered"),
           rows' = rows \cup {RowOf(calls[n])}
    PROVE  RowsOK'
<1> DEFINE c == calls[n]
           row == RowOf(c)
<1>1. row \in Rows /\ ~Collides(row)
  BY NothingCollides
<1>2. /\ Found(c, rows) /\ c.step = "numbered" /\ row.media = c.media
      /\ row.version = c.number
  BY DEF IInv, CallsOK, Registering, RowOf
<1> HIDE DEF row
<1>3. rows' = rows \cup {row}
  BY DEF row
<1>4. RowsDiffer'
  BY <1>1, <1>3 DEF IInv, RowsOK, RowsDiffer, Collides
<1>5. ASSUME NEW t \in Tasks, NEW s \in Stages
      PROVE  \E k \in Nat : Numbers(rows', t, s) = 1 .. k
  <2>1. CASE row.media.task = t /\ row.media.stage = s
    <3>1. /\ c.number \in Nat \ {0}
          /\ Numbers(rows, t, s) = 1 .. (c.number - 1)
      BY <1>2, <2>1 DEF Found
    <3>2. Numbers(rows', t, s) = (1 .. (c.number - 1)) \cup {c.number}
      BY <1>2, <1>3, <2>1, <3>1 DEF Numbers
    <3>3. (1 .. (c.number - 1)) \cup {c.number} = 1 .. c.number
      BY <3>1
    <3> QED BY <3>1, <3>2, <3>3
  <2>2. CASE ~(row.media.task = t /\ row.media.stage = s)
    <3>1. Numbers(rows', t, s) = Numbers(rows, t, s)
      BY <1>3, <2>2 DEF Numbers
    <3> QED BY <3>1 DEF IInv, RowsOK, Dense
  <2> QED BY <2>1, <2>2
<1>6. rows' \subseteq Rows
  BY <1>1, <1>3 DEF IInv, RowsOK
<1> QED BY <1>4, <1>5, <1>6 DEF RowsOK, Dense

LEMMA InsertKeeps ==
    ASSUME IInv, NEW n \in Calls, Insert(n)
    PROVE  IInv'
<1> DEFINE c == calls[n]
           row == RowOf(c)
<1>1. Registering(n, "numbered") /\ ~Collides(row)
  BY NothingCollides DEF Insert
<1>2. /\ rows' = rows \cup {row}
      /\ Tells(n, "created", row) \/ Fails(n, "none")
  BY <1>1 DEF Insert
<1>3. /\ Shape' /\ \A m \in Calls \ {n} : calls'[m] = calls[m]
      /\ calls'[n].locks = 0 /\ calls'[n].step = "ended"
      /\ calls'[n].answer \in {"created", "none"}
      /\ calls'[n].kind = "register" =>
            /\ calls'[n].media = c.media /\ calls'[n].actor = c.actor
            /\ calls'[n].request = c.request
  <2> HIDE DEF row
  <2>1. c.kind = "register" /\ DOMAIN c = Fields
    BY <1>1 DEF Registering, IInv, Shape
  <2>2. CASE Tells(n, "created", row)
    BY <2>1, <2>2 DEF IInv, Shape, Fields, Tells, Ended
  <2>3. CASE Fails(n, "none")
    BY <2>1, <2>3 DEF IInv, Shape, Fields, Fails, Ended
  <2> QED BY <1>2, <2>2, <2>3
<1>4. CallOK(calls'[n]) /\ Found(calls'[n], rows')
  <2>1. CallOK(c) /\ c.kind = "register"
    BY <1>1 DEF IInv, CallsOK, Registering
  <2> QED BY <1>3, <2>1 DEF CallOK, Found
<1>5. \A m \in Calls \ {n} : CallOK(calls'[m]) /\ Found(calls'[m], rows')
  BY <1>1, <1>2, <1>3, OthersFound DEF IInv, CallsOK
<1>6. CallsOK'
  BY <1>4, <1>5 DEF CallsOK
<1>7. CallsApart'
  <2>1. \A m \in Calls \ {n} :
          Apart(calls'[n], calls[m]) /\ Apart(calls[m], calls'[n])
    BY <1>3 DEF Apart
  <2> QED BY <1>3, <2>1 DEF IInv, CallsApart
<1>8. RowsOK'
  BY <1>1, <1>2, RowsGrow
<1> QED BY <1>3, <1>6, <1>7, <1>8 DEF IInv

-----------------------------------------------------------------------------
(* The other steps.                                                        *)

LEMMA CreateAccessKeeps ==
    ASSUME IInv, NEW n \in Calls, NEW a, NEW row, CreateAccess(n, a, row)
    PROVE  IInv'
<1>1. /\ Shape' /\ UNCHANGED rows
      /\ \A m \in Calls \ {n} : calls'[m] = calls[m]
      /\ calls'[n].kind = "access" /\ calls'[n].step = "loaded"
      /\ calls'[n].locks = 0 /\ calls'[n].answer = "none"
  BY DEF IInv, Shape, Fields, CreateAccess, Unused
<1>2. CallOK(calls'[n])
  BY <1>1 DEF CallOK
<1> QED BY <1>1, <1>2, HoldsNothing

LEMMA CompareHeadKeeps ==
    ASSUME IInv, NEW n \in Calls, CompareHead(n)
    PROVE  IInv'
<1>1. CASE Fails(n, "not ready")
  BY <1>1, FailsKeeps DEF CompareHead
<1>2. CASE Goes(n, "compared")
  <2>1. /\ CallOK(calls[n]) /\ DOMAIN calls[n] = Fields
        /\ calls[n].kind = "access"
    BY DEF IInv, CallsOK, Shape, CompareHead
  <2>2. /\ Shape' /\ UNCHANGED rows
        /\ \A m \in Calls \ {n} : calls'[m] = calls[m]
        /\ calls'[n].kind = "access" /\ calls'[n].step = "compared"
        /\ calls'[n].locks = calls[n].locks
        /\ calls'[n].answer = calls[n].answer
    BY <1>2, <2>1 DEF IInv, Shape, Fields, CompareHead, Goes
  <2>3. calls[n].locks = 0
    BY <2>1 DEF CallOK
  <2>4. CallOK(calls'[n])
    BY <2>1, <2>2, <2>3 DEF CallOK
  <2> QED BY <2>2, <2>3, <2>4, HoldsNothing
<1> QED BY <1>1, <1>2 DEF CompareHead

LEMMA SignAddressKeeps ==
    ASSUME IInv, NEW n \in Calls, SignAddress(n)
    PROVE  IInv'
<1>1. /\ Shape' /\ UNCHANGED rows
      /\ \A m \in Calls \ {n} : calls'[m] = calls[m]
      /\ calls'[n].kind = "access" /\ calls'[n].step = "ended"
      /\ calls'[n].locks = 0 /\ calls'[n].answer = "signed"
  BY DEF IInv, Shape, Fields, SignAddress, Ended
<1>2. CallOK(calls'[n])
  BY <1>1 DEF CallOK
<1> QED BY <1>1, <1>2, HoldsNothing

LEMMA BrokenKeeps ==
    ASSUME IInv, NEW n \in Calls, Broken(n)
    PROVE  IInv'
  BY FailsKeeps DEF Broken

\* What happens around the calls is none of theirs.
LEMMA StepParts ==
    ASSUME [Next]_vars
    PROVE  \/ \E n \in Calls : Starts(n) \/ CallStep(n) \/ Broken(n)
           \/ UNCHANGED <<calls, rows>>
  BY DEF Next, vars, PutObject, Overwritten, Written, TakenOver, Revoked

LEMMA InitIInv == Init => IInv
<1> SUFFICES ASSUME Init PROVE IInv
  OBVIOUS
<1>1. \A n \in Calls : calls[n] = Unused
  BY DEF Init
<1>2. /\ DOMAIN Unused = Fields /\ Unused.kind = "unused"
      /\ Unused.step = "ended" /\ Unused.locks = 0 /\ Unused.answer = "none"
  BY DEF Unused, Fields
<1>3. Shape /\ CallsOK /\ CallsApart
  BY <1>1, <1>2 DEF Init, Shape, CallsOK, CallOK, Found, CallsApart, Apart
<1>4. \A t \in Tasks, s \in Stages : Numbers(rows, t, s) = 1 .. 0
  BY DEF Init, Numbers
<1>5. RowsOK
  BY <1>4 DEF Init, RowsOK, RowsDiffer, Dense
<1> QED BY <1>3, <1>5 DEF IInv

LEMMA NextIInv == IInv /\ [Next]_vars => IInv'
<1> SUFFICES ASSUME IInv, [Next]_vars PROVE IInv'
  OBVIOUS
<1>1. ASSUME NEW n \in Calls, Starts(n) PROVE IInv'
  BY <1>1, RegisterKeeps, CreateAccessKeeps DEF Starts
<1>2. ASSUME NEW n \in Calls, CallStep(n) PROVE IInv'
  BY <1>2, VerifyKeeps, LockRequestKeeps, LockKeeps, FindConflictsKeeps,
     AllocateVersionKeeps, InsertKeeps, CompareHeadKeeps, SignAddressKeeps
     DEF CallStep
<1>3. ASSUME NEW n \in Calls, Broken(n) PROVE IInv'
  BY <1>3, BrokenKeeps
<1>4. CASE UNCHANGED <<calls, rows>>
  BY <1>4 DEF IInv, Shape, CallsOK, CallsApart, RowsOK, RowsDiffer, Dense
<1> QED BY <1>1, <1>2, <1>3, <1>4, StepParts

-----------------------------------------------------------------------------
\* The locks of a registration are enough: its versions have no gap, nothing
\* is registered twice, and the unique constraints of the table
\* (media_artifacts) never refuse an insert of createWithResult.
THEOREM VersionsDense == Spec => []VersionsAreDense
<1>1. IInv => VersionsAreDense
  <2> SUFFICES ASSUME IInv PROVE VersionsAreDense
    OBVIOUS
  <2>1. ASSUME NEW t \in Tasks, NEW s \in Stages
        PROVE  \E k \in {0} \cup VersionsOf(t, s) : VersionsOf(t, s) = 1 .. k
    <3>1. PICK k \in Nat : VersionsOf(t, s) = 1 .. k
      BY DEF IInv, RowsOK, Dense, Numbers, VersionsOf
    <3>2. k \in {0} \cup VersionsOf(t, s)
      BY <3>1
    <3> QED BY <3>1, <3>2
  <2>2. ASSUME NEW r \in rows, NEW q \in rows, r # q
        PROVE  /\ r.media.id # q.media.id
               /\ r.media.task = q.media.task =>
                   /\ r.media.stage = q.media.stage => r.version # q.version
                   /\ <<r.actor, r.request>> # <<q.actor, q.request>>
    BY <2>2 DEF IInv, RowsOK, RowsDiffer
  <2>3. \A n \in Calls : calls[n].answer # "collision"
    BY DEF IInv, CallsOK, CallOK
  <2> QED BY <2>1, <2>2, <2>3 DEF VersionsAreDense
<1> QED BY <1>1, InitIInv, NextIInv, PTL DEF Spec

\* Who waits for a lock waits for a call that is further on.
LEMMA WaitsForTheNext ==
    ASSUME IInv, NEW n \in Calls, Waits(n)
    PROVE  /\ calls[n].locks \in 0 .. 3
           /\ \E m \in Calls : /\ calls[m].step # "ended"
                               /\ calls[m].locks > calls[n].locks
<1> DEFINE c == calls[n]
           i == c.locks + 1
<1>1. c.locks \in 0 .. 3 /\ i \in 1 .. 4
  BY DEF IInv, CallsOK, CallOK, Waits
<1>2. PICK m \in Calls \ {n} : LockKeys(c)[i] \in Holds(calls[m])
  BY DEF Waits, LockIsFree
<1>3. calls[m].locks \in 0 .. 4 /\ CallOK(calls[m])
  BY DEF IInv, CallsOK, CallOK
<1>4. PICK j \in 1 .. calls[m].locks : LockKeys(c)[i] = LockKeys(calls[m])[j]
  BY <1>2 DEF Holds
<1>5. j \in 1 .. 4 /\ j <= calls[m].locks
  BY <1>3, <1>4
<1>6. i = j
  BY <1>1, <1>4, <1>5, LockKinds
<1>7. calls[m].locks > c.locks /\ calls[m].locks > 0
  BY <1>1, <1>3, <1>5, <1>6
<1>8. calls[m].step # "ended"
  BY <1>3, <1>7 DEF CallOK
<1> QED BY <1>1, <1>7, <1>8

\* However many calls register at once, the order in which a registration
\* takes its four locks keeps them from waiting for each other in a circle.
THEOREM NobodyWaitsInACircle == Spec => []SomeCallGoesOn
<1>1. IInv => SomeCallGoesOn
  <2> SUFFICES ASSUME IInv, NEW n \in Calls, calls[n].step # "ended",
                      \A m \in Calls : calls[m].step = "ended" \/ Waits(m)
               PROVE  FALSE
    BY DEF SomeCallGoesOn
  <2> DEFINE Far(k) == \E m \in Calls : /\ calls[m].step # "ended"
                                        /\ calls[m].locks \in k .. 4
  <2>1. \A m \in Calls : calls[m].locks \in 0 .. 4
    BY DEF IInv, CallsOK, CallOK
  <2>2. Far(0)
    BY <2>1
  <2>3. ASSUME NEW k \in 0 .. 3, Far(k) PROVE Far(k + 1)
    <3>1. PICK m \in Calls : calls[m].step # "ended" /\ calls[m].locks \in k .. 4
      BY <2>3
    <3>2. PICK o \in Calls : /\ calls[o].step # "ended"
                             /\ calls[o].locks > calls[m].locks
      BY <3>1, WaitsForTheNext
    <3> QED BY <2>1, <3>1, <3>2
  <2>4. Far(4)
    <3>1. Far(0 + 1) BY <2>2, <2>3
    <3>2. Far(1 + 1) BY <2>3, <3>1
    <3>3. Far(2 + 1) BY <2>3, <3>2
    <3>4. Far(3 + 1) BY <2>3, <3>3
    <3> QED BY <3>4
  <2>5. \A m \in Calls : calls[m].step # "ended" => calls[m].locks \in 0 .. 3
    BY WaitsForTheNext
  <2> QED BY <2>4, <2>5
<1> QED BY <1>1, InitIInv, NextIInv, PTL DEF Spec

-----------------------------------------------------------------------------
(* The addresses.                                                          *)

\* The object of a candidate has the version it names, with its content; one
\* that names none is the newest content, if nobody else writes to the object.
Kept(media, objects, others) ==
    LET object == objects[Key(media)]
    IN  IF media.objectVersion = None
        THEN Key(media) \in others \/ (object # <<>> /\ object[Len(object)] = media.content)
        ELSE /\ media.objectVersion <= Len(object)
             /\ object[media.objectVersion] = media.content

AccessOK(c, objects, others) ==
    /\ c.kind = "access" => c.media \in Candidates
    /\ c.step = "compared" \/ c.answer = "signed" =>
          c.kind = "access" /\ Kept(c.media, objects, others)

BucketOK ==
    /\ bucket \in [Keys -> Seq(Contents \cup {None})]
    /\ versioning \in BOOLEAN /\ foreign \subseteq Keys

ServeInv ==
    /\ BucketOK
    /\ \A n \in Calls : AccessOK(calls[n], bucket, foreign)

LEMMA InitServeInv == Init => ServeInv
<1> SUFFICES ASSUME Init PROVE ServeInv
  OBVIOUS
<1>1. \A n \in Calls : AccessOK(calls[n], bucket, foreign)
  BY DEF Init, Unused, AccessOK
<1>2. BucketOK
  BY DEF Init, BucketOK
<1> QED BY <1>1, <1>2 DEF ServeInv

\* An object is only added to: what it had under a number it keeps, and what
\* is newest in it the program does not replace.
LEMMA VersionsStay ==
    ASSUME ServeInv, NEW k \in Keys, NEW content \in Contents \cup {None},
           PutObject(k, content) \/ Overwritten(k, content)
    PROVE  ServeInv'
<1>1. /\ bucket' = [bucket EXCEPT ![k] = Append(@, content)]
      /\ UNCHANGED <<versioning, calls>>
      /\ (foreign' = foreign /\ ~Stored(k)) \/ foreign' = foreign \cup {k}
  BY DEF PutObject, Overwritten, Written
<1>2. BucketOK'
  BY <1>1 DEF ServeInv, BucketOK
<1>3. ASSUME NEW media \in Candidates, Kept(media, bucket, foreign)
      PROVE  Kept(media, bucket', foreign')
  <2>1. PICK key \in Keys : key = Key(media)
    BY DEF Candidates, Key, Keys
  <2>2. PICK object \in Seq(Contents \cup {None}) : object = bucket[key]
    BY DEF ServeInv, BucketOK
  <2>3. CASE key = k
    <3>1. bucket'[key] = Append(object, content)
      BY <1>1, <2>2, <2>3 DEF ServeInv, BucketOK
    <3>2. CASE media.objectVersion = None
      <4>1. key \in foreign \/ (object # <<>> /\ object[Len(object)] = media.content)
        BY <1>3, <2>1, <2>2, <3>2 DEF Kept
      <4>2. media.content # None
        BY MediaAssumption DEF Candidates, MediaAssumption
      <4>3. key \in foreign \/ Stored(key)
        BY <2>2, <4>1, <4>2 DEF Stored, Newest
      <4>4. key \in foreign'
        BY <1>1, <2>3, <4>3
      <4> QED BY <2>1, <3>2, <4>4 DEF Kept
    <3>3. CASE media.objectVersion # None
      <4>1. media.objectVersion \in Nat \ {0}
        BY <3>3, MediaAssumption DEF Candidates, MediaAssumption
      <4>2. media.objectVersion <= Len(object) /\ object[media.objectVersion] = media.content
        BY <1>3, <2>1, <2>2, <3>3 DEF Kept
      <4> QED BY <2>1, <3>1, <3>3, <4>1, <4>2 DEF Kept
    <3> QED BY <3>2, <3>3
  <2>4. CASE key # k
    <3>1. bucket'[key] = bucket[key] /\ foreign \subseteq foreign'
      BY <1>1, <2>4 DEF ServeInv, BucketOK
    <3> QED BY <1>3, <2>1, <3>1 DEF Kept
  <2> QED BY <2>3, <2>4
<1>4. \A n \in Calls : AccessOK(calls[n], bucket', foreign')
  BY <1>3 DEF ServeInv, AccessOK
<1> QED BY <1>1, <1>2, <1>4 DEF ServeInv

\* One call moves.
LEMMA OneServes ==
    ASSUME ServeInv, NEW n \in Calls, UNCHANGED storage,
           \A m \in Calls \ {n} : calls'[m] = calls[m],
           AccessOK(calls'[n], bucket, foreign)
    PROVE  ServeInv'
  BY DEF ServeInv, BucketOK, storage

\* A registration signs nothing.
LEMMA RegistrationsServe ==
    ASSUME IInv, ServeInv, NEW n \in Calls,
           \/ \E a \in Accounts, media \in Candidates, request \in Requests :
                 Register(n, a, media, request)
           \/ Verify(n) \/ LockRequest(n) \/ Lock(n) \/ FindConflicts(n)
           \/ AllocateVersion(n) \/ Insert(n)
    PROVE  ServeInv'
<1> DEFINE c == calls[n]
<1>1. DOMAIN calls = Calls /\ DOMAIN c = Fields /\ AccessOK(c, bucket, foreign)
  BY DEF IInv, Shape, ServeInv
<1>2. ASSUME NEW a \in Accounts, NEW media \in Candidates,
             NEW request \in Requests, Register(n, a, media, request)
      PROVE  ServeInv'
  BY <1>1, <1>2, OneServes DEF Register, Unused, AccessOK
<1>3. ASSUME NEW answer, answer # "signed", Fails(n, answer), UNCHANGED storage
      PROVE  ServeInv'
  BY <1>1, <1>3, OneServes DEF Fails, Ended, AccessOK, Fields
<1>4. ASSUME NEW answer, answer # "signed", NEW row, Tells(n, answer, row),
             UNCHANGED storage, c.kind = "register"
      PROVE  ServeInv'
  BY <1>1, <1>4, OneServes DEF Tells, Ended, AccessOK, Fields
<1>5. ASSUME NEW step, step # "compared", Goes(n, step), UNCHANGED storage,
             c.kind = "register"
      PROVE  ServeInv'
  BY <1>1, <1>5, OneServes DEF Goes, AccessOK, Fields
<1>6. CASE Verify(n)
  BY <1>3, <1>5, <1>6 DEF Verify, Registering
<1>7. CASE LockRequest(n)
  <2>1. CASE calls' = [calls EXCEPT ![n].locks = 1]
    BY <1>1, <1>7, <2>1, OneServes DEF LockRequest, Registering, AccessOK, Fields
  <2> QED BY <1>3, <1>4, <1>7, <2>1 DEF LockRequest, Registering
<1>8. CASE Lock(n)
  BY <1>1, <1>8, OneServes DEF Lock, Registering, AccessOK, Fields
<1>9. CASE FindConflicts(n)
  BY <1>3, <1>5, <1>9 DEF FindConflicts, Registering
<1>10. CASE AllocateVersion(n)
  BY <1>1, <1>10, OneServes DEF AllocateVersion, Registering, AccessOK, Fields
<1>11. CASE Insert(n)
  BY <1>3, <1>4, <1>11 DEF Insert, Registering
<1> QED BY <1>2, <1>6, <1>7, <1>8, <1>9, <1>10, <1>11

LEMMA AccessesServe ==
    ASSUME IInv, ServeInv, NEW n \in Calls,
           \/ \E a \in Accounts, row \in rows : CreateAccess(n, a, row)
           \/ CompareHead(n) \/ SignAddress(n) \/ Broken(n)
    PROVE  ServeInv'
<1> DEFINE c == calls[n]
<1>1. DOMAIN calls = Calls /\ DOMAIN c = Fields /\ AccessOK(c, bucket, foreign)
  BY DEF IInv, Shape, ServeInv
<1>2. ASSUME NEW a \in Accounts, NEW row \in rows, CreateAccess(n, a, row)
      PROVE  ServeInv'
  <2>1. row.media \in Candidates
    BY DEF IInv, RowsOK, Rows
  <2> QED BY <1>1, <1>2, <2>1, OneServes DEF CreateAccess, Unused, AccessOK
<1>3. ASSUME NEW answer, answer # "signed", Fails(n, answer), UNCHANGED storage
      PROVE  ServeInv'
  BY <1>1, <1>3, OneServes DEF Fails, Ended, AccessOK, Fields
<1>4. CASE CompareHead(n) /\ HeadMatches(c.media) /\ Goes(n, "compared")
  <2>1. c.kind = "access" /\ c.media \in Candidates /\ UNCHANGED storage
    BY <1>1, <1>4 DEF CompareHead, AccessOK
  <2>2. Kept(c.media, bucket, foreign)
    <3>1. Key(c.media) \in Keys /\ bucket[Key(c.media)] \in Seq(Contents \cup {None})
      BY <2>1 DEF Candidates, Key, Keys, ServeInv, BucketOK
    <3>2. Len(bucket[Key(c.media)]) \in Nat /\ None \notin Nat
      BY <3>1, MediaAssumption DEF MediaAssumption
    <3> QED BY <1>4, <3>1, <3>2 DEF HeadMatches, HeadVersion, Stored, Newest, Kept
  <2> QED BY <1>1, <1>4, <2>1, <2>2, OneServes DEF Goes, AccessOK, Fields
<1>5. CASE SignAddress(n)
  BY <1>1, <1>5, OneServes DEF SignAddress, Ended, AccessOK, Fields
<1>6. CASE Broken(n)
  BY <1>3, <1>6 DEF Broken
<1>7. CASE CompareHead(n) /\ Fails(n, "not ready")
  BY <1>3, <1>7 DEF CompareHead
<1> QED BY <1>2, <1>4, <1>5, <1>6, <1>7 DEF CompareHead

LEMMA NextServeInv == IInv /\ ServeInv /\ [Next]_vars => ServeInv'
<1> SUFFICES ASSUME IInv, ServeInv, [Next]_vars PROVE ServeInv'
  OBVIOUS
<1>1. ASSUME NEW n \in Calls, Starts(n) \/ CallStep(n) \/ Broken(n)
      PROVE  ServeInv'
  BY <1>1, RegistrationsServe, AccessesServe DEF Starts, CallStep
<1>2. ASSUME NEW k \in Keys, NEW c \in Contents \cup {None},
             PutObject(k, c) \/ Overwritten(k, c)
      PROVE  ServeInv'
  BY <1>2, VersionsStay
<1>3. CASE UNCHANGED <<calls, storage>>
  BY <1>3 DEF ServeInv, BucketOK, storage
<1> QED BY <1>1, <1>2, <1>3 DEF Next, vars, TakenOver, Revoked

\* An address is signed for a version of the object that a head has compared
\* with the registration, and nobody can put another content there afterwards;
\* or for none, and the program does not put another content into the object
\* (createAccess, headMatchesArtifact, putObject).
THEOREM AddressesServe == Spec => []ServedAsRegistered
<1>1. ServeInv => ServedAsRegistered
  BY DEF ServeInv, AccessOK, Kept, Served, Newest, ServedAsRegistered
<1> QED BY <1>1, InitIInv, NextIInv, InitServeInv, NextServeInv, PTL DEF Spec

-----------------------------------------------------------------------------
(* The answers.                                                            *)

\* What a call was told is a row of its own request.
ToldOK(c, table) ==
    /\ c.number \in Nat
    /\ c.answer \in {"created", "replayed"} =>
          /\ c.reference \in table
          /\ c.reference.media = c.media /\ c.reference.actor = c.actor
          /\ c.reference.request = c.request

ToldInv ==
    /\ BucketOK /\ owner \in [Tasks -> Accounts] /\ granted \subseteq Accounts
    /\ writes \in 0 .. MaxWrites
    /\ \A n \in Calls : ToldOK(calls[n], rows)
    /\ \A m \in Calls, n \in Calls :
          m # n /\ calls[m].answer = "created" /\ calls[n].answer = "created" =>
             calls[m].reference # calls[n].reference

LEMMA InitToldInv == Init => ToldInv
  BY MediaAssumption DEF Init, ToldInv, BucketOK, ToldOK, Unused

\* One call moves, and is not told that it created a row.
LEMMA OneIsTold ==
    ASSUME ToldInv, NEW n \in Calls, UNCHANGED <<storage, owner, granted>>,
           rows \subseteq rows',
           \A m \in Calls \ {n} : calls'[m] = calls[m],
           ToldOK(calls'[n], rows'),
           \/ calls'[n].answer # "created"
           \/ calls'[n].reference \notin rows
           \/ calls'[n].answer = calls[n].answer
                /\ calls'[n].reference = calls[n].reference
    PROVE  ToldInv'
<1>1. \A m \in Calls \ {n} : ToldOK(calls'[m], rows') /\ ToldOK(calls[m], rows)
  BY DEF ToldInv, ToldOK
<1>2. \A m \in Calls : ToldOK(calls'[m], rows')
  BY <1>1
<1>3. \A m \in Calls, o \in Calls :
         m # o /\ calls'[m].answer = "created" /\ calls'[o].answer = "created" =>
            calls'[m].reference # calls'[o].reference
  BY <1>1 DEF ToldInv, ToldOK
<1> QED BY <1>2, <1>3 DEF ToldInv, BucketOK, storage

\* A call that fails, goes on or is signed is told no row.
LEMMA LittleIsTold ==
    ASSUME IInv, ToldInv, NEW n \in Calls,
           UNCHANGED <<storage, owner, granted, rows>>,
           \/ \E answer \in {"conflict", "not ready", "none"} : Fails(n, answer)
           \/ \E step : Goes(n, step)
           \/ calls' = [calls EXCEPT ![n] = Ended(@, "signed")]
           \/ calls' = [calls EXCEPT ![n].locks = 1]
           \/ Lock(n) \/ AllocateVersion(n)
    PROVE  ToldInv'
<1> DEFINE c == calls[n]
<1>1. /\ DOMAIN calls = Calls /\ DOMAIN c = Fields /\ ToldOK(c, rows)
  BY DEF IInv, Shape, ToldInv
<1>2. ASSUME NEW answer \in {"conflict", "not ready", "none"}, Fails(n, answer)
      PROVE  ToldInv'
  BY <1>1, <1>2, OneIsTold DEF Fails, Ended, ToldOK, Fields
<1>3. ASSUME NEW step, Goes(n, step) PROVE ToldInv'
  BY <1>1, <1>3, OneIsTold DEF Goes, ToldOK, Fields
<1>4. CASE calls' = [calls EXCEPT ![n] = Ended(@, "signed")]
  BY <1>1, <1>4, OneIsTold DEF Ended, ToldOK, Fields
<1>5. CASE calls' = [calls EXCEPT ![n].locks = 1]
  BY <1>1, <1>5, OneIsTold DEF ToldOK, Fields
<1>6. CASE Lock(n)
  BY <1>1, <1>6, OneIsTold DEF Lock, ToldOK, Fields
<1>7. CASE AllocateVersion(n)
  <2> DEFINE next == NextVersion(c.media.task, c.media.stage)
  <2>1. c.media \in Candidates
    BY <1>7 DEF IInv, CallsOK, CallOK, AllocateVersion, Registering
  <2>2. next \in Nat
    BY <2>1, NextIsNext DEF Candidates
  <2>3. calls' = [calls EXCEPT ![n].step = "numbered", ![n].number = next]
    BY <1>7 DEF AllocateVersion
  <2> HIDE DEF next
  <2> QED BY <1>1, <2>2, <2>3, OneIsTold DEF ToldOK, Fields
<1> QED BY <1>2, <1>3, <1>4, <1>5, <1>6, <1>7

LEMMA CallsAreTold ==
    ASSUME IInv, ToldInv, NEW n \in Calls, Starts(n) \/ CallStep(n) \/ Broken(n)
    PROVE  ToldInv'
<1> DEFINE c == calls[n]
<1>1. /\ DOMAIN calls = Calls /\ DOMAIN c = Fields /\ ToldOK(c, rows)
  BY DEF IInv, Shape, ToldInv
<1>2. CASE Starts(n)
  <2>1. ASSUME NEW a \in Accounts, NEW media \in Candidates,
               NEW request \in Requests, Register(n, a, media, request)
        PROVE  ToldInv'
    BY <1>1, <2>1, OneIsTold DEF Register, Unused, ToldOK
  <2>2. ASSUME NEW a \in Accounts, NEW row \in rows, CreateAccess(n, a, row)
        PROVE  ToldInv'
    BY <1>1, <2>2, OneIsTold DEF CreateAccess, Unused, ToldOK
  <2> QED BY <1>2, <2>1, <2>2 DEF Starts
<1>3. CASE Verify(n) \/ FindConflicts(n) \/ CompareHead(n) \/ SignAddress(n)
           \/ Broken(n) \/ AllocateVersion(n) \/ Lock(n)
  BY <1>3, LittleIsTold DEF Verify, FindConflicts, CompareHead, SignAddress,
                            Broken, AllocateVersion, Lock
<1>4. CASE LockRequest(n)
  <2>1. ASSUME NEW r \in Replays(c), r.media = c.media, Tells(n, "replayed", r)
        PROVE  ToldInv'
    <3>1. r \in rows /\ r.actor = c.actor /\ r.request = c.request
      BY DEF Replays
    <3> QED BY <1>1, <1>4, <2>1, <3>1, OneIsTold
            DEF LockRequest, Tells, Ended, Reference, ToldOK, Fields
  <2> QED BY <1>4, <2>1, LittleIsTold DEF LockRequest
<1>5. CASE Insert(n)
  <2> DEFINE row == RowOf(c)
  <2>1. /\ ~Collides(row) /\ Found(c, rows) /\ c.kind = "register"
        /\ c.step = "numbered"
    BY <1>5, NothingCollides DEF Insert, Registering, IInv, CallsOK
  <2>2. /\ row.media = c.media /\ row.actor = c.actor /\ row.request = c.request
        /\ row \notin rows
    BY <2>1 DEF RowOf, Found
  <2>3. rows' = rows \cup {row} /\ UNCHANGED <<storage, owner, granted>>
    BY <1>5, <2>1 DEF Insert
  <2> HIDE DEF row
  <2>4. CASE Tells(n, "created", row)
    BY <1>1, <2>1, <2>2, <2>3, <2>4, OneIsTold
       DEF Tells, Ended, Reference, ToldOK, Fields
  <2>5. CASE Fails(n, "none")
    BY <1>1, <2>3, <2>5, OneIsTold DEF Fails, Ended, ToldOK, Fields
  <2> QED BY <1>5, <2>1, <2>4, <2>5 DEF Insert, row
<1> QED BY <1>2, <1>3, <1>4, <1>5 DEF CallStep

LEMMA NextToldInv == IInv /\ ToldInv /\ [Next]_vars => ToldInv'
<1> SUFFICES ASSUME IInv, ToldInv, [Next]_vars PROVE ToldInv'
  OBVIOUS
<1>1. ASSUME NEW n \in Calls, Starts(n) \/ CallStep(n) \/ Broken(n)
      PROVE  ToldInv'
  BY <1>1, CallsAreTold
<1>2. ASSUME NEW k \in Keys, NEW c \in Contents \cup {None},
             PutObject(k, c) \/ Overwritten(k, c)
      PROVE  ToldInv'
  <2>1. Written(k, c) /\ foreign' \in {foreign, foreign \cup {k}}
    BY <1>2 DEF PutObject, Overwritten
  <2>2. /\ bucket' \in [Keys -> Seq(Contents \cup {None})]
        /\ writes' \in 0 .. MaxWrites /\ foreign' \subseteq Keys
    BY <2>1, MediaAssumption DEF Written, ToldInv, BucketOK, MediaAssumption
  <2> QED BY <2>1, <2>2 DEF Written, ToldInv, BucketOK
<1>3. ASSUME NEW a \in Accounts,
             Revoked(a) \/ \E t \in Tasks : TakenOver(t, a)
      PROVE  ToldInv'
  BY <1>3 DEF TakenOver, Revoked, storage, ToldInv, BucketOK
<1>4. CASE UNCHANGED vars
  BY <1>4 DEF vars, storage, ToldInv, BucketOK
<1> QED BY <1>1, <1>2, <1>3, <1>4 DEF Next

\* However often a request is sent, one call is told that it made the
\* artifact, the others that they repeat it, and all are told the same; what
\* they were told is verified for its stage from then on.
THEOREM RetriesAgree == Spec => []AnswersAgree
<1>1. IInv /\ ToldInv => AnswersAgree
  <2> SUFFICES ASSUME IInv, ToldInv PROVE AnswersAgree
    OBVIOUS
  <2>1. TypeOK
    BY DEF IInv, ToldInv, BucketOK, RowsOK, CallsOK, CallOK, ToldOK, TypeOK
  <2>2. ASSUME NEW n \in Calls, Registered(n)
        PROVE  /\ calls[n].reference \in rows
               /\ calls[n].reference.media = calls[n].media
               /\ calls[n].reference.actor = calls[n].actor
               /\ calls[n].reference.request = calls[n].request
    BY <2>2 DEF ToldInv, ToldOK, Registered
  <2>3. ASSUME NEW m \in Calls, NEW n \in Calls, m # n,
               Registered(m), Registered(n),
               calls[m].media.task = calls[n].media.task,
               calls[m].actor = calls[n].actor,
               calls[m].request = calls[n].request
        PROVE  /\ calls[m].reference = calls[n].reference
               /\ "replayed" \in {calls[m].answer, calls[n].answer}
    <3>1. calls[m].reference = calls[n].reference
      BY <2>2, <2>3 DEF IInv, RowsOK, RowsDiffer
    <3> QED BY <2>3, <3>1 DEF ToldInv, Registered
  <2>4. ASSUME NEW n \in Calls, Registered(n)
        PROVE  Verifies(calls[n].reference)
    BY <2>2, <2>4 DEF Verifies, Loaded, Reference
  <2> QED BY <2>1, <2>3, <2>4 DEF AnswersAgree
<1> QED BY <1>1, InitIInv, NextIInv, InitToldInv, NextToldInv, PTL DEF Spec

=============================================================================

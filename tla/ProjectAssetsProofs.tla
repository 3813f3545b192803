------------------------ MODULE ProjectAssetsProofs ------------------------
(***************************************************************************)
(* The pool of a project is sound, what a task locks is what its page      *)
(* showed, and a confirmation sent again is recognized: proofs about       *)
(* ProjectAssets, for any assets, scripts, tasks, calls and bounds.        *)
(*                                                                         *)
(* The argument: revisions of the pool and of a task only grow, and what   *)
(* was at a revision stays so.  A call compares the revisions its page     *)
(* showed with the present ones at the end; so what it read in between     *)
(* was read at these very revisions.                                       *)
(***************************************************************************)
EXTENDS ProjectAssets, TLAPS

Stages == {"script", "matching", "storyboard"}
Sent == [revision : Nat, pool : Nat, chosen : SUBSET References]
Receipt == [request : Nat, payload : [sent : Sent, vehicles : SUBSET References],
            script : SUBSET Vehicles, source : Nat, result : Nat]
TaskRecord == [revision : Nat, stage : Stages, script : SUBSET Vehicles,
               snapshot : SUBSET References, source : Nat, receipts : SUBSET Receipt]
Page == [view : {None} \cup [expected : Nat, pool : Nat, offered : SUBSET References],
         request : Nat, loads : Calls \cup {None}, awaits : Calls \cup {None}]
Call == [kind : {"load", "confirm", "upload", "reload"}, task : Tasks,
         stage : {"arrived", "reading", "listing", "prepared", "registered", "validated",
                  "adding"},
         record : {None} \cup TaskRecord, revision : Nat, vehicles : SUBSET References,
         request : Nat, sent : {None} \cup Sent, upload : Nat]
UploadRecord == [file : Files, usable : BOOLEAN, rank : Nat, settled : SUBSET Nat,
                 status : {"pending", "valid", "needs_review", "rejected"}]

TypesOK ==
    /\ catalog \in [Company -> Nat] /\ \A a \in Company : catalog[a] <= events + 1
    /\ events \in 0 .. MaxEvents /\ requests \in Nat
    /\ uploads \in Seq(UploadRecord) /\ Len(uploads) <= events
    /\ pool \in Seq(SUBSET References) /\ pool # <<>>
    /\ tasks \in [Tasks -> TaskRecord]
    /\ pages \in [Tasks -> Page]
    /\ calls \in [Calls -> {NoCall} \cup Call]

\* What is always true of a revision of the pool
Sound(refs) ==
    /\ OneVersionEach(refs)
    /\ OfVehicles(refs) # {}
    /\ \A ref \in refs : ~ IsCompany(ref) =>
          /\ ref.asset \in DOMAIN uploads /\ ref = Upload(ref.asset)
          /\ uploads[ref.asset].status = "valid"
    /\ OneUploadOfEachFile(refs)

PoolOK == \A r \in DOMAIN pool : Sound(pool[r])

RanksApart == \A i, o \in DOMAIN uploads : i # o => uploads[i].rank # uploads[o].rank

\* Of two uploads of one file: the later ranks first if it is valid, and the
\* earlier ranks first if it is valid and had not been validated when the
\* later came
FilesOK ==
    \A o \in DOMAIN uploads : \A i \in 1 .. o - 1 :
        uploads[i].file = uploads[o].file =>
            /\ uploads[o].status = "valid" => uploads[o].rank < uploads[i].rank
            /\ uploads[i].status = "valid" /\ i \notin uploads[o].settled =>
                  uploads[i].rank < uploads[o].rank

UploadsOK == RanksApart /\ FilesOK

\* What a receipt says, for good
ReceiptOK(t, r) ==
    /\ r.result <= tasks[t].revision
    /\ r.payload.sent.pool \in DOMAIN pool /\ r.source \in DOMAIN pool
    /\ OfVehicles(r.payload.sent.chosen) = {}
    /\ r.payload.vehicles = Matched(r.script, OfVehicles(pool[r.payload.sent.pool]))
    /\ r.payload.vehicles \cup r.payload.sent.chosen \subseteq pool[r.source]
    /\ tasks[t].revision = r.result =>
          /\ tasks[t].stage = "storyboard"
          /\ tasks[t].snapshot = r.payload.vehicles \cup r.payload.sent.chosen

TasksOK ==
    \A t \in Tasks :
        /\ tasks[t].source \in 0 .. Len(pool)
        /\ \A r \in tasks[t].receipts : ReceiptOK(t, r)

\* A page shows a past of its task and of the pool, and waits for calls of its own
PageOK(t) ==
    /\ pages[t].view # None =>
          /\ pages[t].view.expected <= tasks[t].revision
          /\ pages[t].view.pool \in DOMAIN pool
          /\ OfVehicles(pages[t].view.offered) = {}
    /\ pages[t].loads # None =>
          calls[pages[t].loads].kind = "load" /\ calls[pages[t].loads].task = t
    /\ pages[t].awaits # None =>
          /\ calls[pages[t].awaits].kind \in {"confirm", "upload", "reload"}
          /\ calls[pages[t].awaits].task = t

PagesOK == \A t \in Tasks : PageOK(t)

HasRead(k) == calls[k].stage \in {"reading", "listing", "prepared"}
HasPool(k) == calls[k].stage \in {"listing", "prepared"}

\* What a call holds was so at a revision of the task, or of the pool
CallOK(k) ==
    /\ HasRead(k) =>
          /\ calls[k].record \in TaskRecord
          /\ calls[k].record.revision <= Task(k).revision
          /\ calls[k].record.revision = Task(k).revision =>
                calls[k].record = Record(calls[k].task)
    /\ HasPool(k) =>
          /\ calls[k].revision \in DOMAIN pool
          /\ calls[k].vehicles = SelectedVehicles(k, pool[calls[k].revision])
    /\ calls[k].sent # None =>
          /\ calls[k].kind = "confirm"
          /\ calls[k].sent.revision <= Task(k).revision
          /\ calls[k].sent.pool \in DOMAIN pool
          /\ OfVehicles(calls[k].sent.chosen) = {}
          /\ HasRead(k) => calls[k].sent.revision <= calls[k].record.revision
          /\ HasPool(k) => calls[k].sent.pool <= calls[k].revision
    /\ calls[k].stage = "listing" => calls[k].sent = None
    /\ calls[k].stage = "prepared" => calls[k].sent # None
    /\ calls[k].stage = "registered" =>
          /\ calls[k].upload \in DOMAIN uploads
          /\ uploads[calls[k].upload].status = "pending"
    /\ calls[k].stage \in {"validated", "adding"} => calls[k].upload \in DOMAIN uploads

UploadsApart ==
    \A k, o \in Calls : calls[k] # NoCall /\ calls[o] # NoCall /\ k # o
        /\ calls[k].stage = "registered" /\ calls[o].stage = "registered"
        => calls[k].upload # calls[o].upload

CallsOK == UploadsApart /\ \A k \in Calls : calls[k] # NoCall => CallOK(k)

AInv == TypesOK /\ PoolOK /\ UploadsOK /\ TasksOK /\ PagesOK /\ CallsOK

-----------------------------------------------------------------------------
(* What a step may do to what others hold *)

PoolGoes == \A r \in DOMAIN pool : r \in DOMAIN pool' /\ pool'[r] = pool[r]

TaskGoes(t) ==
    /\ tasks'[t].revision >= tasks[t].revision
    /\ tasks'[t].revision = tasks[t].revision => tasks'[t] = tasks[t]

TasksGo == \A t \in Tasks : TaskGoes(t)

UploadsGo ==
    \A i \in DOMAIN uploads :
        /\ i \in DOMAIN uploads' /\ uploads'[i].file = uploads[i].file
        /\ uploads[i].status = "valid" => uploads'[i].status = "valid"

\* A call that is left alone still holds what was so.
LEMMA CallStays ==
    ASSUME AInv, TypesOK', PoolGoes, TasksGo, UploadsGo,
           NEW k \in Calls, calls[k] # NoCall, calls'[k] = calls[k],
           calls[k].stage = "registered" => uploads'[calls[k].upload].status = "pending"
    PROVE  CallOK(k)'
<1>1. PICK c : c = calls[k]
  OBVIOUS
<1>2. c \in Call /\ c.task \in Tasks /\ CallOK(k)
  BY <1>1 DEF AInv, TypesOK, CallsOK, Call
<1>3. PICK t \in Tasks : t = c.task
  BY <1>2
<1>4. tasks[t] \in TaskRecord /\ TaskGoes(t)
  BY DEF AInv, TypesOK, TasksGo
<1>5. PICK n \in Nat : n = tasks[t].revision
  BY <1>4 DEF TaskRecord
<1>6. tasks'[t].revision >= n /\ (tasks'[t].revision = n => tasks'[t] = tasks[t])
  BY <1>4, <1>5 DEF TaskGoes
<1>7. ASSUME HasRead(k)
      PROVE  /\ c.record \in TaskRecord /\ c.record.revision \in Nat
             /\ c.record.revision <= n
             /\ c.record.revision = n => c.record = [tasks[t] EXCEPT !.receipts = {}]
  BY <1>1, <1>2, <1>3, <1>5, <1>7 DEF CallOK, Task, Record, TaskRecord
<1>8. PICK m \in Nat : m = tasks'[t].revision
  BY DEF TypesOK, TaskRecord
<1>9. ASSUME HasRead(k)
      PROVE  /\ c.record.revision <= m
             /\ c.record.revision = m => c.record = [tasks'[t] EXCEPT !.receipts = {}]
  <2>1. PICK j \in Nat : j = c.record.revision
    BY <1>7, <1>9
  <2>2. j <= n /\ m >= n
    BY <1>6, <1>7, <1>8, <1>9, <2>1
  <2>3. j <= m /\ (j = m => j = n /\ m = n)
    BY <2>2
  <2>4. ASSUME j = m
        PROVE  c.record = [tasks'[t] EXCEPT !.receipts = {}]
    <3>1. tasks'[t] = tasks[t] /\ c.record.revision = n
      BY <1>6, <1>8, <2>1, <2>3, <2>4
    <3> QED BY <1>7, <1>9, <3>1
  <2> QED BY <2>1, <2>3, <2>4
<1>10. ASSUME HasPool(k)
       PROVE  /\ c.revision \in DOMAIN pool' /\ pool'[c.revision] = pool[c.revision]
              /\ c.vehicles = SelectedVehicles(k, pool[c.revision])
  BY <1>1, <1>2, <1>10 DEF CallOK, PoolGoes
<1>11. ASSUME c.sent # None
       PROVE  /\ c.kind = "confirm" /\ c.sent.revision <= m
              /\ c.sent.pool \in DOMAIN pool'
              /\ OfVehicles(c.sent.chosen) = {}
              /\ HasRead(k) => c.sent.revision <= c.record.revision
              /\ HasPool(k) => c.sent.pool <= c.revision
  <2>1. c.sent.revision <= n /\ c.sent.revision \in Nat
    BY <1>1, <1>2, <1>3, <1>5, <1>11 DEF CallOK, Task, Call, Sent
  <2>2. c.sent.revision <= m
    BY <1>6, <1>8, <2>1
  <2> QED BY <1>1, <1>2, <1>11, <2>2 DEF CallOK, PoolGoes
<1>12. /\ c.stage = "listing" => c.sent = None
       /\ c.stage = "prepared" => c.sent # None
       /\ c.stage = "registered" => c.upload \in DOMAIN uploads /\ uploads'[c.upload].status = "pending"
       /\ c.stage \in {"validated", "adding"} => c.upload \in DOMAIN uploads
  BY <1>1, <1>2 DEF CallOK
<1>13. DOMAIN uploads \subseteq DOMAIN uploads'
  BY DEF UploadsGo
<1>14. /\ HasRead(k)' = HasRead(k) /\ HasPool(k)' = HasPool(k)
       /\ \A refs : SelectedVehicles(k, refs)' = SelectedVehicles(k, refs)
  BY DEF HasRead, HasPool, SelectedVehicles
<1>15. calls'[k] = c /\ calls'[k].task = t
  BY <1>1, <1>3
<1> QED BY <1>3, <1>7, <1>8, <1>9, <1>10, <1>11, <1>12, <1>13, <1>14, <1>15 DEF CallOK, Task, Record

LEMMA ReceiptStays ==
    ASSUME AInv, TypesOK', PoolGoes, TasksGo, NEW t \in Tasks, NEW r \in tasks[t].receipts
    PROVE  ReceiptOK(t, r)'
<1>1. ReceiptOK(t, r) /\ r \in Receipt /\ tasks[t] \in TaskRecord /\ tasks'[t] \in TaskRecord
  BY DEF AInv, TasksOK, TypesOK, TaskRecord
<1>2. PICK n \in Nat, m \in Nat : n = tasks[t].revision /\ m = tasks'[t].revision
  BY <1>1 DEF TaskRecord
<1>3. m >= n /\ (m = n => tasks'[t] = tasks[t]) /\ r.result \in Nat
  BY <1>1, <1>2 DEF TasksGo, TaskGoes, Receipt
<1>4. r.result <= m /\ (r.result = m => tasks'[t] = tasks[t] /\ r.result = n)
  BY <1>1, <1>2, <1>3 DEF ReceiptOK
<1> QED BY <1>1, <1>2, <1>4 DEF ReceiptOK, PoolGoes

\* A page that is left alone, or stops waiting.
LEMMA PageStays ==
    ASSUME AInv, TypesOK', PoolGoes, TasksGo, NEW t \in Tasks,
           pages'[t].view \in {pages[t].view, None},
           \/ pages'[t].loads = None
           \/ /\ pages'[t].loads = pages[t].loads
              /\ calls'[pages[t].loads].kind = calls[pages[t].loads].kind
              /\ calls'[pages[t].loads].task = calls[pages[t].loads].task,
           \/ pages'[t].awaits = None
           \/ /\ pages'[t].awaits = pages[t].awaits
              /\ \/ calls'[pages[t].awaits].kind = calls[pages[t].awaits].kind
                 \/ calls'[pages[t].awaits].kind = "reload"
              /\ calls'[pages[t].awaits].task = calls[pages[t].awaits].task
    PROVE  PageOK(t)'
<1>1. /\ PageOK(t) /\ tasks[t] \in TaskRecord /\ tasks'[t] \in TaskRecord
      /\ pages[t] \in Page /\ TaskGoes(t)
  BY DEF AInv, PagesOK, TypesOK, TasksGo
<1>2. PICK n \in Nat, m \in Nat : n = tasks[t].revision /\ m = tasks'[t].revision
  BY <1>1 DEF TaskRecord
<1>3. pages[t].view # None =>
         /\ pages[t].view.expected <= m
         /\ pages[t].view.pool \in DOMAIN pool'
         /\ OfVehicles(pages[t].view.offered) = {}
  <2> SUFFICES ASSUME pages[t].view # None
               PROVE  /\ pages[t].view.expected <= m
                      /\ pages[t].view.pool \in DOMAIN pool'
                      /\ OfVehicles(pages[t].view.offered) = {}
    OBVIOUS
  <2>1. pages[t].view.expected \in Nat /\ pages[t].view.expected <= n /\ n <= m
    BY <1>1, <1>2 DEF PageOK, Page, TaskGoes
  <2> QED BY <1>1, <2>1 DEF PageOK, PoolGoes
<1> QED BY <1>1, <1>2, <1>3 DEF PageOK

\* What is left to show of a step.
LEMMA Frame ==
    ASSUME AInv, TypesOK', PoolGoes, TasksGo, UploadsGo, UploadsOK', PagesOK', UploadsApart',
           \A r \in DOMAIN pool' \ DOMAIN pool : Sound(pool[r])',
           \A t \in Tasks : /\ tasks'[t].source \in 0 .. Len(pool')
                            /\ \A r \in tasks'[t].receipts \ tasks[t].receipts : ReceiptOK(t, r)',
           \A k \in Calls :
              \/ calls'[k] = NoCall \/ CallOK(k)'
              \/ /\ calls'[k] = calls[k]
                 /\ calls[k] # NoCall /\ calls[k].stage = "registered" =>
                       uploads'[calls[k].upload].status = "pending"
    PROVE  AInv'
<1>1. ASSUME NEW r \in DOMAIN pool'
      PROVE  Sound(pool[r])'
  <2>1. CASE r \in DOMAIN pool
    <3>1. pool'[r] = pool[r] /\ Sound(pool[r])
      BY <2>1 DEF PoolGoes, AInv, PoolOK
    <3>2. PICK refs : refs = pool[r]
      OBVIOUS
    <3>3. Sound(refs)'
      BY <3>1, <3>2 DEF Sound, UploadsGo, OneUploadOfEachFile
    <3>4. pool'[r] = refs
      BY <3>1, <3>2
    <3> QED BY <3>3, <3>4
  <2> QED BY <2>1
<1>2. PoolOK'
  BY <1>1 DEF PoolOK
<1>3. TasksOK'
  <2>1. ASSUME NEW t \in Tasks, NEW r \in tasks'[t].receipts
        PROVE  ReceiptOK(t, r)'
    BY ReceiptStays
  <2> QED BY <2>1 DEF TasksOK
<1>4. ASSUME NEW k \in Calls, calls'[k] # NoCall
      PROVE  CallOK(k)'
  BY <1>4, CallStays
<1>5. CallsOK'
  BY <1>4 DEF CallsOK
<1> QED BY <1>2, <1>3, <1>5 DEF AInv

-----------------------------------------------------------------------------
(* The pool only grows, and every revision of it is sound *)

Grown(p) ==
    /\ p \in Seq(SUBSET References) /\ p # <<>> /\ Len(p) \in Nat \ {0} /\ Len(p) >= Len(pool)
    /\ DOMAIN pool \subseteq DOMAIN p
    /\ \A r \in DOMAIN pool : p[r] = pool[r]
    /\ \A r \in DOMAIN p : Sound(p[r])

LEMMA Appended ==
    ASSUME TypesOK, NEW p, Grown(p), NEW refs \in SUBSET References, Sound(refs)
    PROVE  Grown(Append(p, refs)) /\ Append(p, refs)[Len(Append(p, refs))] = refs
<1>1. PICK q : q = Append(p, refs)
  OBVIOUS
<1>2. PICK n \in Nat \ {0} : n = Len(p)
  BY DEF Grown
<1>3. p \in Seq(SUBSET References) /\ DOMAIN p = 1 .. n
  BY <1>2 DEF Grown
<1>4. q \in Seq(SUBSET References) /\ Len(q) = n + 1 /\ DOMAIN q = 1 .. n + 1
      /\ q[n + 1] = refs /\ \A r \in 1 .. n : q[r] = p[r]
  BY <1>1, <1>2, <1>3
<1>5. Len(pool) \in Nat /\ Len(pool) <= n /\ DOMAIN pool \subseteq 1 .. n
  BY <1>2, <1>3 DEF Grown, TypesOK
<1>6. DOMAIN pool \subseteq DOMAIN q /\ \A r \in DOMAIN pool : q[r] = pool[r]
  BY <1>4, <1>5 DEF Grown
<1>7. \A r \in DOMAIN q : Sound(q[r])
  <2> TAKE r \in DOMAIN q
  <2>1. CASE r \in 1 .. n
    <3>1. PICK s : s = p[r]
      OBVIOUS
    <3>2. Sound(s) /\ q[r] = s
      BY <1>3, <1>4, <2>1, <3>1 DEF Grown
    <3> QED BY <3>2
  <2>2. CASE r = n + 1
    BY <1>4, <2>2
  <2> QED BY <1>4, <2>1, <2>2
<1>8. q # <<>> /\ Len(q) \in Nat \ {0} /\ Len(q) >= Len(pool)
  BY <1>4, <1>5
<1>9. Grown(q) /\ q[Len(q)] = refs
  BY <1>4, <1>6, <1>7, <1>8 DEF Grown
<1> QED BY <1>1, <1>9

\* The last of a pool that has grown
LEMMA LastIs ==
    ASSUME NEW p, Grown(p)
    PROVE  Len(p) \in DOMAIN p /\ Sound(p[Len(p)]) /\ p[Len(p)] \in SUBSET References
BY DEF Grown

LEMMA PoolGrown ==
    ASSUME AInv
    PROVE  Grown(pool) /\ Current \in SUBSET References /\ Sound(Current)
<1>1. pool \in Seq(SUBSET References) /\ pool # <<>> /\ \A r \in DOMAIN pool : Sound(pool[r])
  BY DEF AInv, TypesOK, PoolOK
<1>2. Len(pool) \in Nat \ {0}
  BY <1>1
<1>3. Grown(pool)
  BY <1>1, <1>2 DEF Grown
<1> QED BY <1>3, LastIs DEF Current

LEMMA NewestIs ==
    ASSUME AInv, NEW ref \in References
    PROVE  /\ Newest(ref) \in References /\ Newest(ref).asset = ref.asset
           /\ ~ IsCompany(ref) => Newest(ref) = ref
BY DEF AInv, TypesOK, References, Newest, IsCompany, Ref

\* Bringing the pool up to date keeps it sound.
LEMMA NewestSound ==
    ASSUME AInv
    PROVE  /\ {Newest(ref) : ref \in Current} \in SUBSET References
           /\ Sound({Newest(ref) : ref \in Current})
<1>1. Current \in SUBSET References /\ Sound(Current)
  BY PoolGrown
<1>2. \A ref \in Current : /\ Newest(ref) \in References /\ Newest(ref).asset = ref.asset
                           /\ ~ IsCompany(ref) => Newest(ref) = ref
  BY <1>1, NewestIs
<1>3. PICK N : N = {Newest(ref) : ref \in Current}
  OBVIOUS
<1>4. \A n \in N : \E ref \in Current : n = Newest(ref)
  BY <1>3
<1>5. N \subseteq References
  BY <1>2, <1>4
<1>6. OneVersionEach(N)
  <2> SUFFICES ASSUME NEW r \in N, NEW o \in N, r.asset = o.asset
               PROVE  r = o
    BY DEF OneVersionEach
  <2>1. PICK s \in Current, q \in Current : r = Newest(s) /\ o = Newest(q)
    BY <1>4
  <2>2. s.asset = q.asset
    BY <1>2, <2>1
  <2>3. s = q
    BY <1>1, <2>2 DEF Sound, OneVersionEach
  <2> QED BY <2>1, <2>3
<1>7. OfVehicles(N) # {}
  <2>1. PICK ref \in Current : ref.asset \in Vehicles
    BY <1>1 DEF Sound, OfVehicles
  <2>2. Newest(ref) \in N /\ Newest(ref).asset \in Vehicles
    BY <1>2, <1>3, <2>1
  <2> QED BY <2>2 DEF OfVehicles
<1>8. \A n \in N : ~ IsCompany(n) => n \in Current
  <2> TAKE n \in N
  <2>1. PICK ref \in Current : n = Newest(ref)
    BY <1>4
  <2>2. IsCompany(n) <=> IsCompany(ref)
    BY <1>2, <2>1 DEF IsCompany
  <2> QED BY <1>2, <2>1, <2>2
<1>9. Sound(N)
  <2>1. OneUploadOfEachFile(N)
    BY <1>1, <1>8 DEF Sound, OneUploadOfEachFile
  <2> QED BY <1>1, <1>6, <1>7, <1>8, <2>1 DEF Sound
<1> QED BY <1>3, <1>5, <1>9

LEMMA RefreshedGrown ==
    ASSUME AInv
    PROVE  Grown(Refreshed)
<1>1. PICK N : N = {Newest(ref) : ref \in Current}
  OBVIOUS
<1>2. N \in SUBSET References /\ Sound(N) /\ TypesOK /\ Grown(pool)
  BY <1>1, NewestSound, PoolGrown DEF AInv
<1>3. Grown(Append(pool, N))
  BY <1>2, Appended
<1>4. Refreshed = pool \/ Refreshed = Append(pool, N)
  BY <1>1 DEF Refreshed
<1>5. CASE Refreshed = pool
  BY <1>2, <1>5
<1>6. CASE Refreshed = Append(pool, N)
  BY <1>3, <1>6
<1> QED BY <1>4, <1>5, <1>6

LEMMA LatestIs ==
    ASSUME AInv, NEW A, A \subseteq Company
    PROVE  /\ Latest(A) \subseteq References
           /\ \A ref \in Latest(A) : ref.asset \in A
BY DEF AInv, TypesOK, Latest, Ref, References

\* A confirmation that may extend the pool keeps it sound, and what it
\* selects is then in it.
LEMMA ExtendedGrown ==
    ASSUME AInv, NEW k \in Calls, MayExtend(k)
    PROVE  /\ Grown(Extended(k)) /\ Len(Extended(k)) >= Len(Refreshed)
           /\ Selection(k) \subseteq Extended(k)[Len(Extended(k))]
           /\ \A r \in DOMAIN Refreshed : Extended(k)[r] = Refreshed[r]
<1>1. PICK p : p = Refreshed
  OBVIOUS
<1>2. Grown(p) /\ TypesOK
  BY <1>1, RefreshedGrown DEF AInv
<1>3. PICK last \in SUBSET References : last = p[Len(p)]
  BY <1>2, LastIs
<1>4. Sound(last)
  BY <1>2, <1>3, LastIs
<1>5. PICK adds : adds = Additions(k)
  OBVIOUS
<1>6. /\ adds \subseteq References /\ \A ref \in adds : IsCompany(ref)
      /\ OneVersionEach(last \cup adds)
  BY <1>1, <1>3, <1>5, LatestIs DEF MayExtend, IsCompany
<1>7. Sound(last \cup adds) /\ last \cup adds \in SUBSET References
  BY <1>4, <1>6 DEF Sound, OfVehicles, OneUploadOfEachFile
<1>8. Selection(k) \subseteq last \cup adds
  BY <1>1, <1>3, <1>5 DEF Additions
<1>9. Extended(k) = IF adds = {} THEN p ELSE Append(p, last \cup adds)
  BY <1>1, <1>3, <1>5 DEF Extended
<1>10. CASE adds = {}
  BY <1>1, <1>2, <1>3, <1>8, <1>9, <1>10 DEF Grown
<1>11. CASE adds # {}
  <2>1. PICK q : q = Append(p, last \cup adds)
    OBVIOUS
  <2>2. Grown(q) /\ q[Len(q)] = last \cup adds
    BY <1>2, <1>7, <2>1, Appended
  <2>3. p \in Seq(SUBSET References) /\ Len(q) >= Len(p) /\ \A r \in DOMAIN p : q[r] = p[r]
    BY <1>2, <1>7, <2>1 DEF Grown
  <2>4. Extended(k) = q
    BY <1>9, <1>11, <2>1
  <2> QED BY <1>1, <1>8, <2>2, <2>3, <2>4
<1> QED BY <1>10, <1>11

\* A pool that has grown is one that goes on; its new revisions are sound.
LEMMA GrownGoes ==
    ASSUME AInv, NEW p, Grown(p), pool' = p, uploads' = uploads
    PROVE  /\ pool' \in Seq(SUBSET References) /\ pool' # <<>> /\ PoolGoes
           /\ Len(pool') >= Len(pool) /\ Len(pool') \in Nat /\ Len(pool) \in Nat
           /\ \A r \in DOMAIN pool' \ DOMAIN pool : Sound(pool[r])'
<1>1. ASSUME NEW r \in DOMAIN p
      PROVE  Sound(pool[r])'
  <2>1. PICK refs : refs = p[r]
    OBVIOUS
  <2>2. Sound(refs)
    BY <2>1 DEF Grown
  <2>3. Sound(refs)' /\ pool'[r] = refs
    BY <2>1, <2>2 DEF Sound, OneUploadOfEachFile
  <2> QED BY <2>3
<1> QED BY <1>1 DEF Grown, PoolGoes, AInv, TypesOK

-----------------------------------------------------------------------------
(* A call goes on, or ends *)

LEMMA Shape ==
    ASSUME AInv, NEW k \in Calls
    PROVE  /\ calls[k] = NoCall \/ calls[k] \in Call
           /\ calls[k].kind # "none" => calls[k] # NoCall
           /\ calls[k] # NoCall => calls[k] \in Call /\ CallOK(k) /\ calls[k].task \in Tasks
BY DEF AInv, TypesOK, CallsOK, Call, NoCall

\* A step in which the server goes on with one call, and changes the pool.
LEMMA ServeGoes ==
    ASSUME AInv, NEW p, Grown(p), pool' = p, UNCHANGED <<catalog, uploads, tasks>>,
           requests' \in Nat,
           events' \in 0 .. MaxEvents, events' >= events, NEW k \in Calls, NEW c,
           c = NoCall \/ (c \in Call /\ c.stage # "registered"),
           calls' = [calls EXCEPT ![k] = c], pages' \in [Tasks -> Page]
    PROVE  /\ TypesOK' /\ PoolGoes /\ TasksGo /\ UploadsGo /\ UploadsOK' /\ UploadsApart'
           /\ Len(pool') >= Len(pool) /\ Len(pool') \in Nat /\ Len(pool) \in Nat
           /\ calls'[k] = c /\ \A o \in Calls \ {k} : calls'[o] = calls[o]
<1>1. /\ calls \in [Calls -> {NoCall} \cup Call] /\ calls' \in [Calls -> {NoCall} \cup Call]
      /\ calls'[k] = c /\ \A o \in Calls \ {k} : calls'[o] = calls[o]
  BY DEF AInv, TypesOK
<1>2. TypesOK'
  <2>1. catalog \in [Company -> Nat] /\ \A a \in Company : catalog[a] <= events + 1
    BY DEF AInv, TypesOK
  <2>2. events \in Nat /\ events' \in Nat /\ Len(uploads) \in Nat /\ Len(uploads) <= events
    BY AssetsAssumption DEF AInv, TypesOK, AssetsAssumption
  <2>3. \A a \in Company : catalog[a] <= events' + 1
    BY <2>1, <2>2
  <2>4. Len(uploads) <= events'
    BY <2>2
  <2> QED BY <1>1, <2>3, <2>4, GrownGoes DEF AInv, TypesOK
<1>3. PoolGoes /\ Len(pool') >= Len(pool) /\ Len(pool') \in Nat /\ Len(pool) \in Nat
  BY GrownGoes
<1>4. TasksGo
  <2>1. \A t \in Tasks : tasks[t].revision \in Nat
    BY DEF AInv, TypesOK, TaskRecord
  <2> QED BY <2>1 DEF TasksGo, TaskGoes
<1>5. UploadsGo /\ UploadsOK'
  BY DEF UploadsGo, UploadsOK, RanksApart, FilesOK, AInv
<1>6. UploadsApart'
  <2> SUFFICES ASSUME NEW o \in Calls, NEW q \in Calls, o # q,
                      calls'[o] # NoCall, calls'[q] # NoCall,
                      calls'[o].stage = "registered", calls'[q].stage = "registered"
               PROVE  calls'[o].upload # calls'[q].upload
    BY DEF UploadsApart
  <2>1. o # k /\ q # k
    BY <1>1
  <2> QED BY <1>1, <2>1 DEF AInv, CallsOK, UploadsApart
<1> QED BY <1>1, <1>2, <1>3, <1>4, <1>5, <1>6

LEMMA ServeFrame ==
    ASSUME AInv, NEW p, Grown(p), pool' = p, UNCHANGED <<catalog, uploads, tasks>>,
           requests' \in Nat,
           events' \in 0 .. MaxEvents, events' >= events, NEW k \in Calls, NEW c,
           c = NoCall \/ (c \in Call /\ c.stage # "registered" /\ CallOK(k)'),
           calls' = [calls EXCEPT ![k] = c], pages' \in [Tasks -> Page], PagesOK'
    PROVE  AInv'
<1>1. /\ TypesOK' /\ PoolGoes /\ TasksGo /\ UploadsGo /\ UploadsOK' /\ UploadsApart'
      /\ Len(pool') >= Len(pool) /\ Len(pool') \in Nat /\ Len(pool) \in Nat
      /\ calls'[k] = c /\ \A o \in Calls \ {k} : calls'[o] = calls[o]
  BY ServeGoes
<1>2. \A r \in DOMAIN pool' \ DOMAIN pool : Sound(pool[r])'
  BY GrownGoes
<1>3. ASSUME NEW t \in Tasks
      PROVE  tasks'[t].source \in 0 .. Len(pool')
  <2>1. tasks[t].source \in 0 .. Len(pool)
    BY DEF AInv, TasksOK
  <2> QED BY <1>1, <2>1
<1>4. ASSUME NEW o \in Calls
      PROVE  \/ calls'[o] = NoCall \/ CallOK(o)'
             \/ /\ calls'[o] = calls[o]
                /\ calls[o] # NoCall /\ calls[o].stage = "registered" =>
                      uploads'[calls[o].upload].status = "pending"
  <2>1. CASE o = k
    BY <1>1, <2>1
  <2>2. CASE o # k
    BY <1>1, <2>2, Shape DEF CallOK
  <2> QED BY <2>1, <2>2
<1> QED BY <1>1, <1>2, <1>3, <1>4, Frame

\* The pages, while the call they wait for goes on
LEMMA PagesKept ==
    ASSUME AInv, TypesOK', PoolGoes, TasksGo, NEW k \in Calls, pages' = pages,
           \A o \in Calls \ {k} : calls'[o] = calls[o],
           calls'[k].task = calls[k].task,
           \/ calls'[k].kind = calls[k].kind
           \/ calls'[k].kind = "reload" /\ calls[k].kind # "load"
    PROVE  PagesOK'
<1>1. ASSUME NEW t \in Tasks
      PROVE  PageOK(t)'
  <2>1. pages[t] \in Page /\ PageOK(t)
    BY DEF AInv, TypesOK, PagesOK
  <2>2. pages[t].loads # None => /\ pages[t].loads \in Calls /\ calls[pages[t].loads].kind = "load"
                                 /\ calls'[pages[t].loads].kind = calls[pages[t].loads].kind
                                 /\ calls'[pages[t].loads].task = calls[pages[t].loads].task
    BY <2>1 DEF Page, PageOK
  <2>3. pages[t].awaits # None =>
           /\ pages[t].awaits \in Calls
           /\ \/ calls'[pages[t].awaits].kind = calls[pages[t].awaits].kind
              \/ calls'[pages[t].awaits].kind = "reload"
           /\ calls'[pages[t].awaits].task = calls[pages[t].awaits].task
    BY <2>1 DEF Page
  <2> QED BY <2>2, <2>3, PageStays
<1> QED BY <1>1 DEF PagesOK

\* What an answer may show of task t
ViewOK(t, view) ==
    /\ view.expected <= tasks[t].revision
    /\ view.pool \in DOMAIN pool
    /\ OfVehicles(view.offered) = {}

Views == {None} \cup [expected : Nat, pool : Nat, offered : SUBSET References]

\* What a page shows once call k has ended
Shown(t, k, view, done) ==
    CASE pages[t].loads = k  -> [pages[t] EXCEPT !.view = view, !.loads = None]
      [] pages[t].awaits = k ->
            [pages[t] EXCEPT !.awaits = None,
                !.view = IF done THEN view ELSE @,
                !.request = IF done /\ calls[k].kind = "confirm" THEN 0 ELSE @]
      [] OTHER -> pages[t]

\* A page does not wait for one call in both ways.
LEMMA Ways ==
    ASSUME AInv, NEW t \in Tasks, NEW k \in Calls
    PROVE  pages[t].loads = k => pages[t].awaits # k
BY AssetsAssumption DEF AssetsAssumption, AInv, PagesOK, PageOK

\* What a page shows that has loaded its view, or got its answer
Loaded(page, view) == [page EXCEPT !.view = view, !.loads = None]
Told(page, view, request) == [page EXCEPT !.awaits = None, !.view = view, !.request = request]

Answers(k, view) == Answer(k, view, TRUE) \/ Answer(k, view, FALSE)

LEMMA AnswerIs ==
    ASSUME AInv, NEW k \in Calls, NEW view, Answers(k, view)
    PROVE  /\ calls' = [calls EXCEPT ![k] = NoCall]
           /\ pages' = [t \in Tasks |-> pages'[t]]
           /\ \A t \in Tasks :
                 /\ pages[t].loads = k => pages'[t] = Loaded(pages[t], view)
                 /\ pages[t].awaits = k => \E v \in {view, pages[t].view}, r \in {0, pages[t].request} :
                       pages'[t] = Told(pages[t], v, r)
                 /\ pages[t].loads # k /\ pages[t].awaits # k => pages'[t] = pages[t]
<1> SUFFICES ASSUME NEW done \in BOOLEAN, Answer(k, view, done)
             PROVE  /\ calls' = [calls EXCEPT ![k] = NoCall]
                    /\ pages' = [t \in Tasks |-> pages'[t]]
                    /\ \A t \in Tasks :
                          /\ pages[t].loads = k => pages'[t] = Loaded(pages[t], view)
                          /\ pages[t].awaits = k => \E v \in {view, pages[t].view}, r \in {0, pages[t].request} :
                                pages'[t] = Told(pages[t], v, r)
                          /\ pages[t].loads # k /\ pages[t].awaits # k => pages'[t] = pages[t]
  BY DEF Answers
<1>1. /\ calls' = [calls EXCEPT ![k] = NoCall]
      /\ pages' = [t \in Tasks |-> Shown(t, k, view, done)]
  BY DEF Answer, Shown
<1>2. \A t \in Tasks : pages'[t] = Shown(t, k, view, done)
  BY <1>1
<1>3. pages' = [t \in Tasks |-> pages'[t]]
  BY <1>1, <1>2
<1>4. ASSUME NEW t \in Tasks
      PROVE  /\ pages[t].loads = k => pages'[t] = Loaded(pages[t], view)
             /\ pages[t].awaits = k => \E v \in {view, pages[t].view}, r \in {0, pages[t].request} :
                   pages'[t] = Told(pages[t], v, r)
             /\ pages[t].loads # k /\ pages[t].awaits # k => pages'[t] = pages[t]
  <2>1. CASE pages[t].loads = k
    <3>1. pages'[t] = Loaded(pages[t], view)
      BY <1>2, <2>1, Ways DEF Shown, Loaded
    <3> QED BY <2>1, <3>1, Ways
  <2>2. CASE pages[t].loads # k /\ pages[t].awaits = k
    <3>1. PICK v, r : /\ v = IF done THEN view ELSE pages[t].view
                      /\ r = IF done /\ calls[k].kind = "confirm" THEN 0 ELSE pages[t].request
      OBVIOUS
    <3>2. Shown(t, k, view, done) = Told(pages[t], v, r)
      BY <2>2, <3>1 DEF Shown, Told
    <3>3. v \in {view, pages[t].view} /\ r \in {0, pages[t].request}
      BY <3>1
    <3> QED BY <1>2, <2>2, <3>2, <3>3
  <2>3. CASE pages[t].loads # k /\ pages[t].awaits # k
    BY <1>2, <2>3 DEF Shown
  <2> QED BY <2>1, <2>2, <2>3
<1> QED BY <1>1, <1>3, <1>4

LEMMA AnswerTypes ==
    ASSUME AInv, NEW k \in Calls, NEW view \in Views, Answers(k, view)
    PROVE  pages' \in [Tasks -> Page] /\ calls' = [calls EXCEPT ![k] = NoCall]
<1>1. ASSUME NEW t \in Tasks
      PROVE  pages'[t] \in Page
  <2>1. pages[t] \in Page
    BY DEF AInv, TypesOK
  <2>2. \/ pages'[t] = Loaded(pages[t], view)
        \/ \E v \in {view, pages[t].view}, r \in {0, pages[t].request} :
              pages'[t] = Told(pages[t], v, r)
        \/ pages'[t] = pages[t]
    BY AnswerIs
  <2>3. CASE pages'[t] = Loaded(pages[t], view)
    BY <2>1, <2>3 DEF Page, Views, Loaded, Told
  <2>4. CASE \E v \in {view, pages[t].view}, r \in {0, pages[t].request} :
              pages'[t] = Told(pages[t], v, r)
    <3>1. PICK v \in {view, pages[t].view}, r \in {0, pages[t].request} : pages'[t] = Told(pages[t], v, r)
      BY <2>4
    <3>2. v \in Views /\ r \in Nat
      BY <2>1, <3>1 DEF Page, Views
    <3> QED BY <2>1, <3>1, <3>2 DEF Page, Views, Told
  <2> QED BY <2>1, <2>2, <2>3, <2>4
<1>2. pages' = [t \in Tasks |-> pages'[t]] /\ calls' = [calls EXCEPT ![k] = NoCall]
  BY AnswerIs
<1> QED BY <1>1, <1>2

LEMMA Answered ==
    ASSUME AInv, TypesOK', PoolGoes, TasksGo, NEW k \in Calls, calls[k] # NoCall,
           NEW view \in Views, Answers(k, view),
           \A t \in Tasks : t = calls[k].task /\ view # None => ViewOK(t, view)'
    PROVE  PagesOK'
<1>1. ASSUME NEW t \in Tasks
      PROVE  PageOK(t)'
  <2>1. pages[t] \in Page /\ PageOK(t)
    BY DEF AInv, TypesOK, PagesOK
  <2>2. \A o \in Calls \ {k} : calls'[o] = calls[o]
    BY AnswerIs DEF AInv, TypesOK
  <2>3. None \notin Calls
    BY AssetsAssumption DEF AssetsAssumption
  <2>4. calls'[k] = NoCall
    BY AnswerIs DEF AInv, TypesOK
  <2>5. CASE pages[t].loads = k
    <3>1. pages'[t] = Loaded(pages[t], view)
      BY <2>5, AnswerIs
    <3>2. pages'[t].view = view /\ pages'[t].loads = None /\ pages'[t].awaits = pages[t].awaits
      BY <2>1, <3>1 DEF Page, Loaded, Told
    <3>3. calls[k].kind = "load" /\ calls[k].task = t
      BY <2>1, <2>3, <2>5 DEF PageOK
    <3>4. pages[t].awaits # None => pages[t].awaits \in Calls \ {k}
      BY <2>1, <3>3 DEF Page, PageOK
    <3>5. pages'[t].awaits # None =>
             /\ calls'[pages'[t].awaits].kind \in {"confirm", "upload", "reload"}
             /\ calls'[pages'[t].awaits].task = t
      BY <2>1, <2>2, <3>2, <3>4 DEF PageOK
    <3>6. view # None => ViewOK(t, view)'
      BY <3>3
    <3> QED BY <3>2, <3>5, <3>6 DEF PageOK, ViewOK
  <2>6. CASE pages[t].loads # k /\ pages[t].awaits = k
    <3>1. PICK v \in {view, pages[t].view}, r \in {0, pages[t].request} :
             pages'[t] = Told(pages[t], v, r)
      BY <2>6, AnswerIs
    <3>2. pages'[t].view = v /\ pages'[t].loads = pages[t].loads /\ pages'[t].awaits = None
      BY <2>1, <3>1 DEF Page, Loaded, Told
    <3>3. calls[k].task = t
      BY <2>1, <2>3, <2>6 DEF PageOK
    <3>4. pages[t].loads # None => pages[t].loads \in Calls \ {k}
      BY <2>1, <2>6 DEF Page
    <3>5. pages'[t].loads # None => /\ calls'[pages'[t].loads].kind = "load"
                                    /\ calls'[pages'[t].loads].task = t
      BY <2>1, <2>2, <3>2, <3>4 DEF PageOK
    <3>6. CASE v = view
      <4>1. view # None => ViewOK(t, view)'
        BY <3>3
      <4> QED BY <3>2, <3>5, <3>6, <4>1 DEF PageOK, ViewOK
    <3>7. CASE v = pages[t].view
      BY <2>2, <3>2, <3>4, <3>7, PageStays
    <3> QED BY <3>1, <3>6, <3>7
  <2>7. CASE pages[t].loads # k /\ pages[t].awaits # k
    <3>1. pages'[t] = pages[t]
      BY <2>7, AnswerIs
    <3>2. /\ pages[t].loads # None => pages[t].loads \in Calls \ {k}
          /\ pages[t].awaits # None => pages[t].awaits \in Calls \ {k}
      BY <2>1, <2>7 DEF Page
    <3> QED BY <2>2, <3>1, <3>2, PageStays
  <2> QED BY <2>5, <2>6, <2>7
<1> QED BY <1>1 DEF PagesOK

\* A call that ends without a view, whatever it has done to the pool.
LEMMA Ends ==
    ASSUME AInv, NEW p, Grown(p), pool' = p, UNCHANGED <<catalog, uploads, tasks>>,
           requests' \in Nat,
           events' \in 0 .. MaxEvents, events' >= events, NEW k \in Calls, calls[k] # NoCall,
           Answers(k, None)
    PROVE  AInv'
<1>1. None \in Views
  BY DEF Views
<1>2. pages' \in [Tasks -> Page] /\ calls' = [calls EXCEPT ![k] = NoCall]
  BY <1>1, AnswerTypes
<1>3. TypesOK' /\ PoolGoes /\ TasksGo
  BY <1>2, ServeGoes
<1>4. PagesOK'
  BY <1>1, <1>3, Answered
<1> QED BY <1>2, <1>4, ServeFrame

-----------------------------------------------------------------------------
(* What the server does for a call *)

LEMMA Counts ==
    ASSUME AInv
    PROVE  /\ requests \in Nat /\ events \in 0 .. MaxEvents /\ events \in Nat
           /\ MaxEvents \in Nat
           /\ events' = events => events' \in 0 .. MaxEvents /\ events' >= events
           /\ Event => events' \in 0 .. MaxEvents /\ events' >= events /\ events' = events + 1
BY AssetsAssumption DEF AInv, TypesOK, AssetsAssumption, Event

\* What was read of a task is like the task.
LEMMA RecordIs ==
    ASSUME AInv, NEW t \in Tasks
    PROVE  /\ Record(t) \in TaskRecord /\ Record(t).revision = tasks[t].revision
           /\ tasks[t].revision \in Nat /\ tasks[t] \in TaskRecord
BY DEF AInv, TypesOK, Record, TaskRecord

LEMMA ReadTaskKeeps ==
    ASSUME AInv, NEW k \in Calls, ReadTask(k)
    PROVE  AInv'
<1>1. calls[k] \in Call /\ CallOK(k) /\ calls[k].task \in Tasks
  BY Shape DEF ReadTask, Idle
<1>2. PICK t \in Tasks : t = calls[k].task
  BY <1>1
<1>3. PICK c : c = [calls[k] EXCEPT !.stage = "reading", !.record = Record(t)]
  OBVIOUS
<1>4. c \in Call /\ c.stage = "reading" /\ c.record = Record(t)
      /\ c.kind = calls[k].kind /\ c.task = t /\ c.sent = calls[k].sent
  BY <1>1, <1>2, <1>3, RecordIs DEF Call
<1>5. calls' = [calls EXCEPT ![k] = c]
  BY <1>1, <1>2, <1>3 DEF ReadTask, AInv, TypesOK
<1>6. /\ pool' = pool /\ UNCHANGED <<catalog, uploads, tasks, requests>> /\ pages' = pages
      /\ pages' \in [Tasks -> Page] /\ events' = events
  BY DEF ReadTask, server, AInv, TypesOK
<1>7. /\ TypesOK' /\ PoolGoes /\ TasksGo /\ calls'[k] = c
      /\ \A o \in Calls \ {k} : calls'[o] = calls[o]
  BY <1>4, <1>5, <1>6, Counts, PoolGrown, ServeGoes
<1>8. PagesOK'
  BY <1>2, <1>4, <1>6, <1>7, PagesKept
<1>9. CallOK(k)'
  <2>1. HasRead(k)' /\ ~ HasPool(k)'
    BY <1>4, <1>7 DEF HasRead, HasPool
  <2>2. Task(k)' = tasks[t] /\ Record(calls[k].task)' = Record(t)
    BY <1>4, <1>6, <1>7 DEF Task, Record
  <2>3. Record(t) \in TaskRecord /\ Record(t).revision = tasks[t].revision /\ tasks[t].revision \in Nat
    BY RecordIs
  <2>4. c.sent # None => /\ c.kind = "confirm" /\ c.sent.revision <= tasks[t].revision
                         /\ c.sent.pool \in DOMAIN pool /\ OfVehicles(c.sent.chosen) = {}
    BY <1>1, <1>2, <1>4 DEF CallOK, Task
  <2>5. calls'[k] = c /\ pool' = pool /\ tasks' = tasks
    BY <1>6, <1>7
  <2>6. c.stage = "reading" /\ c.record = Record(t) /\ Record(t).revision <= tasks[t].revision
    BY <1>4, <2>3
  <2> QED BY <2>1, <2>2, <2>3, <2>4, <2>5, <2>6 DEF CallOK
<1> QED BY <1>4, <1>5, <1>6, <1>8, <1>9, Counts, PoolGrown, ServeFrame

LEMMA SelectedIs ==
    ASSUME AInv, NEW k \in Calls, calls[k] # NoCall, HasRead(k), NEW refs \in SUBSET References
    PROVE  SelectedVehicles(k, refs) \in SUBSET References
<1>1. calls[k].record \in TaskRecord
  BY Shape DEF CallOK
<1>2. calls[k].record.snapshot \in SUBSET References
  BY <1>1 DEF TaskRecord
<1> QED BY <1>2 DEF SelectedVehicles, OfVehicles, Matched

LEMMA PrepareKeeps ==
    ASSUME AInv, NEW k \in Calls, ~ Idle(k), calls[k].stage = "reading", pool' = Refreshed,
           UNCHANGED <<catalog, uploads, tasks, requests, events>>, Prepare(k)
    PROVE  AInv'
<1>1. calls[k] \in Call /\ CallOK(k) /\ calls[k] # NoCall /\ calls[k].stage = "reading" /\ HasRead(k)
  BY Shape DEF Idle, HasRead
<1>2. PICK t \in Tasks : t = calls[k].task
  BY <1>1, Shape
<1>3. PICK p : p = Refreshed
  OBVIOUS
<1>4. Grown(p) /\ p[Len(p)] \in SUBSET References /\ Len(p) \in Nat /\ Len(p) \in DOMAIN p
  BY <1>3, RefreshedGrown, LastIs DEF Grown
<1>5. PICK vehicles \in SUBSET References : vehicles = SelectedVehicles(k, p[Len(p)])
  BY <1>1, <1>4, SelectedIs
<1>6. PICK stage : stage = IF calls[k].sent = None THEN "listing" ELSE "prepared"
  OBVIOUS
<1>7. PICK c : c = [calls[k] EXCEPT !.stage = stage, !.revision = Len(p), !.vehicles = vehicles]
  OBVIOUS
<1>8. /\ c \in Call /\ c.stage = stage /\ c.revision = Len(p) /\ c.vehicles = vehicles
      /\ c.record = calls[k].record
      /\ c.kind = calls[k].kind /\ c.task = t /\ c.sent = calls[k].sent
  BY <1>1, <1>2, <1>4, <1>6, <1>7 DEF Call
<1>9. calls' = [calls EXCEPT ![k] = c]
  <2>1. calls' = [calls EXCEPT ![k].stage = stage, ![k].revision = Len(p), ![k].vehicles = vehicles]
    BY <1>3, <1>5, <1>6 DEF Prepare
  <2> QED BY <1>1, <1>7, <2>1 DEF AInv, TypesOK
<1>10. /\ pool' = p /\ UNCHANGED <<catalog, uploads, tasks, requests>> /\ pages' = pages
       /\ pages' \in [Tasks -> Page] /\ events' = events
  BY <1>3 DEF Prepare, AInv, TypesOK
<1>11. c.stage # "registered"
  BY <1>6, <1>8
<1>12. /\ TypesOK' /\ PoolGoes /\ TasksGo /\ calls'[k] = c
       /\ \A o \in Calls \ {k} : calls'[o] = calls[o]
       /\ Len(pool') >= Len(pool) /\ Len(pool') \in Nat /\ Len(pool) \in Nat
  BY <1>4, <1>8, <1>9, <1>10, <1>11, Counts, ServeGoes
<1>13. PagesOK'
  BY <1>2, <1>8, <1>10, <1>12, PagesKept
<1>14. CallOK(k)'
  <2>1. HasRead(k)' /\ HasPool(k)'
    BY <1>6, <1>8, <1>12 DEF HasRead, HasPool
  <2>2. /\ c.record \in TaskRecord /\ c.record.revision <= tasks[t].revision
        /\ c.record.revision = tasks[t].revision => c.record = Record(t)
    BY <1>1, <1>2, <1>8 DEF CallOK, Task
  <2>3. c.sent # None => /\ c.kind = "confirm" /\ c.sent.revision <= tasks[t].revision
                         /\ c.sent.pool \in DOMAIN p /\ OfVehicles(c.sent.chosen) = {}
                         /\ c.sent.revision <= c.record.revision
                         /\ c.sent.pool <= Len(p)
    <3> SUFFICES ASSUME c.sent # None
                 PROVE  /\ c.kind = "confirm" /\ c.sent.revision <= tasks[t].revision
                        /\ c.sent.pool \in DOMAIN p /\ OfVehicles(c.sent.chosen) = {}
                        /\ c.sent.revision <= c.record.revision
                        /\ c.sent.pool <= Len(p)
      OBVIOUS
    <3>1. c.sent.pool \in DOMAIN pool /\ pool \in Seq(SUBSET References)
      BY <1>1, <1>8 DEF CallOK, AInv, TypesOK
    <3>2. c.sent.pool \in DOMAIN p /\ c.sent.pool <= Len(p)
      BY <1>4, <1>10, <1>12, <3>1 DEF Grown
    <3> QED BY <1>1, <1>2, <1>8, <3>2 DEF CallOK, Task
  <2>4. c.stage = "listing" => c.sent = None
    BY <1>6, <1>8
  <2>5. c.stage = "prepared" => c.sent # None
    BY <1>6, <1>8
  <2>6. c.stage \in {"listing", "prepared"}
    BY <1>6, <1>8
  <2>7. SelectedVehicles(k, pool[c.revision])' = vehicles
    BY <1>5, <1>8, <1>10, <1>12 DEF SelectedVehicles
  <2>8. Record(t)' = Record(t)
    BY <1>10 DEF Record
  <2> QED BY <1>4, <1>8, <1>10, <1>12, <2>1, <2>2, <2>3, <2>4, <2>5, <2>6, <2>7, <2>8 DEF CallOK, Task
<1> QED BY <1>4, <1>8, <1>9, <1>10, <1>11, <1>13, <1>14, Counts, ServeFrame

LEMMA ReadPoolKeeps ==
    ASSUME AInv, NEW k \in Calls, ReadPool(k)
    PROVE  AInv'
<1>1. /\ ~ Idle(k) /\ calls[k].stage = "reading" /\ pool' = Refreshed
      /\ UNCHANGED <<catalog, uploads, tasks, requests, events>>
  BY DEF ReadPool
<1>2. CASE Prepare(k)
  BY <1>1, <1>2, PrepareKeeps
<1>3. CASE Answer(k, None, FALSE)
  BY <1>1, <1>3, RefreshedGrown, Counts, Ends DEF Answers, Idle
<1> QED BY <1>2, <1>3 DEF ReadPool

LEMMA FailKeeps ==
    ASSUME AInv, NEW k \in Calls, Fail(k)
    PROVE  AInv'
<1>1. calls[k] # NoCall /\ Answers(k, None)
  BY DEF Fail, Idle, Answers
<1>2. PICK p \in {pool, Refreshed} : pool' = p
  BY DEF Fail
<1>3. Grown(p) /\ UNCHANGED <<catalog, uploads, tasks, requests>> /\ Event
  BY PoolGrown, RefreshedGrown DEF Fail
<1> QED BY <1>1, <1>2, <1>3, Counts, Ends

LEMMA AnswerViewKeeps ==
    ASSUME AInv, NEW k \in Calls, AnswerView(k)
    PROVE  AInv'
<1>1. /\ calls[k] \in Call /\ CallOK(k) /\ calls[k] # NoCall /\ calls[k].task \in Tasks
      /\ HasRead(k) /\ HasPool(k)
  BY Shape DEF AnswerView, Idle, HasRead, HasPool
<1>2. PICK view : view = View(k)
  OBVIOUS
<1>3. Answers(k, view)
  BY <1>2 DEF AnswerView, Answers
<1>4. PICK offered : offered = Offered(k)
  OBVIOUS
<1>5. offered \subseteq References /\ OfVehicles(offered) = {}
  <2>1. pool[calls[k].revision] \subseteq References
    BY <1>1 DEF CallOK, AInv, TypesOK
  <2>2. Latest(Persons) \subseteq References /\ \A ref \in Latest(Persons) : ref.asset \in Persons
    BY LatestIs DEF Company
  <2>3. \A i \in DOMAIN uploads : Upload(i) \in References /\ Upload(i).asset = i /\ i \in Nat
    BY AssetsAssumption DEF AInv, TypesOK, AssetsAssumption, Upload, Ref, References
  <2>4. \A ref \in offered : ref \in References /\ (ref.asset \in Persons \/ ref.asset \in Nat)
    BY <1>4, <2>1, <2>2, <2>3 DEF Offered
  <2> QED BY <2>4, AssetsAssumption DEF OfVehicles, AssetsAssumption
<1>6. calls[k].record.revision \in Nat /\ calls[k].revision \in Nat
      /\ calls[k].record.revision <= tasks[calls[k].task].revision
      /\ calls[k].revision \in DOMAIN pool
  BY <1>1 DEF CallOK, Task, Call, TaskRecord
<1>7. view = [expected |-> calls[k].record.revision, pool |-> calls[k].revision, offered |-> offered]
      \/ view = None
  BY <1>2, <1>4 DEF View
<1>8. view \in Views
  BY <1>5, <1>6, <1>7 DEF Views
<1>9. pages' \in [Tasks -> Page] /\ calls' = [calls EXCEPT ![k] = NoCall]
  BY <1>3, <1>8, AnswerTypes
<1>10. pool' = pool /\ UNCHANGED <<catalog, uploads, tasks, requests>> /\ events' = events
  BY DEF AnswerView, server
<1>11. TypesOK' /\ PoolGoes /\ TasksGo
  BY <1>9, <1>10, Counts, PoolGrown, ServeGoes
<1>12. \A t \in Tasks : t = calls[k].task /\ view # None => ViewOK(t, view)'
  BY <1>5, <1>6, <1>7, <1>10 DEF ViewOK
<1>13. PagesOK'
  BY <1>1, <1>3, <1>8, <1>11, <1>12, Answered
<1> QED BY <1>9, <1>10, <1>13, Counts, PoolGrown, ServeFrame

LEMMA LeftGrown ==
    ASSUME AInv, NEW k \in Calls, NEW p \in Left(k)
    PROVE  Grown(p)
<1>1. p \in {pool, Refreshed} \/ (Extends(k) /\ p = Extended(k))
  BY DEF Left
<1>2. CASE p \in {pool, Refreshed}
  BY <1>2, PoolGrown, RefreshedGrown
<1>3. CASE Extends(k) /\ p = Extended(k)
  BY <1>3, ExtendedGrown DEF Extends
<1> QED BY <1>1, <1>2, <1>3

LEMMA RefuseLockKeeps ==
    ASSUME AInv, NEW k \in Calls, RefuseLock(k)
    PROVE  AInv'
<1>1. PICK p : p = pool'
  OBVIOUS
<1>2. p = pool \/ p \in Left(k)
  BY <1>1 DEF RefuseLock
<1>3. Grown(p)
  BY <1>2, PoolGrown, LeftGrown
<1>4. calls[k] # NoCall /\ Answers(k, None)
  BY Shape DEF RefuseLock, IsAt, Answers
<1>5. UNCHANGED <<catalog, uploads, tasks, requests>> /\ events' = events
  BY DEF RefuseLock
<1> QED BY <1>1, <1>3, <1>4, <1>5, Counts, Ends

-----------------------------------------------------------------------------
(* The confirmation *)

\* What the owner has confirmed was chosen from what the task and the pool
\* still are: the vehicles are those of the revision of the pool that was
\* shown, for the script the task still has.
LEMMA AsShown ==
    ASSUME AInv, NEW k \in Calls, IsAt(k, "confirm", "prepared"),
           Extends(k), TaskAsShown(k)
    PROVE  /\ calls[k].record = Record(calls[k].task) /\ Task(k).stage = "matching"
           /\ calls[k].sent.pool \in DOMAIN pool
           /\ calls[k].vehicles = Matched(Task(k).script, OfVehicles(pool[calls[k].sent.pool]))
<1>1. /\ calls[k] \in Call /\ CallOK(k) /\ calls[k] # NoCall /\ calls[k].task \in Tasks
      /\ calls[k].stage = "prepared" /\ HasRead(k) /\ HasPool(k) /\ calls[k].sent # None
  <2>1. calls[k].kind = "confirm" /\ calls[k].stage = "prepared"
    BY DEF IsAt
  <2>2. calls[k] \in Call /\ CallOK(k) /\ calls[k] # NoCall /\ calls[k].task \in Tasks
    BY <2>1, Shape
  <2> QED BY <2>1, <2>2 DEF CallOK, HasRead, HasPool
<1>2. calls[k].sent \in Sent /\ calls[k].record \in TaskRecord /\ tasks[calls[k].task] \in TaskRecord
  BY <1>1 DEF Call, CallOK, AInv, TypesOK
<1>3. PICK sr \in Nat, sp \in Nat, cr \in Nat, cv \in Nat, tr \in Nat, n \in Nat :
         /\ sr = calls[k].sent.revision /\ sp = calls[k].sent.pool
         /\ cr = calls[k].revision /\ cv = calls[k].record.revision
         /\ tr = Task(k).revision /\ n = Len(pool)
  <2>1. calls[k].sent.revision \in Nat /\ calls[k].sent.pool \in Nat
    BY <1>2 DEF Sent
  <2>2. calls[k].revision \in Nat
    BY <1>1 DEF Call
  <2>3. calls[k].record.revision \in Nat /\ Task(k).revision \in Nat
    BY <1>2 DEF TaskRecord, Task
  <2>4. Len(pool) \in Nat
    BY DEF AInv, TypesOK
  <2> QED BY <2>1, <2>2, <2>3, <2>4
<1>4. cv = tr
  <2>1. sr = tr /\ sr <= cv /\ cv <= tr
    BY <1>1, <1>3 DEF TaskAsShown, CallOK
  <2> QED BY <2>1
<1>5. calls[k].record = Record(calls[k].task)
  BY <1>1, <1>3, <1>4 DEF CallOK
<1>6. Task(k).stage = "matching"
  BY DEF Extends, CanConfirm
<1>7. sp = cr
  <2>1. PICK m \in Nat : m = Len(Refreshed)
    BY RefreshedGrown DEF Grown
  <2>2. sp = m /\ n <= m
    BY <1>3, <2>1, RefreshedGrown DEF Extends, PoolAsShown, Grown
  <2>3. cr <= n
    BY <1>1, <1>3 DEF CallOK, AInv, TypesOK
  <2>4. sp <= cr
    BY <1>1, <1>3 DEF CallOK
  <2> QED BY <2>2, <2>3, <2>4
<1>8. calls[k].record.stage = "matching" /\ calls[k].record.script = Task(k).script
  BY <1>2, <1>5, <1>6 DEF Record, Task, TaskRecord
<1>9. calls[k].vehicles = Matched(calls[k].record.script, OfVehicles(pool[calls[k].sent.pool]))
  BY <1>1, <1>3, <1>7, <1>8 DEF CallOK, SelectedVehicles
<1> QED BY <1>1, <1>5, <1>6, <1>8, <1>9 DEF CallOK

\* A confirmation is answered with a view, read anew.
LEMMA ThenViewIs ==
    ASSUME AInv, NEW k \in Calls, calls[k] \in Call, calls[k].kind = "confirm", ThenView(k)
    PROVE  \E c \in Call : /\ calls' = [calls EXCEPT ![k] = c]
                           /\ c.kind = "confirm" /\ c.task = calls[k].task /\ c.stage = "arrived"
                           /\ c.sent = None
<1>1. PICK c : c = [NewCall("confirm", calls[k].task) EXCEPT !.request = calls[k].request]
  OBVIOUS
<1>2. c = [kind |-> "confirm", task |-> calls[k].task, stage |-> "arrived", record |-> None,
           revision |-> 0, vehicles |-> {}, request |-> calls[k].request,
           sent |-> None, upload |-> 0]
  BY <1>1 DEF NewCall
<1>3. c \in Call
  BY <1>2 DEF Call
<1>4. calls' = [calls EXCEPT ![k] = c]
  BY <1>1 DEF ThenView
<1> QED BY <1>2, <1>3, <1>4

\* A call that has just arrived, with nothing to confirm, holds nothing.
LEMMA Arrived ==
    ASSUME NEW k \in Calls, calls'[k].stage = "arrived", calls'[k].sent = None
    PROVE  CallOK(k)'
BY DEF CallOK, HasRead, HasPool

LEMMA ReplayKeeps ==
    ASSUME AInv, NEW k \in Calls, Replay(k)
    PROVE  AInv'
<1>1. calls[k] \in Call /\ calls[k].kind = "confirm" /\ calls[k] # NoCall
  BY Shape DEF Replay, IsAt
<1>2. PICK c \in Call : /\ calls' = [calls EXCEPT ![k] = c]
                        /\ c.kind = "confirm" /\ c.task = calls[k].task /\ c.stage = "arrived"
                        /\ c.sent = None
  BY <1>1, ThenViewIs DEF Replay
<1>3. /\ pool' = pool /\ UNCHANGED <<catalog, uploads, tasks, requests>> /\ pages' = pages
      /\ pages' \in [Tasks -> Page] /\ events' = events
  BY DEF Replay, server, AInv, TypesOK
<1>4. /\ TypesOK' /\ PoolGoes /\ TasksGo /\ calls'[k] = c
      /\ \A o \in Calls \ {k} : calls'[o] = calls[o]
  BY <1>2, <1>3, Counts, PoolGrown, ServeGoes
<1>5. PagesOK'
  BY <1>1, <1>2, <1>3, <1>4, PagesKept
<1>6. CallOK(k)'
  BY <1>2, <1>4, Arrived
<1> QED BY <1>2, <1>3, <1>5, <1>6, Counts, PoolGrown, ServeFrame

LEMMA LockSelectionKeeps ==
    ASSUME AInv, NEW k \in Calls, LockSelection(k)
    PROVE  AInv'
<1>1. /\ calls[k] \in Call /\ CallOK(k) /\ calls[k] # NoCall /\ calls[k].kind = "confirm"
      /\ calls[k].stage = "prepared" /\ calls[k].sent # None /\ HasPool(k)
  <2>1. calls[k].kind = "confirm" /\ calls[k].stage = "prepared"
    BY DEF LockSelection, IsAt
  <2> QED BY <2>1, Shape DEF CallOK, HasPool
<1>2. PICK t \in Tasks : t = calls[k].task
  BY <1>1 DEF Call
<1>3. PICK p : p = Extended(k)
  OBVIOUS
<1>4. /\ Grown(p) /\ Selection(k) \subseteq p[Len(p)] /\ Len(p) \in DOMAIN p
      /\ p[Len(p)] \subseteq References /\ Len(p) \in Nat
  BY <1>3, ExtendedGrown, LastIs DEF LockSelection, Extends, Grown
<1>5. PICK payload : payload = Payload(k)
  OBVIOUS
<1>6. PICK selected : selected = Selection(k)
  OBVIOUS
<1>7. /\ payload.sent = calls[k].sent /\ payload.vehicles = calls[k].vehicles
      /\ payload \in [sent : Sent, vehicles : SUBSET References]
      /\ selected = payload.vehicles \cup payload.sent.chosen
      /\ selected \in SUBSET References
  BY <1>1, <1>4, <1>5, <1>6 DEF Payload, Selection, Call
<1>8. /\ tasks[t].stage = "matching" /\ payload.sent.pool \in DOMAIN pool
      /\ payload.vehicles = Matched(tasks[t].script, OfVehicles(pool[payload.sent.pool]))
  BY <1>2, <1>7, AsShown DEF LockSelection, Task
<1>9. OfVehicles(payload.sent.chosen) = {}
  BY <1>1, <1>7 DEF CallOK
<1>10. PICK n \in Nat : n = tasks[t].revision
  BY RecordIs
<1>11. PICK new : new = [request |-> calls[k].request, payload |-> payload,
                         script |-> tasks[t].script, source |-> Len(p), result |-> n + 1]
  OBVIOUS
<1>12. tasks[t] \in TaskRecord /\ new \in Receipt
  <2>1. tasks[t] \in TaskRecord /\ tasks[t].script \in SUBSET Vehicles
    BY RecordIs DEF TaskRecord
  <2>2. calls[k].request \in Nat
    BY <1>1 DEF Call
  <2>3. n + 1 \in Nat
    OBVIOUS
  <2> QED BY <1>4, <1>7, <1>11, <2>1, <2>2, <2>3 DEF Receipt
<1>13. PICK task : task = [revision |-> n + 1, stage |-> "storyboard", script |-> tasks[t].script,
                           snapshot |-> selected, source |-> Len(p),
                           receipts |-> tasks[t].receipts \cup {new}]
  OBVIOUS
<1>14. /\ task \in TaskRecord /\ task.revision = n + 1 /\ task.stage = "storyboard"
       /\ task.snapshot = selected /\ task.source = Len(p)
       /\ task.receipts = tasks[t].receipts \cup {new}
  BY <1>4, <1>7, <1>12, <1>13 DEF TaskRecord, Stages
<1>15. tasks' = [tasks EXCEPT ![t] = task]
  <2>1. Task(k) = tasks[t]
    BY <1>2 DEF Task
  <2>2. new = [request |-> calls[k].request, payload |-> Payload(k),
               script |-> Task(k).script, source |-> Len(Extended(k)),
               result |-> Task(k).revision + 1]
    BY <1>3, <1>5, <1>10, <1>11, <2>1
  <2>3. Locked(k) = task
    BY <1>3, <1>6, <1>10, <1>13, <2>1, <2>2 DEF Locked
  <2>4. tasks' = [tasks EXCEPT ![calls[k].task] = Locked(k)]
    BY DEF LockSelection
  <2> QED BY <1>2, <2>3, <2>4
<1>16. tasks \in [Tasks -> TaskRecord]
  BY DEF AInv, TypesOK
<1>17. tasks' \in [Tasks -> TaskRecord] /\ tasks'[t] = task
       /\ \A o \in Tasks \ {t} : tasks'[o] = tasks[o]
  BY <1>14, <1>15, <1>16
<1>18. PICK c \in Call : /\ calls' = [calls EXCEPT ![k] = c]
                         /\ c.kind = "confirm" /\ c.task = t /\ c.stage = "arrived"
                         /\ c.sent = None
  BY <1>1, <1>2, ThenViewIs DEF LockSelection
<1>19. calls'[k] = c /\ (\A o \in Calls \ {k} : calls'[o] = calls[o])
       /\ calls' \in [Calls -> {NoCall} \cup Call]
  BY <1>18 DEF AInv, TypesOK
<1>20. pool' = p /\ UNCHANGED <<catalog, uploads, pages, requests, events>>
  BY <1>3 DEF LockSelection
<1>21. /\ pool' \in Seq(SUBSET References) /\ pool' # <<>> /\ PoolGoes
       /\ Len(pool') >= Len(pool) /\ Len(pool') \in Nat /\ Len(pool) \in Nat
       /\ \A r \in DOMAIN pool' \ DOMAIN pool : Sound(pool[r])'
  BY <1>4, <1>20, GrownGoes
<1>22. TypesOK'
  BY <1>17, <1>19, <1>20, <1>21 DEF AInv, TypesOK
<1>23. TasksGo
  <2>1. ASSUME NEW o \in Tasks
        PROVE  TaskGoes(o)
    <3>1. tasks[o].revision \in Nat
      BY RecordIs
    <3>2. CASE o = t
      BY <1>10, <1>14, <1>17, <3>2 DEF TaskGoes
    <3>3. CASE o # t
      BY <1>17, <3>1, <3>3 DEF TaskGoes
    <3> QED BY <3>2, <3>3
  <2> QED BY <2>1 DEF TasksGo
<1>24. UploadsGo /\ UploadsOK'
  BY <1>20 DEF UploadsGo, UploadsOK, RanksApart, FilesOK, AInv
<1>25. UploadsApart'
  <2> SUFFICES ASSUME NEW o \in Calls, NEW q \in Calls, o # q,
                      calls'[o] # NoCall, calls'[q] # NoCall,
                      calls'[o].stage = "registered", calls'[q].stage = "registered"
               PROVE  calls'[o].upload # calls'[q].upload
    BY DEF UploadsApart
  <2>1. o # k /\ q # k
    BY <1>18, <1>19
  <2> QED BY <1>19, <2>1 DEF AInv, CallsOK, UploadsApart
<1>26. PagesOK'
  BY <1>1, <1>2, <1>18, <1>19, <1>20, <1>21, <1>22, <1>23, PagesKept
<1>27. ASSUME NEW o \in Calls
       PROVE  \/ calls'[o] = NoCall \/ CallOK(o)'
              \/ /\ calls'[o] = calls[o]
                 /\ calls[o] # NoCall /\ calls[o].stage = "registered" =>
                       uploads'[calls[o].upload].status = "pending"
  <2>1. CASE o = k
    BY <1>18, <1>19, <2>1, Arrived
  <2>2. CASE o # k
    BY <1>19, <1>20, <2>2, Shape DEF CallOK
  <2> QED BY <2>1, <2>2
<1>28. ReceiptOK(t, new)'
  <2>1. new.result = n + 1 /\ new.payload = payload /\ new.source = Len(p)
        /\ new.script = tasks[t].script
    BY <1>11
  <2>2. /\ payload.sent.pool \in DOMAIN pool' /\ pool'[payload.sent.pool] = pool[payload.sent.pool]
        /\ Len(p) \in DOMAIN pool' /\ selected \subseteq pool'[Len(p)]
    BY <1>4, <1>6, <1>8, <1>20, <1>21 DEF PoolGoes
  <2>3. new.result <= tasks'[t].revision
    BY <1>14, <1>17, <2>1
  <2> QED BY <1>7, <1>8, <1>9, <1>14, <1>17, <2>1, <2>2, <2>3 DEF ReceiptOK
<1>29. ASSUME NEW o \in Tasks
       PROVE  /\ tasks'[o].source \in 0 .. Len(pool')
              /\ \A r \in tasks'[o].receipts \ tasks[o].receipts : ReceiptOK(o, r)'
  <2>1. CASE o = t
    BY <1>4, <1>14, <1>17, <1>20, <1>28, <2>1
  <2>2. CASE o # t
    BY <1>17, <1>21, <2>2 DEF AInv, TasksOK
  <2> QED BY <2>1, <2>2
<1> QED BY <1>21, <1>22, <1>23, <1>24, <1>25, <1>26, <1>27, <1>29, Frame

-----------------------------------------------------------------------------
(* An upload *)

\* A step that leaves the pool, the tasks and the catalog alone, and one call
\* or none goes on.
LEMMA UploadFrame ==
    ASSUME AInv, UNCHANGED <<catalog, pool, tasks, requests>>,
           NEW k \in Calls, NEW c \in {NoCall} \cup Call,
           calls' = [calls EXCEPT ![k] = c], c = NoCall \/ CallOK(k)',
           events' \in 0 .. MaxEvents, events' >= events,
           uploads' \in Seq(UploadRecord), Len(uploads') <= events',
           pages' \in [Tasks -> Page],
           TypesOK' /\ PoolGoes /\ TasksGo => PagesOK',
           UploadsGo, UploadsOK', UploadsApart',
           \A o \in Calls \ {k} : calls[o] # NoCall /\ calls[o].stage = "registered" =>
              uploads'[calls[o].upload].status = "pending"
    PROVE  AInv'
<1>1. /\ calls \in [Calls -> {NoCall} \cup Call] /\ calls' \in [Calls -> {NoCall} \cup Call]
      /\ calls'[k] = c /\ \A o \in Calls \ {k} : calls'[o] = calls[o]
  BY DEF AInv, TypesOK
<1>2. TypesOK'
  <2>1. events \in Nat /\ events' \in Nat
    BY AssetsAssumption DEF AInv, TypesOK, AssetsAssumption
  <2>2. \A a \in Company : catalog[a] \in Nat /\ catalog[a] <= events + 1
    BY DEF AInv, TypesOK
  <2>3. \A a \in Company : catalog[a] <= events' + 1
    BY <2>1, <2>2
  <2> QED BY <1>1, <2>3 DEF AInv, TypesOK
<1>3. PoolGoes
  BY DEF PoolGoes
<1>4. TasksGo
  BY RecordIs DEF TasksGo, TaskGoes
<1>5. \A t \in Tasks : tasks'[t].source \in 0 .. Len(pool') /\ tasks'[t].receipts = tasks[t].receipts
  BY DEF AInv, TasksOK
<1>6. ASSUME NEW o \in Calls
      PROVE  \/ calls'[o] = NoCall \/ CallOK(o)'
             \/ /\ calls'[o] = calls[o]
                /\ calls[o] # NoCall /\ calls[o].stage = "registered" =>
                      uploads'[calls[o].upload].status = "pending"
  BY <1>1
<1>7. \A r \in DOMAIN pool' \ DOMAIN pool : Sound(pool[r])'
  OBVIOUS
<1>8. \A t \in Tasks : \A r \in tasks'[t].receipts \ tasks[t].receipts : ReceiptOK(t, r)'
  BY <1>5
<1> QED BY <1>2, <1>3, <1>4, <1>5, <1>6, <1>7, <1>8, Frame

LEMMA NewCallIs ==
    ASSUME NEW kind \in {"load", "confirm", "upload", "reload"}, NEW t \in Tasks
    PROVE  /\ NewCall(kind, t) \in Call /\ NewCall(kind, t).kind = kind
           /\ NewCall(kind, t).task = t /\ NewCall(kind, t).sent = None
           /\ NewCall(kind, t).stage = "arrived"
BY DEF NewCall, Call

LEMMA UploadTemporaryKeeps ==
    ASSUME AInv, NEW t \in Tasks, NEW k \in Calls, NEW file \in Files, NEW usable \in BOOLEAN,
           NEW rank \in 1 .. MaxEvents, UploadTemporary(t, k, file, usable, rank)
    PROVE  AInv'
<1>1. PICK n \in Nat : n = Len(uploads)
  BY DEF AInv, TypesOK
<1>0. PICK settled : settled = {o \in DOMAIN uploads : uploads[o].status # "pending"}
  OBVIOUS
<1>2. PICK u : u = [file |-> file, usable |-> usable, rank |-> rank, status |-> "pending",
                    settled |-> settled]
  OBVIOUS
<1>3. u \in UploadRecord /\ u.status = "pending" /\ u.rank = rank /\ u.settled = settled
  <2>1. settled \subseteq Nat /\ rank \in Nat
    BY <1>0, Counts DEF AInv, TypesOK
  <2> QED BY <1>2, <2>1 DEF UploadRecord
<1>4. uploads' = Append(uploads, u)
  BY <1>0, <1>2 DEF UploadTemporary
<1>5. /\ uploads' \in Seq(UploadRecord) /\ Len(uploads') = n + 1 /\ uploads'[n + 1] = u
      /\ DOMAIN uploads = 1 .. n /\ DOMAIN uploads' = 1 .. n + 1
      /\ \A i \in 1 .. n : uploads'[i] = uploads[i]
  BY <1>1, <1>3, <1>4 DEF AInv, TypesOK
<1>6. PICK c \in Call : /\ c = [NewCall("upload", t) EXCEPT !.stage = "registered", !.upload = n + 1]
                        /\ c.kind = "upload" /\ c.task = t /\ c.stage = "registered"
                        /\ c.sent = None /\ c.upload = n + 1
  <2>1. PICK fresh \in Call : fresh = NewCall("upload", t) /\ fresh.kind = "upload"
                              /\ fresh.task = t /\ fresh.sent = None
    BY NewCallIs
  <2>2. PICK c : c = [fresh EXCEPT !.stage = "registered", !.upload = n + 1]
    OBVIOUS
  <2>3. /\ c \in Call /\ c.kind = fresh.kind /\ c.task = fresh.task /\ c.stage = "registered"
        /\ c.sent = fresh.sent /\ c.upload = n + 1
    <3>1. PICK m \in Nat : m = n + 1
      OBVIOUS
    <3> QED BY <2>2, <3>1 DEF Call
  <2> QED BY <2>1, <2>2, <2>3
<1>7. c \in Call
  OBVIOUS
<1>8. calls' = [calls EXCEPT ![k] = c]
  <2>1. calls' = [calls EXCEPT ![k] = [NewCall("upload", t) EXCEPT
                    !.stage = "registered", !.upload = Len(uploads) + 1]]
    BY DEF UploadTemporary
  <2> QED BY <1>1, <1>6, <2>1
<1>9. calls'[k] = c /\ (\A o \in Calls \ {k} : calls'[o] = calls[o]) /\ calls[k] = NoCall
  BY <1>8 DEF AInv, TypesOK, UploadTemporary, Idle
<1>10. /\ UNCHANGED <<catalog, pool, tasks, requests>> /\ Event
       /\ pages' = [pages EXCEPT ![t] = [pages[t] EXCEPT !.awaits = k]]
  BY DEF UploadTemporary, Set
<1>11. pages \in [Tasks -> Page] /\ \A s \in Tasks : PageOK(s)
  BY DEF AInv, TypesOK, PagesOK
<1>12. PICK page : page = [pages[t] EXCEPT !.awaits = k]
  OBVIOUS
<1>13. page \in Page /\ page.view = pages[t].view /\ page.loads = pages[t].loads /\ page.awaits = k
  BY <1>11, <1>12 DEF Page
<1>14. pages' \in [Tasks -> Page] /\ pages'[t] = page /\ \A s \in Tasks \ {t} : pages'[s] = pages[s]
  BY <1>10, <1>11, <1>12, <1>13
<1>15. \A i \in 1 .. n : uploads'[i].file = uploads[i].file /\ uploads'[i].status = uploads[i].status
  BY <1>5
<1>16. UploadsGo
  BY <1>5 DEF UploadsGo
<1>17. UploadsOK'
  <2>1. RanksApart'
    <3>1. \A o \in 1 .. n : uploads[o].rank # rank
      BY <1>5 DEF UploadTemporary
    <3> QED BY <1>3, <1>5, <3>1 DEF AInv, UploadsOK, RanksApart
  <2>2. ASSUME NEW o \in 1 .. n + 1, NEW i \in 1 .. o - 1, uploads'[i].file = uploads'[o].file
        PROVE  /\ uploads'[o].status = "valid" => uploads'[o].rank < uploads'[i].rank
               /\ uploads'[i].status = "valid" /\ i \notin uploads'[o].settled =>
                     uploads'[i].rank < uploads'[o].rank
    <3>1. CASE o = n + 1
      <4>1. i \in 1 .. n /\ uploads'[i] = uploads[i]
        BY <1>5, <3>1
      <4>2. uploads[i].status = "valid" => i \in settled
        BY <1>0, <1>5, <4>1
      <4> QED BY <1>3, <1>5, <3>1, <4>1, <4>2
    <3>2. CASE o # n + 1
      <4>1. o \in 1 .. n /\ i \in 1 .. n /\ uploads'[i] = uploads[i] /\ uploads'[o] = uploads[o]
        BY <1>5, <3>2
      <4> QED BY <1>5, <2>2, <4>1 DEF AInv, UploadsOK, FilesOK
    <3> QED BY <3>1, <3>2
  <2>3. FilesOK'
    BY <1>5, <2>2 DEF FilesOK
  <2> QED BY <2>1, <2>3 DEF UploadsOK
<1>18. \A o \in Calls : calls[o] # NoCall /\ calls[o].stage = "registered" =>
          calls[o].upload \in 1 .. n /\ uploads'[calls[o].upload].status = "pending"
  BY <1>5, <1>15, Shape DEF CallOK
<1>19. UploadsApart'
  <2> SUFFICES ASSUME NEW o \in Calls, NEW q \in Calls, o # q,
                      calls'[o] # NoCall, calls'[q] # NoCall,
                      calls'[o].stage = "registered", calls'[q].stage = "registered"
               PROVE  calls'[o].upload # calls'[q].upload
    BY DEF UploadsApart
  <2>1. c.upload = n + 1
    BY <1>6
  <2>2. CASE o = k
    BY <1>9, <1>18, <2>1, <2>2
  <2>3. CASE q = k
    BY <1>9, <1>18, <2>1, <2>3
  <2>4. CASE o # k /\ q # k
    BY <1>9, <2>4 DEF AInv, CallsOK, UploadsApart
  <2> QED BY <2>2, <2>3, <2>4
<1>20. CallOK(k)'
  <2>1. /\ calls'[k].stage = "registered" /\ calls'[k].sent = None /\ calls'[k].upload = n + 1
        /\ n + 1 \in DOMAIN uploads' /\ uploads'[n + 1].status = "pending"
    BY <1>3, <1>5, <1>6, <1>9
  <2>2. ~ HasRead(k)' /\ ~ HasPool(k)'
    BY <2>1 DEF HasRead, HasPool
  <2> QED BY <2>1, <2>2 DEF CallOK
<1>21. ASSUME TypesOK', PoolGoes, TasksGo
       PROVE  PagesOK'
  <2>1. ASSUME NEW s \in Tasks
        PROVE  PageOK(s)'
    <3>1. pages[s] \in Page
      BY <1>11
    <3>2. pages[s].loads # None => pages[s].loads \in Calls \ {k}
      BY <1>9, <1>11, <3>1 DEF PageOK, Page, NoCall
    <3>3. pages[s].awaits # None => pages[s].awaits \in Calls \ {k}
      BY <1>9, <1>11, <3>1 DEF PageOK, Page, NoCall
    <3>4. CASE s = t
      <4>1. pages'[s].loads # None => calls'[pages'[s].loads].kind = "load" /\ calls'[pages'[s].loads].task = s
        BY <1>9, <1>11, <1>13, <1>14, <3>2, <3>4 DEF PageOK
      <4>2. calls'[pages'[s].awaits].kind = "upload" /\ calls'[pages'[s].awaits].task = s
        BY <1>6, <1>9, <1>13, <1>14, <3>4
      <4>3. pages[s].view # None => /\ pages[s].view.expected <= tasks'[s].revision
                                    /\ pages[s].view.pool \in DOMAIN pool'
                                    /\ OfVehicles(pages[s].view.offered) = {}
        BY <1>10, <1>11 DEF PageOK
      <4>4. pages'[s].view = pages[s].view /\ pages'[s].awaits = k
        BY <1>13, <1>14, <3>4
      <4>5. /\ calls'[pages'[s].awaits].kind \in {"confirm", "upload", "reload"}
            /\ calls'[pages'[s].awaits].task = s
        BY <4>2
      <4> QED BY <4>1, <4>3, <4>4, <4>5 DEF PageOK
    <3>5. CASE s # t
      BY <1>9, <1>14, <1>21, <3>2, <3>3, <3>5, PageStays
    <3> QED BY <3>4, <3>5
  <2> QED BY <2>1 DEF PagesOK
<1>22. Len(uploads') <= events' /\ events' \in 0 .. MaxEvents /\ events' >= events
  <2>1. n <= events
    BY <1>1 DEF AInv, TypesOK
  <2> QED BY <1>1, <1>5, <1>10, <2>1, Counts
<1> QED BY <1>5, <1>7, <1>8, <1>10, <1>14, <1>16, <1>17, <1>18, <1>19, <1>20, <1>21, <1>22, UploadFrame

LEMMA Ranks ==
    ASSUME AInv
    PROVE  \A o \in DOMAIN uploads : uploads[o].rank \in Nat
<1>1. \A o \in DOMAIN uploads : uploads[o] \in UploadRecord
  BY DEF AInv, TypesOK
<1> QED BY <1>1 DEF UploadRecord

LEMMA ValidateKeeps ==
    ASSUME AInv, NEW k \in Calls, Validate(k)
    PROVE  AInv'
<1>1. /\ calls[k] \in Call /\ CallOK(k) /\ calls[k] # NoCall /\ calls[k].kind = "upload"
      /\ calls[k].stage = "registered" /\ calls[k].sent = None
  <2>1. calls[k].kind = "upload" /\ calls[k].stage = "registered"
    BY DEF Validate, IsAt
  <2> QED BY <2>1, Shape DEF CallOK
<1>2. PICK i : i = calls[k].upload
  OBVIOUS
<1>3. i \in DOMAIN uploads /\ uploads[i].status = "pending" /\ uploads[i] \in UploadRecord
  BY <1>1, <1>2 DEF CallOK, AInv, TypesOK
<1>4. PICK status : status = IF ~ uploads[i].usable THEN "rejected"
                             ELSE IF CameBefore(i) THEN "needs_review" ELSE "valid"
  OBVIOUS
<1>5. uploads' = [uploads EXCEPT ![i].status = status]
  BY <1>2, <1>4 DEF Validate
<1>6. PICK u : u = [uploads[i] EXCEPT !.status = status]
  OBVIOUS
<1>7. status \in {"rejected", "needs_review", "valid"} /\ (status = "valid" => Earlier(i) = {})
  BY <1>4 DEF CameBefore
<1>8. /\ u \in UploadRecord /\ u.file = uploads[i].file /\ u.status = status
      /\ u.rank = uploads[i].rank /\ u.settled = uploads[i].settled
  BY <1>3, <1>6, <1>7 DEF UploadRecord
<1>9. /\ uploads' \in Seq(UploadRecord) /\ Len(uploads') = Len(uploads)
      /\ DOMAIN uploads' = DOMAIN uploads
      /\ uploads'[i] = u /\ \A o \in DOMAIN uploads \ {i} : uploads'[o] = uploads[o]
  <2>1. uploads' = [uploads EXCEPT ![i] = u]
    BY <1>5, <1>6
  <2> QED BY <1>3, <1>8, <2>1 DEF AInv, TypesOK
<1>10. \A o \in DOMAIN uploads : uploads'[o].file = uploads[o].file
  BY <1>8, <1>9
<1>11. UploadsGo
  BY <1>3, <1>9, <1>10 DEF UploadsGo
<1>12. UploadsOK'
  <2>1. \A o \in DOMAIN uploads : /\ uploads'[o].rank = uploads[o].rank
                                  /\ uploads'[o].settled = uploads[o].settled
                                  /\ o # i => uploads'[o].status = uploads[o].status
    BY <1>8, <1>9
  <2>2. RanksApart'
    BY <1>9, <2>1 DEF AInv, UploadsOK, RanksApart
  <2>3. \A o \in DOMAIN uploads : uploads[o].rank \in Nat
    BY Ranks
  <2>4. uploads'[i].status = "valid" =>
           \A o \in DOMAIN uploads \ {i} : uploads[o].file = uploads[i].file =>
              uploads[i].rank < uploads[o].rank
    <3> SUFFICES ASSUME uploads'[i].status = "valid", NEW o \in DOMAIN uploads \ {i},
                        uploads[o].file = uploads[i].file
                 PROVE  uploads[i].rank < uploads[o].rank
      OBVIOUS
    <3>1. Earlier(i) = {}
      BY <1>7, <1>8, <1>9
    <3>2. ~ (uploads[o].rank < uploads[i].rank)
      BY <3>1 DEF Earlier
    <3>3. uploads[o].rank # uploads[i].rank
      BY <1>3 DEF AInv, UploadsOK, RanksApart
    <3> QED BY <1>3, <2>3, <3>2, <3>3
  <2>5. ASSUME NEW o \in DOMAIN uploads, NEW j \in 1 .. o - 1,
               uploads[j].file = uploads[o].file
        PROVE  /\ uploads'[o].status = "valid" => uploads[o].rank < uploads[j].rank
               /\ uploads'[j].status = "valid" /\ j \notin uploads[o].settled =>
                     uploads[j].rank < uploads[o].rank
    <3>1. j \in DOMAIN uploads /\ j # o
      BY DEF AInv, TypesOK
    <3>2. /\ uploads[o].status = "valid" => uploads[o].rank < uploads[j].rank
          /\ uploads[j].status = "valid" /\ j \notin uploads[o].settled =>
                uploads[j].rank < uploads[o].rank
      BY <2>5 DEF AInv, UploadsOK, FilesOK
    <3>3. CASE o = i
      BY <2>1, <2>4, <2>5, <3>1, <3>2, <3>3
    <3>4. CASE j = i
      BY <2>1, <2>4, <2>5, <3>1, <3>2, <3>4
    <3>5. CASE o # i /\ j # i
      BY <2>1, <3>1, <3>2, <3>5
    <3> QED BY <3>3, <3>4, <3>5
  <2>6. FilesOK'
    <3> SUFFICES ASSUME NEW o \in DOMAIN uploads, NEW j \in 1 .. o - 1,
                        uploads'[j].file = uploads'[o].file
                 PROVE  /\ uploads'[o].status = "valid" => uploads'[o].rank < uploads'[j].rank
                        /\ uploads'[j].status = "valid" /\ j \notin uploads'[o].settled =>
                              uploads'[j].rank < uploads'[o].rank
      BY <1>9 DEF FilesOK
    <3>1. j \in DOMAIN uploads
      BY DEF AInv, TypesOK
    <3>2. uploads[j].file = uploads[o].file
      BY <1>10, <3>1
    <3> QED BY <2>1, <2>5, <3>1, <3>2
  <2> QED BY <2>2, <2>6 DEF UploadsOK
<1>13. UNCHANGED <<catalog, pool, tasks, requests, events>>
  BY DEF Validate
<1>14. \A o \in Calls \ {k} : calls[o] # NoCall /\ calls[o].stage = "registered" =>
          uploads'[calls[o].upload].status = "pending"
  <2> SUFFICES ASSUME NEW o \in Calls \ {k}, calls[o] # NoCall, calls[o].stage = "registered"
               PROVE  uploads'[calls[o].upload].status = "pending"
    OBVIOUS
  <2>1. calls[o].upload # i
    BY <1>1, <1>2 DEF AInv, CallsOK, UploadsApart
  <2>2. calls[o].upload \in DOMAIN uploads /\ uploads[calls[o].upload].status = "pending"
    BY Shape DEF CallOK
  <2> QED BY <1>9, <2>1, <2>2
<1>15. Len(uploads') <= events' /\ events' \in 0 .. MaxEvents /\ events' >= events
  BY <1>9, <1>13, Counts DEF AInv, TypesOK
<1>16. ASSUME NEW c \in {NoCall} \cup Call, calls' = [calls EXCEPT ![k] = c],
              c # NoCall => c.stage # "registered"
       PROVE  UploadsApart' /\ calls'[k] = c /\ \A o \in Calls \ {k} : calls'[o] = calls[o]
  <2>1. calls'[k] = c /\ \A o \in Calls \ {k} : calls'[o] = calls[o]
    BY <1>16 DEF AInv, TypesOK
  <2> SUFFICES ASSUME NEW o \in Calls, NEW q \in Calls, o # q,
                      calls'[o] # NoCall, calls'[q] # NoCall,
                      calls'[o].stage = "registered", calls'[q].stage = "registered"
               PROVE  calls'[o].upload # calls'[q].upload
    BY <2>1 DEF UploadsApart
  <2>2. o # k /\ q # k
    BY <1>16, <2>1
  <2> QED BY <2>1, <2>2 DEF AInv, CallsOK, UploadsApart
<1>17. CASE status = "valid"
  <2>1. PICK c : c = [calls[k] EXCEPT !.stage = "validated"]
    OBVIOUS
  <2>2. c \in Call /\ c.stage = "validated" /\ c.upload = i /\ c.kind = "upload"
        /\ c.sent = None /\ c.task = calls[k].task
    BY <1>1, <1>2, <2>1 DEF Call
  <2>3. calls' = [calls EXCEPT ![k] = c] /\ pages' = pages
    <3>1. calls' = [calls EXCEPT ![k].stage = "validated"] /\ pages' = pages
      BY <1>2, <1>4, <1>17 DEF Validate
    <3> QED BY <2>1, <3>1 DEF AInv, TypesOK
  <2>4. UploadsApart' /\ calls'[k] = c /\ \A o \in Calls \ {k} : calls'[o] = calls[o]
    BY <1>16, <2>2, <2>3
  <2>5. CallOK(k)'
    <3>1. ~ HasRead(k)' /\ ~ HasPool(k)'
      BY <2>2, <2>4 DEF HasRead, HasPool
    <3> QED BY <1>3, <1>9, <2>2, <2>4, <3>1 DEF CallOK
  <2>6. ASSUME TypesOK', PoolGoes, TasksGo
        PROVE  PagesOK'
    BY <1>1, <2>2, <2>3, <2>4, <2>6, PagesKept
  <2>7. pages' \in [Tasks -> Page]
    BY <2>3 DEF AInv, TypesOK
  <2> QED BY <1>9, <1>11, <1>12, <1>13, <1>14, <1>15, <2>2, <2>3, <2>4, <2>5, <2>6, <2>7, UploadFrame
<1>18. CASE status # "valid"
  <2>1. Answers(k, None)
    BY <1>2, <1>4, <1>18 DEF Validate, Answers
  <2>2. None \in Views
    BY DEF Views
  <2>3. calls' = [calls EXCEPT ![k] = NoCall] /\ pages' \in [Tasks -> Page]
    BY <2>1, <2>2, AnswerTypes
  <2>4. UploadsApart'
    BY <1>16, <2>3
  <2>5. ASSUME TypesOK', PoolGoes, TasksGo
        PROVE  PagesOK'
    BY <1>1, <2>1, <2>2, <2>5, Answered
  <2> QED BY <1>9, <1>11, <1>12, <1>13, <1>14, <1>15, <2>3, <2>4, <2>5, UploadFrame
<1> QED BY <1>17, <1>18

LEMMA ReadRevisionKeeps ==
    ASSUME AInv, NEW k \in Calls, ReadRevision(k)
    PROVE  AInv'
<1>1. /\ calls[k] \in Call /\ CallOK(k) /\ calls[k] # NoCall /\ calls[k].kind = "upload"
      /\ calls[k].stage = "validated" /\ calls[k].sent = None
  <2>1. calls[k].kind = "upload" /\ calls[k].stage = "validated"
    BY DEF ReadRevision, IsAt
  <2> QED BY <2>1, Shape DEF CallOK
<1>2. PICK p : p = Refreshed
  OBVIOUS
<1>3. Grown(p) /\ Len(p) \in Nat
  BY <1>2, RefreshedGrown DEF Grown
<1>4. PICK c : c = [calls[k] EXCEPT !.stage = "adding", !.revision = Len(p)]
  OBVIOUS
<1>5. /\ c \in Call /\ c.stage = "adding" /\ c.kind = calls[k].kind /\ c.task = calls[k].task
      /\ c.sent = None /\ c.upload = calls[k].upload
  BY <1>1, <1>3, <1>4 DEF Call
<1>6. calls' = [calls EXCEPT ![k] = c]
  BY <1>1, <1>2, <1>4 DEF ReadRevision, AInv, TypesOK
<1>7. /\ pool' = p /\ UNCHANGED <<catalog, uploads, tasks, requests>> /\ pages' = pages
      /\ pages' \in [Tasks -> Page] /\ events' = events
  BY <1>2 DEF ReadRevision, AInv, TypesOK
<1>8. /\ TypesOK' /\ PoolGoes /\ TasksGo /\ calls'[k] = c
      /\ \A o \in Calls \ {k} : calls'[o] = calls[o]
  BY <1>3, <1>5, <1>6, <1>7, Counts, ServeGoes
<1>9. PagesOK'
  BY <1>5, <1>7, <1>8, PagesKept
<1>10. CallOK(k)'
  <2>1. ~ HasRead(k)' /\ ~ HasPool(k)'
    BY <1>5, <1>8 DEF HasRead, HasPool
  <2> QED BY <1>1, <1>5, <1>7, <1>8, <2>1 DEF CallOK
<1> QED BY <1>3, <1>5, <1>6, <1>7, <1>9, <1>10, Counts, ServeFrame

LEMMA AddToProjectPoolKeeps ==
    ASSUME AInv, NEW k \in Calls, AddToProjectPool(k)
    PROVE  AInv'
<1>1. /\ calls[k] \in Call /\ CallOK(k) /\ calls[k] # NoCall /\ calls[k].kind = "upload"
      /\ calls[k].stage = "adding"
  <2>1. calls[k].kind = "upload" /\ calls[k].stage = "adding"
    BY DEF AddToProjectPool, IsAt
  <2> QED BY <2>1, Shape DEF CallOK
<1>2. PICK i : i = calls[k].upload
  OBVIOUS
<1>3. i \in DOMAIN uploads
  BY <1>1, <1>2 DEF CallOK
<1>4. UNCHANGED <<catalog, uploads, tasks, requests>> /\ events' = events
  BY DEF AddToProjectPool
<1>5. CASE /\ uploads[i].status = "valid"
           /\ \A ref \in Current : ~ IsCompany(ref) => uploads[ref.asset].file # uploads[i].file
           /\ pool' = Append(pool, Current \cup {Upload(i)})
           /\ calls' = [calls EXCEPT ![k] = NewCall("reload", calls[k].task)]
           /\ pages' = pages
  <2>1. Current \in SUBSET References /\ Sound(Current) /\ Grown(pool)
    BY PoolGrown
  <2>2. i \in Nat \ {0} /\ i <= MaxEvents
    BY <1>3, Counts DEF AInv, TypesOK
  <2>3. PICK up : up = Upload(i)
    OBVIOUS
  <2>4. up \in References /\ up.asset = i /\ ~ IsCompany(up)
    <3>1. i \notin Company
      BY <2>2, AssetsAssumption DEF AssetsAssumption, Company
    <3> QED BY <2>2, <2>3, <3>1, Counts DEF Upload, Ref, References, IsCompany
  <2>5. Sound(Current \cup {up})
    <3>1. \A ref \in Current : ref.asset # i
      BY <1>5, <2>4 DEF IsCompany
    <3>2. OneVersionEach(Current \cup {up})
      BY <2>1, <2>4, <3>1 DEF Sound, OneVersionEach
    <3>3. OfVehicles(Current \cup {up}) # {}
      BY <2>1 DEF Sound, OfVehicles
    <3>4. \A ref \in Current \cup {up} : ~ IsCompany(ref) =>
             /\ ref.asset \in DOMAIN uploads /\ ref = Upload(ref.asset)
             /\ uploads[ref.asset].status = "valid"
      BY <1>3, <1>5, <2>1, <2>3, <2>4 DEF Sound
    <3>5. OneUploadOfEachFile(Current \cup {up})
      BY <1>5, <2>1, <2>4 DEF Sound, OneUploadOfEachFile
    <3> QED BY <3>2, <3>3, <3>4, <3>5 DEF Sound
  <2>6. PICK p : p = Append(pool, Current \cup {up})
    OBVIOUS
  <2>7. Grown(p) /\ pool' = p
    BY <1>5, <2>1, <2>3, <2>4, <2>5, <2>6, Appended DEF AInv
  <2>8. PICK c : c = NewCall("reload", calls[k].task)
    OBVIOUS
  <2>9. c \in Call /\ c.stage = "arrived" /\ c.kind = "reload" /\ c.task = calls[k].task /\ c.sent = None
    BY <1>1, <2>8 DEF NewCall, Call
  <2>10. calls' = [calls EXCEPT ![k] = c] /\ pages' \in [Tasks -> Page]
    BY <1>5, <2>8 DEF AInv, TypesOK
  <2>11. /\ TypesOK' /\ PoolGoes /\ TasksGo /\ calls'[k] = c
         /\ \A o \in Calls \ {k} : calls'[o] = calls[o]
    BY <1>4, <2>7, <2>9, <2>10, Counts, ServeGoes
  <2>12. PagesOK'
    BY <1>1, <1>5, <2>9, <2>11, PagesKept
  <2>13. CallOK(k)'
    BY <2>9, <2>11, Arrived
  <2> QED BY <1>4, <2>7, <2>9, <2>10, <2>12, <2>13, Counts, ServeFrame
<1>6. CASE Answer(k, None, FALSE) /\ pool' = pool
  BY <1>1, <1>4, <1>6, Counts, PoolGrown, Ends DEF Answers
<1> QED BY <1>2, <1>5, <1>6 DEF AddToProjectPool

-----------------------------------------------------------------------------
(* The pages, and the surroundings *)

LEMMA LoadKeeps ==
    ASSUME AInv, NEW t \in Tasks, NEW k \in Calls, Load(t, k)
    PROVE  AInv'
<1>1. PICK c \in Call : /\ c = [NewCall("load", t) EXCEPT !.stage = "reading", !.record = Record(t)]
                        /\ c.kind = "load" /\ c.task = t /\ c.stage = "reading"
                        /\ c.sent = None /\ c.record = Record(t)
  <2>1. PICK fresh \in Call : fresh = NewCall("load", t) /\ fresh.kind = "load"
                              /\ fresh.task = t /\ fresh.sent = None
    BY NewCallIs
  <2>2. PICK c : c = [fresh EXCEPT !.stage = "reading", !.record = Record(t)]
    OBVIOUS
  <2>3. /\ c \in Call /\ c.kind = fresh.kind /\ c.task = fresh.task /\ c.stage = "reading"
        /\ c.sent = fresh.sent /\ c.record = Record(t)
    BY <2>2, RecordIs DEF Call
  <2> QED BY <2>1, <2>2, <2>3
<1>2. c \in Call
  OBVIOUS
<1>3. calls' = [calls EXCEPT ![k] = c]
  <2>1. calls' = [calls EXCEPT ![k] = [NewCall("load", t) EXCEPT
                    !.stage = "reading", !.record = Record(t)]]
    BY DEF Load
  <2> QED BY <1>1, <2>1
<1>4. calls[k] = NoCall
  BY DEF Load, Idle
<1>5. pages \in [Tasks -> Page] /\ \A s \in Tasks : PageOK(s)
  BY DEF AInv, TypesOK, PagesOK
<1>6. PICK page : page = [pages[t] EXCEPT !.view = None, !.loads = k]
  OBVIOUS
<1>7. page \in Page /\ page.view = None /\ page.loads = k /\ page.awaits = pages[t].awaits
  BY <1>5, <1>6 DEF Page
<1>8. /\ pages' \in [Tasks -> Page] /\ pages'[t] = page
      /\ \A s \in Tasks \ {t} : pages'[s] = pages[s]
  <2>1. pages' = [pages EXCEPT ![t] = page]
    BY <1>6 DEF Load, Set
  <2> QED BY <1>5, <1>7, <2>1
<1>9. pool' = pool /\ UNCHANGED <<catalog, uploads, tasks, requests>> /\ events' = events
  BY DEF Load, server
<1>10. c.stage # "registered"
  BY <1>1
<1>11. /\ TypesOK' /\ PoolGoes /\ TasksGo /\ calls'[k] = c
       /\ \A o \in Calls \ {k} : calls'[o] = calls[o]
  BY <1>2, <1>3, <1>8, <1>9, <1>10, Counts, PoolGrown, ServeGoes
<1>12. ASSUME NEW s \in Tasks
       PROVE  PageOK(s)'
  <2>1. pages[s] \in Page /\ PageOK(s)
    BY <1>5
  <2>2. pages[s].loads # None => pages[s].loads \in Calls \ {k}
    BY <1>4, <2>1 DEF PageOK, Page, NoCall
  <2>3. pages[s].awaits # None => pages[s].awaits \in Calls \ {k}
    BY <1>4, <2>1 DEF PageOK, Page, NoCall
  <2>4. CASE s = t
    <3>1. pages'[s].view = None /\ pages'[s].loads = k /\ pages'[s].awaits = pages[s].awaits
      BY <1>7, <1>8, <2>4
    <3>2. calls'[k].kind = "load" /\ calls'[k].task = s
      BY <1>1, <1>11, <2>4
    <3>3. pages[s].awaits # None =>
             /\ calls'[pages[s].awaits].kind \in {"confirm", "upload", "reload"}
             /\ calls'[pages[s].awaits].task = s
      BY <1>11, <2>1, <2>3 DEF PageOK
    <3> QED BY <3>1, <3>2, <3>3 DEF PageOK
  <2>5. CASE s # t
    BY <1>8, <1>11, <2>2, <2>3, <2>5, PageStays
  <2> QED BY <2>4, <2>5
<1>13. CallOK(k)'
  <2>1. HasRead(k)' /\ ~ HasPool(k)'
    BY <1>1, <1>11 DEF HasRead, HasPool
  <2>2. Task(k)' = tasks[t] /\ Record(calls[k].task)' = Record(t)
    BY <1>1, <1>9, <1>11 DEF Task, Record
  <2>3. /\ c.record = Record(t) /\ Record(t) \in TaskRecord
        /\ Record(t).revision <= tasks[t].revision
    BY <1>1, RecordIs
  <2>4. c.stage = "reading" /\ c.sent = None
    BY <1>1
  <2> QED BY <1>11, <2>1, <2>2, <2>3, <2>4 DEF CallOK
<1>14. PagesOK'
  BY <1>12 DEF PagesOK
<1> QED BY <1>2, <1>3, <1>8, <1>9, <1>10, <1>13, <1>14, Counts, PoolGrown, ServeFrame

LEMMA ConfirmKeeps ==
    ASSUME AInv, NEW t \in Tasks, NEW k \in Calls, pages[t].view # None,
           NEW chosen \in Choices(pages[t].view), Confirm(t, k, chosen)
    PROVE  AInv'
<1>1. PICK view : view = pages[t].view
  OBVIOUS
<1>2. pages \in [Tasks -> Page] /\ \A s \in Tasks : PageOK(s)
  BY DEF AInv, TypesOK, PagesOK
<1>3. /\ view.expected \in Nat /\ view.expected <= tasks[t].revision
      /\ view.pool \in Nat /\ view.pool \in DOMAIN pool
      /\ view.offered \subseteq References /\ OfVehicles(view.offered) = {}
  <2>1. view \in [expected : Nat, pool : Nat, offered : SUBSET References]
    BY <1>1, <1>2 DEF Page
  <2> QED BY <1>1, <1>2, <2>1 DEF PageOK
<1>4. PICK request : request = IF pages[t].request = 0 THEN requests + 1 ELSE pages[t].request
  OBVIOUS
<1>5. request \in Nat
  BY <1>2, <1>4, Counts DEF Page
<1>6. PICK sent : sent = [revision |-> view.expected, pool |-> view.pool, chosen |-> chosen]
  OBVIOUS
<1>7. chosen \in SUBSET References /\ OfVehicles(chosen) = {}
  BY <1>1, <1>3 DEF Choices, OfVehicles
<1>8. /\ sent \in Sent /\ sent.revision = view.expected /\ sent.pool = view.pool
      /\ OfVehicles(sent.chosen) = {}
  BY <1>3, <1>6, <1>7 DEF Sent
<1>9. PICK c \in Call : /\ c = [NewCall("confirm", t) EXCEPT !.request = request, !.sent = sent]
                        /\ c.kind = "confirm" /\ c.task = t /\ c.stage = "arrived" /\ c.sent = sent
  <2>1. PICK fresh \in Call : fresh = NewCall("confirm", t) /\ fresh.kind = "confirm"
                              /\ fresh.task = t /\ fresh.stage = "arrived"
    BY NewCallIs
  <2>2. PICK c : c = [fresh EXCEPT !.request = request, !.sent = sent]
    OBVIOUS
  <2>3. /\ c \in Call /\ c.kind = fresh.kind /\ c.task = fresh.task /\ c.stage = fresh.stage
        /\ c.sent = sent
    BY <1>5, <1>8, <2>2 DEF Call
  <2> QED BY <2>1, <2>2, <2>3
<1>10. c \in Call
  OBVIOUS
<1>11. calls' = [calls EXCEPT ![k] = c]
  <2>1. calls' = [calls EXCEPT ![k] = [NewCall("confirm", t) EXCEPT
                    !.request = request, !.sent = sent]]
    BY <1>1, <1>4, <1>6 DEF Confirm
  <2> QED BY <1>9, <2>1
<1>12. calls[k] = NoCall
  BY DEF Confirm, Idle
<1>13. PICK page : page = [pages[t] EXCEPT !.request = request, !.awaits = k]
  OBVIOUS
<1>14. /\ page \in Page /\ page.view = pages[t].view /\ page.loads = pages[t].loads
       /\ page.awaits = k
  BY <1>2, <1>5, <1>13 DEF Page
<1>15. /\ pages' \in [Tasks -> Page] /\ pages'[t] = page
       /\ \A s \in Tasks \ {t} : pages'[s] = pages[s]
  <2>1. pages' = [pages EXCEPT ![t] = page]
    BY <1>4, <1>13 DEF Confirm, Set
  <2> QED BY <1>2, <1>14, <2>1
<1>16. pool' = pool /\ UNCHANGED <<catalog, uploads, tasks>>
  BY DEF Confirm, server
<1>17. requests' \in Nat /\ events' \in 0 .. MaxEvents /\ events' >= events
  <2>1. CASE pages[t].request = 0
    BY <1>4, <1>5, <2>1, Counts DEF Confirm
  <2>2. CASE pages[t].request # 0
    BY <2>2, Counts DEF Confirm
  <2> QED BY <2>1, <2>2
<1>18. c.stage # "registered"
  BY <1>9
<1>19. /\ TypesOK' /\ PoolGoes /\ TasksGo /\ calls'[k] = c
       /\ \A o \in Calls \ {k} : calls'[o] = calls[o]
  BY <1>10, <1>11, <1>15, <1>16, <1>17, <1>18, PoolGrown, ServeGoes
<1>20. ASSUME NEW s \in Tasks
       PROVE  PageOK(s)'
  <2>1. pages[s] \in Page /\ PageOK(s)
    BY <1>2
  <2>2. pages[s].loads # None => pages[s].loads \in Calls \ {k}
    BY <1>12, <2>1 DEF PageOK, Page, NoCall
  <2>3. pages[s].awaits # None => pages[s].awaits \in Calls \ {k}
    BY <1>12, <2>1 DEF PageOK, Page, NoCall
  <2>4. CASE s = t
    <3>1. /\ pages'[s].view = pages[s].view /\ pages'[s].loads = pages[s].loads
          /\ pages'[s].awaits = k
      BY <1>14, <1>15, <2>4
    <3>2. calls'[k].kind = "confirm" /\ calls'[k].task = s
      BY <1>9, <1>19, <2>4
    <3>3. pages[s].loads # None =>
             calls'[pages[s].loads].kind = "load" /\ calls'[pages[s].loads].task = s
      BY <1>19, <2>1, <2>2 DEF PageOK
    <3>4. pages[s].view # None => /\ pages[s].view.expected <= tasks'[s].revision
                                  /\ pages[s].view.pool \in DOMAIN pool'
                                  /\ OfVehicles(pages[s].view.offered) = {}
      BY <1>16, <2>1 DEF PageOK
    <3> QED BY <3>1, <3>2, <3>3, <3>4 DEF PageOK
  <2>5. CASE s # t
    BY <1>15, <1>19, <2>2, <2>3, <2>5, PageStays
  <2> QED BY <2>4, <2>5
<1>21. CallOK(k)'
  <2>1. ~ HasRead(k)' /\ ~ HasPool(k)'
    BY <1>9, <1>19 DEF HasRead, HasPool
  <2>2. Task(k)' = tasks[t]
    BY <1>9, <1>16, <1>19 DEF Task
  <2>3. c.stage = "arrived" /\ c.sent = sent /\ c.kind = "confirm"
    BY <1>9
  <2> QED BY <1>3, <1>8, <1>16, <1>19, <2>1, <2>2, <2>3 DEF CallOK
<1>22. PagesOK'
  BY <1>20 DEF PagesOK
<1> QED BY <1>10, <1>11, <1>15, <1>16, <1>17, <1>18, <1>21, <1>22, PoolGrown, ServeFrame

\* Steps in which calls go on as they are, or all end.
LEMMA Surroundings ==
    ASSUME AInv, NEW p, Grown(p), pool' = p, UNCHANGED uploads, TasksGo,
           tasks' \in [Tasks -> TaskRecord],
           \A t \in Tasks : tasks'[t].source = tasks[t].source /\ tasks'[t].receipts = tasks[t].receipts,
           calls' = calls \/ calls' = [k \in Calls |-> NoCall],
           \A t \in Tasks :
              /\ pages'[t].view = pages[t].view
              /\ pages'[t].loads = None \/ (calls' = calls /\ pages'[t].loads = pages[t].loads)
              /\ pages'[t].awaits = None \/ (calls' = calls /\ pages'[t].awaits = pages[t].awaits),
           pages' \in [Tasks -> Page],
           catalog' \in [Company -> Nat], \A a \in Company : catalog'[a] <= events' + 1,
           events' \in 0 .. MaxEvents, events' >= events, requests' \in Nat
    PROVE  AInv'
<1>1. /\ pool' \in Seq(SUBSET References) /\ pool' # <<>> /\ PoolGoes
      /\ Len(pool') >= Len(pool) /\ Len(pool') \in Nat /\ Len(pool) \in Nat
      /\ \A r \in DOMAIN pool' \ DOMAIN pool : Sound(pool[r])'
  BY GrownGoes
<1>2. Len(uploads) <= events'
  BY Counts DEF AInv, TypesOK
<1>3. calls' \in [Calls -> {NoCall} \cup Call]
  BY DEF AInv, TypesOK
<1>4. TypesOK'
  BY <1>1, <1>2, <1>3 DEF AInv, TypesOK
<1>5. UploadsGo /\ UploadsOK'
  BY DEF UploadsGo, UploadsOK, RanksApart, FilesOK, AInv
<1>6. UploadsApart'
  <2>1. CASE calls' = calls
    BY <2>1 DEF UploadsApart, AInv, CallsOK
  <2>2. CASE calls' = [k \in Calls |-> NoCall]
    BY <2>2 DEF UploadsApart
  <2> QED BY <2>1, <2>2
<1>7. ASSUME NEW t \in Tasks
      PROVE  PageOK(t)'
  BY <1>1, <1>4, PageStays
<1>8. PagesOK'
  BY <1>7 DEF PagesOK
<1>9. ASSUME NEW t \in Tasks
      PROVE  /\ tasks'[t].source \in 0 .. Len(pool')
             /\ \A r \in tasks'[t].receipts \ tasks[t].receipts : ReceiptOK(t, r)'
  <2>1. tasks[t].source \in 0 .. Len(pool)
    BY DEF AInv, TasksOK
  <2> QED BY <1>1, <2>1
<1>10. ASSUME NEW o \in Calls
       PROVE  \/ calls'[o] = NoCall \/ CallOK(o)'
              \/ /\ calls'[o] = calls[o]
                 /\ calls[o] # NoCall /\ calls[o].stage = "registered" =>
                       uploads'[calls[o].upload].status = "pending"
  <2>1. CASE calls' = calls
    BY <2>1, Shape DEF CallOK
  <2>2. CASE calls' = [k \in Calls |-> NoCall]
    BY <2>2
  <2> QED BY <2>1, <2>2
<1> QED BY <1>1, <1>4, <1>5, <1>6, <1>8, <1>9, <1>10, Frame

LEMMA Standing ==
    ASSUME AInv
    PROVE  /\ tasks' = tasks => /\ TasksGo /\ tasks' \in [Tasks -> TaskRecord]
                                /\ \A t \in Tasks : /\ tasks'[t].source = tasks[t].source
                                                    /\ tasks'[t].receipts = tasks[t].receipts
           /\ catalog' = catalog /\ events' \in 0 .. MaxEvents /\ events' >= events =>
                 catalog' \in [Company -> Nat] /\ \A a \in Company : catalog'[a] <= events' + 1
<1>1. tasks' = tasks => /\ TasksGo /\ tasks' \in [Tasks -> TaskRecord]
                        /\ \A t \in Tasks : /\ tasks'[t].source = tasks[t].source
                                            /\ tasks'[t].receipts = tasks[t].receipts
  BY RecordIs DEF TasksGo, TaskGoes, AInv, TypesOK
<1>2. ASSUME catalog' = catalog, events' \in 0 .. MaxEvents, events' >= events
      PROVE  catalog' \in [Company -> Nat] /\ \A a \in Company : catalog'[a] <= events' + 1
  <2>1. events \in Nat /\ events' \in Nat
    BY <1>2, Counts
  <2>2. catalog \in [Company -> Nat] /\ \A a \in Company : catalog[a] \in Nat /\ catalog[a] <= events + 1
    BY DEF AInv, TypesOK
  <2>3. \A a \in Company : catalog[a] <= events' + 1
    BY <1>2, <2>1, <2>2
  <2> QED BY <1>2, <2>2, <2>3
<1> QED BY <1>1, <1>2

LEMMA LoseAnswerKeeps ==
    ASSUME AInv, NEW t \in Tasks, LoseAnswer(t)
    PROVE  AInv'
<1>1. /\ pages' = [pages EXCEPT ![t] = [pages[t] EXCEPT !.awaits = None]] /\ Event
      /\ pool' = pool /\ UNCHANGED <<catalog, uploads, tasks, calls, requests>>
  BY DEF LoseAnswer, Set, server
<1>2. pages \in [Tasks -> Page]
  BY DEF AInv, TypesOK
<1>3. PICK page : page = [pages[t] EXCEPT !.awaits = None]
  OBVIOUS
<1>4. page \in Page /\ page.view = pages[t].view /\ page.loads = pages[t].loads /\ page.awaits = None
  BY <1>2, <1>3 DEF Page
<1>5. pages' \in [Tasks -> Page] /\ pages'[t] = page /\ \A s \in Tasks \ {t} : pages'[s] = pages[s]
  BY <1>1, <1>2, <1>3, <1>4
<1>6. \A s \in Tasks :
         /\ pages'[s].view = pages[s].view
         /\ pages'[s].loads = None \/ (calls' = calls /\ pages'[s].loads = pages[s].loads)
         /\ pages'[s].awaits = None \/ (calls' = calls /\ pages'[s].awaits = pages[s].awaits)
  BY <1>1, <1>4, <1>5
<1> QED BY <1>1, <1>5, <1>6, Counts, Standing, PoolGrown, Surroundings

\* The catalog changes.
LEMMA CatalogKeeps ==
    ASSUME AInv, NEW a \in Company, Publish(a) \/ Withdraw(a)
    PROVE  AInv'
<1>1. /\ UNCHANGED <<pool, uploads, tasks, pages, calls, requests>> /\ Event
      /\ catalog' = [catalog EXCEPT ![a] = catalog[a] + 1] \/ catalog' = [catalog EXCEPT ![a] = 0]
  BY DEF Publish, Withdraw
<1>2. catalog \in [Company -> Nat] /\ \A b \in Company : catalog[b] \in Nat /\ catalog[b] <= events + 1
  BY DEF AInv, TypesOK
<1>3. events \in Nat /\ events' = events + 1 /\ events' \in 0 .. MaxEvents /\ events' >= events
  BY <1>1, Counts
<1>4. catalog' \in [Company -> Nat] /\ \A b \in Company : catalog'[b] <= events' + 1
  <2>1. ASSUME NEW b \in Company
        PROVE  catalog'[b] \in Nat /\ catalog'[b] <= events' + 1
    BY <1>1, <1>2, <1>3
  <2>2. DOMAIN catalog' = Company /\ catalog' = [b \in Company |-> catalog'[b]]
    BY <1>1, <1>2
  <2> QED BY <2>1, <2>2
<1>5. pages' \in [Tasks -> Page] /\ calls' = calls /\ requests' \in Nat /\ pages' = pages
  BY <1>1, Counts DEF AInv, TypesOK
<1> QED BY <1>1, <1>3, <1>4, <1>5, Standing, PoolGrown, Surroundings

LEMMA TaskChangesKeeps ==
    ASSUME AInv, NEW t \in Tasks, NEW stage \in Stages, NEW script \in Scripts,
           TaskChanges(t, stage, script)
    PROVE  AInv'
<1>1. /\ UNCHANGED <<catalog, pool, uploads, pages, calls, requests>> /\ Event
      /\ tasks' = [tasks EXCEPT ![t].revision = tasks[t].revision + 1,
                                ![t].stage = stage, ![t].script = script]
  BY DEF TaskChanges
<1>2. tasks \in [Tasks -> TaskRecord] /\ tasks[t] \in TaskRecord /\ tasks[t].revision \in Nat
  BY RecordIs DEF AInv, TypesOK
<1>3. script \in SUBSET Vehicles
  BY AssetsAssumption DEF AssetsAssumption
<1>4. PICK task : task = [tasks[t] EXCEPT !.revision = tasks[t].revision + 1,
                                          !.stage = stage, !.script = script]
  OBVIOUS
<1>5. /\ task \in TaskRecord /\ task.revision = tasks[t].revision + 1
      /\ task.source = tasks[t].source /\ task.receipts = tasks[t].receipts
  <2>1. PICK old \in TaskRecord : old = tasks[t]
    BY <1>2
  <2>2. PICK n \in Nat : n = tasks[t].revision + 1
    BY <1>2
  <2>3. task = [old EXCEPT !.revision = n, !.stage = stage, !.script = script]
    BY <1>4, <2>1, <2>2
  <2>4. /\ task \in TaskRecord /\ task.revision = n
        /\ task.source = old.source /\ task.receipts = old.receipts
    BY <1>3, <2>3 DEF TaskRecord
  <2> QED BY <2>1, <2>2, <2>4
<1>6. tasks' = [tasks EXCEPT ![t] = task]
  BY <1>1, <1>2, <1>4
<1>7. tasks' \in [Tasks -> TaskRecord] /\ tasks'[t] = task /\ \A s \in Tasks \ {t} : tasks'[s] = tasks[s]
  BY <1>2, <1>5, <1>6
<1>8. TasksGo
  <2>1. ASSUME NEW s \in Tasks
        PROVE  TaskGoes(s)
    <3>1. tasks[s].revision \in Nat
      BY RecordIs
    <3>2. CASE s = t
      BY <1>2, <1>5, <1>7, <3>2 DEF TaskGoes
    <3>3. CASE s # t
      BY <1>7, <3>1, <3>3 DEF TaskGoes
    <3> QED BY <3>2, <3>3
  <2> QED BY <2>1 DEF TasksGo
<1>9. \A s \in Tasks : tasks'[s].source = tasks[s].source /\ tasks'[s].receipts = tasks[s].receipts
  BY <1>5, <1>7
<1>10. /\ catalog' \in [Company -> Nat] /\ \A a \in Company : catalog'[a] <= events' + 1
       /\ events' \in 0 .. MaxEvents /\ events' >= events
  BY <1>1, Counts, Standing
<1>11. pages' \in [Tasks -> Page] /\ pages' = pages /\ calls' = calls /\ requests' \in Nat
  BY <1>1, Counts DEF AInv, TypesOK
<1> QED BY <1>1, <1>7, <1>8, <1>9, <1>10, <1>11, PoolGrown, Surroundings

\* The server stops, with what it had written to the pool.
LEMMA StopKeeps ==
    ASSUME AInv, NEW p, Grown(p), pool' = p, UNCHANGED <<catalog, uploads, tasks, requests>>, Event,
           calls' = [k \in Calls |-> NoCall],
           pages' = [t \in Tasks |-> [pages[t] EXCEPT !.loads = None, !.awaits = None]]
    PROVE  AInv'
<1>1. ASSUME NEW t \in Tasks
      PROVE  /\ pages'[t] \in Page /\ pages'[t].view = pages[t].view
             /\ pages'[t].loads = None /\ pages'[t].awaits = None
  <2>1. pages[t] \in Page /\ pages'[t] = [pages[t] EXCEPT !.loads = None, !.awaits = None]
    BY DEF AInv, TypesOK
  <2> QED BY <2>1 DEF Page
<1>2. pages' \in [Tasks -> Page]
  BY <1>1
<1> QED BY <1>1, <1>2, Counts, Standing, Surroundings

LEMMA RestartKeeps ==
    ASSUME AInv, Restart
    PROVE  AInv'
BY PoolGrown, StopKeeps DEF Restart, server

LEMMA StopWithinSectionKeeps ==
    ASSUME AInv, NEW k \in Calls, StopWithinSection(k)
    PROVE  AInv'
<1>1. PICK p : p = pool'
  OBVIOUS
<1>2. Grown(p)
  BY <1>1, LeftGrown DEF StopWithinSection
<1> QED BY <1>1, <1>2, StopKeeps DEF StopWithinSection

-----------------------------------------------------------------------------
(* The invariant *)

LEMMA InitAInv == Init => AInv
<1> SUFFICES ASSUME Init
             PROVE  AInv
  OBVIOUS
<1>1. PICK first : first = Latest(Vehicles)
  OBVIOUS
<1>2. first = {Ref(a, 1) : a \in Vehicles}
  BY <1>1 DEF Init, Latest, Company
<1>3. \A ref \in first : /\ ref \in References /\ ref.asset \in Vehicles /\ IsCompany(ref)
                         /\ ref.version = 1
  BY <1>2 DEF Ref, References, Company, IsCompany
<1>4. PICK v \in Vehicles : TRUE
  BY AssetsAssumption DEF AssetsAssumption
<1>5. Ref(v, 1) \in first /\ Ref(v, 1).asset = v
  BY <1>2 DEF Ref
<1>6. Sound(first)
  <2>1. OneVersionEach(first)
    BY <1>2 DEF OneVersionEach, Ref
  <2>2. OfVehicles(first) # {}
    BY <1>5 DEF OfVehicles
  <2>3. OneUploadOfEachFile(first)
    BY <1>3 DEF OneUploadOfEachFile
  <2> QED BY <1>3, <2>1, <2>2, <2>3 DEF Sound
<1>7. pool = <<first>>
  BY <1>1 DEF Init
<1>8. PoolOK /\ pool \in Seq(SUBSET References) /\ pool # <<>> /\ Len(pool) = 1
  BY <1>3, <1>6, <1>7 DEF PoolOK
<1>9. tasks \in [Tasks -> TaskRecord] /\ \A t \in Tasks : tasks[t].source = 0 /\ tasks[t].receipts = {}
  <2>1. Scripts \subseteq SUBSET Vehicles
    BY AssetsAssumption DEF AssetsAssumption
  <2>2. \A script \in Scripts :
           [revision |-> 1, stage |-> "matching", script |-> script,
            snapshot |-> {}, source |-> 0, receipts |-> {}] \in TaskRecord
    BY <2>1 DEF TaskRecord, Stages
  <2> QED BY <2>2 DEF Init
<1>10. /\ pages \in [Tasks -> Page]
       /\ \A t \in Tasks : pages[t].view = None /\ pages[t].loads = None /\ pages[t].awaits = None
  BY DEF Init, Page
<1>11. calls = [k \in Calls |-> NoCall] /\ uploads = <<>> /\ events = 0 /\ requests = 0
       /\ catalog = [a \in Company |-> 1]
  BY DEF Init
<1>12. TypesOK
  BY <1>8, <1>9, <1>10, <1>11, AssetsAssumption DEF TypesOK, AssetsAssumption
<1>13. UploadsOK /\ CallsOK
  BY <1>11 DEF UploadsOK, RanksApart, FilesOK, CallsOK, UploadsApart
<1>14. TasksOK /\ PagesOK
  BY <1>8, <1>9, <1>10 DEF TasksOK, PagesOK, PageOK
<1> QED BY <1>8, <1>12, <1>13, <1>14 DEF AInv

LEMMA NextAInv == AInv /\ [Next]_vars => AInv'
<1> SUFFICES ASSUME AInv, [Next]_vars
             PROVE  AInv'
  OBVIOUS
<1>1. ASSUME NEW t \in Tasks, Browse(t)
      PROVE  AInv'
  BY <1>1, LoadKeeps, ConfirmKeeps, UploadTemporaryKeeps, LoseAnswerKeeps DEF Browse
<1>2. ASSUME NEW k \in Calls, Serve(k)
      PROVE  AInv'
  BY <1>2, ReadTaskKeeps, ReadPoolKeeps, AnswerViewKeeps, FailKeeps, RefuseLockKeeps,
     ReplayKeeps, LockSelectionKeeps, ValidateKeeps, ReadRevisionKeeps, AddToProjectPoolKeeps,
     StopWithinSectionKeeps DEF Serve
<1>3. ASSUME NEW a \in Company, Publish(a) \/ Withdraw(a)
      PROVE  AInv'
  BY <1>3, CatalogKeeps
<1>4. ASSUME NEW t \in Tasks, NEW stage \in Stages, NEW script \in Scripts,
             TaskChanges(t, stage, script)
      PROVE  AInv'
  BY <1>4, TaskChangesKeeps
<1>5. CASE Restart
  BY <1>5, RestartKeeps
<1>6. CASE UNCHANGED vars
  <2>1. UNCHANGED <<catalog, pool, uploads, tasks, pages, calls, requests, events>>
    BY <1>6 DEF vars, server
  <2>2. pages' \in [Tasks -> Page] /\ requests' \in Nat
        /\ events' \in 0 .. MaxEvents /\ events' >= events
    BY <2>1, Counts DEF AInv, TypesOK
  <2> QED BY <2>1, <2>2, Standing, PoolGrown, Surroundings
<1> QED BY <1>1, <1>2, <1>3, <1>4, <1>5, <1>6 DEF Next, Stages

LEMMA AInvAlways == Spec => []AInv
BY InitAInv, NextAInv, PTL DEF Spec

-----------------------------------------------------------------------------
(* What it implies *)

LEMMA AInvImpliesSound == AInv => PoolIsSound
<1> SUFFICES ASSUME AInv
             PROVE  PoolIsSound
  OBVIOUS
<1>1. TypeOK
  <2>1. catalog \in [Company -> 0 .. MaxEvents + 1]
    <3>1. \A a \in Company : catalog[a] \in 0 .. MaxEvents + 1
      BY Counts DEF AInv, TypesOK
    <3> QED BY <3>1 DEF AInv, TypesOK
  <2>2. \A t \in Tasks : tasks[t].stage \in Stages /\ tasks[t].source \in 0 .. Len(pool)
    BY RecordIs DEF AInv, TasksOK, TaskRecord
  <2>3. \A t \in Tasks : {pages[t].loads, pages[t].awaits} \subseteq Calls \cup {None}
    BY DEF AInv, TypesOK, Page
  <2>4. \A i \in DOMAIN uploads :
           uploads[i].status \in {"pending", "valid", "needs_review", "rejected"}
    <3>1. ASSUME NEW i \in DOMAIN uploads
          PROVE  uploads[i] \in UploadRecord
      BY DEF AInv, TypesOK
    <3> QED BY <3>1 DEF UploadRecord
  <2>5. \A r \in DOMAIN pool : pool[r] \subseteq References
    BY DEF AInv, TypesOK
  <2> QED BY <2>1, <2>2, <2>3, <2>4, <2>5 DEF TypeOK, Stages
<1>2. \A r \in DOMAIN pool :
         /\ OneVersionEach(pool[r]) /\ OfVehicles(pool[r]) # {}
         /\ \A ref \in pool[r] : ~ IsCompany(ref) => uploads[ref.asset].status = "valid"
         /\ OneUploadOfEachFile(pool[r])
  BY DEF AInv, PoolOK, Sound
<1>3. ASSUME NEW o \in DOMAIN uploads, NEW i \in 1 .. o - 1,
             uploads[i].status = "valid", uploads[o].status = "valid",
             uploads[i].file = uploads[o].file
      PROVE  i \in uploads[o].settled /\ uploads[o].rank < uploads[i].rank
  <2>1. i \in DOMAIN uploads
    BY DEF AInv, TypesOK
  <2>2. uploads[i].rank \in Nat /\ uploads[o].rank \in Nat
    BY <2>1, Ranks
  <2> QED BY <1>3, <2>2 DEF AInv, UploadsOK, FilesOK
<1> QED BY <1>1, <1>2, <1>3 DEF PoolIsSound

LEMMA AInvImpliesShown == AInv => ConfirmedAsShown
BY DEF AInv, TasksOK, ReceiptOK, ConfirmedAsShown

LEMMA AInvImpliesRecognized == AInv => ReplayIsRecognized
<1> SUFFICES ASSUME AInv, NEW k \in Calls, IsAt(k, "confirm", "prepared"), NEW r \in Receipts(k),
                    r.payload.sent = calls[k].sent, r.result = Task(k).revision,
                    calls[k].record.revision = Task(k).revision
             PROVE  Payload(k) = r.payload
  BY DEF ReplayIsRecognized
<1>1. /\ calls[k] \in Call /\ CallOK(k) /\ calls[k] # NoCall /\ calls[k].task \in Tasks
      /\ HasRead(k) /\ HasPool(k)
  <2>1. calls[k].kind = "confirm" /\ calls[k].stage = "prepared"
    BY DEF IsAt
  <2> QED BY <2>1, Shape DEF HasRead, HasPool
<1>2. PICK t \in Tasks : t = calls[k].task
  BY <1>1
<1>3. tasks[t] \in TaskRecord /\ r \in tasks[t].receipts /\ ReceiptOK(t, r) /\ r \in Receipt
  BY <1>2, RecordIs DEF Receipts, Task, AInv, TasksOK, TaskRecord
<1>4. PICK vehicles, chosen : vehicles = r.payload.vehicles /\ chosen = r.payload.sent.chosen
  OBVIOUS
<1>5. /\ tasks[t].stage = "storyboard" /\ tasks[t].snapshot = vehicles \cup chosen
      /\ OfVehicles(chosen) = {} /\ OfVehicles(vehicles) = vehicles
  <2>1. tasks[t].revision = r.result
    BY <1>2 DEF Task
  <2>2. vehicles = Matched(r.script, OfVehicles(pool[r.payload.sent.pool]))
    BY <1>3, <1>4 DEF ReceiptOK
  <2>3. OfVehicles(vehicles) = vehicles
    BY <2>2 DEF Matched, OfVehicles
  <2> QED BY <1>3, <1>4, <2>1, <2>3 DEF ReceiptOK
<1>6. calls[k].record = Record(t)
  BY <1>1, <1>2 DEF CallOK
<1>7. calls[k].record.stage = "storyboard" /\ calls[k].record.snapshot = vehicles \cup chosen
  BY <1>3, <1>5, <1>6 DEF Record, TaskRecord
<1>8. calls[k].vehicles = OfVehicles(vehicles \cup chosen)
  BY <1>1, <1>7 DEF CallOK, SelectedVehicles
<1>9. calls[k].vehicles = vehicles
  BY <1>5, <1>8 DEF OfVehicles
<1> QED BY <1>3, <1>4, <1>9 DEF Payload, Receipt

\* However uploads, refreshes and confirmations interleave: a revision of the
\* pool has one version of an asset, a vehicle and only valid uploads, never two
\* of one file, and of two uploads of one file that overlap one is valid at most
\* (asset-pool.ts, temporary-assets.ts).
THEOREM PoolAlwaysSound == Spec => []PoolIsSound
BY AInvAlways, AInvImpliesSound, PTL

\* A task locks what its owner chose and the vehicles that match its script in
\* the revision of the pool the owner's page showed
\* (asset-pool.ts, lockVideoTaskAssetSnapshot).
THEOREM LockedAsShown == Spec => []ConfirmedAsShown
BY AInvAlways, AInvImpliesShown, PTL

\* A confirmation that is sent again is recognized by its receipt, while
\* nothing else has changed the task
\* (asset-matching-runtime.ts, video-task-stage-runtime.ts).
THEOREM ReplayAlwaysRecognized == Spec => []ReplayIsRecognized
BY AInvAlways, AInvImpliesRecognized, PTL
=============================================================================

------------------------ MODULE AccountBudgetProofs ------------------------
(***************************************************************************)
(* A ledger can be replayed whoever appends to it, and nobody's            *)
(* reservation is forgotten in it: proofs about AccountBudget, for any     *)
(* executions, administrators, prices and bounds.  And what the contract   *)
(* of a budget guarantees to everybody who implements it.                  *)
(*                                                                         *)
(* The argument: whoever is between his reservation and its settlement has *)
(* a reservation of his own, which is active, which nobody handed over and *)
(* which is of the amount he was quoted.  So nobody else settles it, and   *)
(* unless he dies, fails or overruns his estimate he settles it himself.   *)
(***************************************************************************)
EXTENDS AccountBudget, FiniteSetTheorems, TLAPS

(* The ledger *)

Owing == {"operate", "charge", "release"}

\* A reservation settles nothing.
ReservationsNameNone == \A i \in OfKind("reservation") : entries[i].of = 0

LedgerOK ==
    /\ configured \in BOOLEAN /\ limit \in Nat /\ revision \in Nat
    /\ entries \in Seq(Entry)
    /\ ReservationsNameNone
    /\ Replayable

\* Who is between his reservation and its settlement.
OwedOK ==
    /\ handedOver \subseteq OfKind("reservation")
    /\ \A p \in Executions : pc[p] \in Owing =>
          /\ reservation[p] \in Active \ handedOver
          /\ entries[reservation[p]].amount = estimate[p]
          /\ pc[p] = "charge" /\ overruns = 0 => actual[p] <= estimate[p]
    /\ \A p, q \in Executions :
          pc[p] \in Owing /\ pc[q] \in Owing /\ reservation[p] = reservation[q] => p = q

LocalsOK ==
    /\ runLock \in Executions \cup {None}
    /\ pc \in [Executions -> Labels]
    /\ estimate \in [Executions -> Nat]
    /\ reservation \in [Executions -> 0..MaxEntries]
    /\ actual \in [Executions -> Nat]
    /\ seen \in [Admins -> [revision: Nat, limit: Nat, length: Nat]]
    /\ bounds \in Nat \X Nat \X Nat

\* There is room for what is still to be appended.
Before == {p \in Executions : pc[p] \in {"estimate", "reserve"}}
Amid == {p \in Executions : pc[p] \in Owing}
Left == handedOver \cap Active
RoomOK ==
    Len(entries) + 2 * Cardinality(Before) + Cardinality(Amid)
        + Cardinality(Left) <= MaxEntries

IInv == LedgerOK /\ OwedOK /\ LocalsOK /\ RoomOK /\ ActiveIsExpected

LEMMA AppendIs ==
    ASSUME NEW S, NEW s \in Seq(S), NEW e \in S
    PROVE  /\ Append(s, e) \in Seq(S)
           /\ Len(Append(s, e)) = Len(s) + 1
           /\ DOMAIN Append(s, e) = DOMAIN s \cup {Len(s) + 1}
           /\ Len(s) + 1 \notin DOMAIN s
           /\ \A i \in DOMAIN s : Append(s, e)[i] = s[i]
           /\ Append(s, e)[Len(s) + 1] = e
  OBVIOUS

LEMMA RoomIsFinite ==
    ASSUME LedgerOK, OwedOK
    PROVE  /\ IsFiniteSet(Before) /\ IsFiniteSet(Amid) /\ IsFiniteSet(Left)
           /\ Cardinality(Before) \in Nat /\ Cardinality(Amid) \in Nat
           /\ Cardinality(Left) \in Nat
<1>1. IsFiniteSet(Executions)
  BY Parameters
<1>2. IsFiniteSet(Before) /\ IsFiniteSet(Amid)
  BY <1>1, FS_Subset DEF Before, Amid
<1>3. IsFiniteSet(DOMAIN entries)
  <2>1. DOMAIN entries = 1 .. Len(entries) /\ Len(entries) \in Nat
    BY DEF LedgerOK
  <2> QED BY <2>1, FS_Interval
<1>4. Left \subseteq DOMAIN entries
  BY DEF Left, Active, OfKind
<1>5. IsFiniteSet(Left)
  BY <1>3, <1>4, FS_Subset
<1> QED BY <1>2, <1>5, FS_CardinalityType

\* Entry j settles reservation i, in order and within its amount.
Settles(j, i) ==
    /\ i \in OfKind("reservation") /\ i < j
    /\ Settlements(i) = {j}
    /\ entries[j].amount <= entries[i].amount

\* The ledger of the next state, settlement by settlement.
LEMMA NextReplays ==
    ASSUME \A j \in DOMAIN entries' : entries'[j].kind # "reservation" =>
              \E i : i = entries'[j].of /\ Settles(j, i)'
    PROVE  Replayable'
  BY DEF Replayable, Settles, OfKind, Settlements

\* A new reservation is active, and changes nothing else.
LEMMA Reserving ==
    ASSUME LedgerOK, NEW n \in Nat,
           entries' = Append(entries, [kind |-> "reservation", of |-> 0, amount |-> n]),
           NextEntry <= MaxEntries
    PROVE  /\ entries' \in Seq(Entry) /\ Len(entries') = Len(entries) + 1
           /\ OfKind("reservation")' = OfKind("reservation") \cup {NextEntry}
           /\ Active' = Active \cup {NextEntry}
           /\ NextEntry \notin OfKind("reservation")
           /\ ReservationsNameNone' /\ Replayable'
           /\ \A i \in OfKind("reservation") : entries'[i].amount = entries[i].amount
           /\ entries'[NextEntry].amount = n
           /\ OfKind("charge")' = OfKind("charge")
           /\ \A i \in DOMAIN entries : entries'[i] = entries[i]
<1> DEFINE e == [kind |-> "reservation", of |-> 0, amount |-> n]
<1> PICK N : N = NextEntry
  OBVIOUS
<1>1. e \in Entry
  BY Parameters DEF Entry
<1> HIDE DEF e
<1>2. /\ entries' \in Seq(Entry) /\ Len(entries') = Len(entries) + 1
      /\ DOMAIN entries' = DOMAIN entries \cup {N} /\ N \notin DOMAIN entries
      /\ \A i \in DOMAIN entries : entries'[i] = entries[i]
      /\ entries'[N] = e
  BY <1>1, AppendIs DEF LedgerOK, NextEntry, e
<1>3. e.kind = "reservation" /\ e.of = 0 /\ e.amount = n
  BY DEF e
<1>4. DOMAIN entries \subseteq Nat \ {0} /\ N \in Nat \ {0} /\ \A i \in DOMAIN entries : i < N
  BY DEF NextEntry, LedgerOK
<1>5. OfKind("reservation")' = OfKind("reservation") \cup {N} /\ N \notin OfKind("reservation")
  BY <1>2, <1>3 DEF OfKind
<1>6. \A i \in DOMAIN entries : Settlements(i)' = Settlements(i)
  BY <1>2, <1>3, <1>4 DEF Settlements
<1>7. Settlements(N)' = {}
  <2> SUFFICES ASSUME NEW j \in DOMAIN entries', entries'[j].of = N PROVE FALSE
    BY DEF Settlements
  <2>1. CASE j = N
    BY <1>2, <1>3, <1>4, <2>1
  <2>2. CASE j \in DOMAIN entries
    <3>1. entries[j].of = N
      BY <1>2, <2>2
    <3>2. entries[j].kind = "reservation" => entries[j].of = 0
      BY <2>2 DEF LedgerOK, ReservationsNameNone, OfKind
    <3>3. entries[j].kind # "reservation" => entries[j].of \in DOMAIN entries
      BY <2>2 DEF LedgerOK, Replayable, OfKind
    <3> QED BY <1>2, <1>4, <3>1, <3>2, <3>3
  <2> QED BY <1>2, <2>1, <2>2
<1>8. Active' = Active \cup {N}
  <2>1. OfKind("reservation") \subseteq DOMAIN entries
    BY DEF OfKind
  <2>2. \A i \in OfKind("reservation") : Settlements(i)' = Settlements(i)
    BY <1>6, <2>1
  <2> QED BY <1>5, <1>7, <2>2 DEF Active
<1>9. ReservationsNameNone'
  BY <1>2, <1>3, <1>5 DEF ReservationsNameNone, LedgerOK, OfKind
<1>10. Replayable'
  <2> SUFFICES ASSUME NEW j \in DOMAIN entries', entries'[j].kind # "reservation",
                      NEW i, i = entries'[j].of
               PROVE  Settles(j, i)'
    BY NextReplays
  <2>1. j \in DOMAIN entries /\ entries[j].kind # "reservation" /\ entries'[j] = entries[j]
    BY <1>2, <1>3
  <2>2. Settles(j, i)
    BY <2>1 DEF LedgerOK, Replayable, Settles
  <2> QED BY <1>2, <1>5, <1>6, <2>1, <2>2 DEF Settles, OfKind
<1>11. OfKind("charge")' = OfKind("charge")
  BY <1>2, <1>3 DEF OfKind
<1> QED BY <1>2, <1>3, <1>5, <1>8, <1>9, <1>10, <1>11 DEF OfKind

\* A settlement ends one reservation, and changes nothing else.
LEMMA Settling ==
    ASSUME LedgerOK, NEW i \in Active, NEW kind \in {"charge", "release"},
           NEW n \in Nat, n <= entries[i].amount,
           entries' = Append(entries, [kind |-> kind, of |-> i, amount |-> n]),
           NextEntry <= MaxEntries
    PROVE  /\ entries' \in Seq(Entry) /\ Len(entries') = Len(entries) + 1
           /\ OfKind("reservation")' = OfKind("reservation")
           /\ Active' = Active \ {i}
           /\ ReservationsNameNone' /\ Replayable'
           /\ \A o \in OfKind("reservation") : entries'[o].amount = entries[o].amount
           /\ OfKind("charge")' = OfKind("charge") \cup
                                   (IF kind = "charge" THEN {NextEntry} ELSE {})
           /\ NextEntry \notin DOMAIN entries /\ entries'[NextEntry].amount = n
           /\ \A o \in DOMAIN entries : entries'[o] = entries[o]
<1> DEFINE e == [kind |-> kind, of |-> i, amount |-> n]
<1> PICK N : N = NextEntry
  OBVIOUS
<1>0. /\ DOMAIN entries \subseteq Nat \ {0} /\ N \in Nat \ {0}
      /\ \A j \in DOMAIN entries : j < N
  BY DEF NextEntry, LedgerOK
<1>1. e \in Entry
  BY <1>0, Parameters DEF Entry, Active, OfKind
<1>2. i \in DOMAIN entries /\ i \in OfKind("reservation") /\ Settlements(i) = {}
  BY DEF Active, OfKind
<1> HIDE DEF e
<1>3. /\ entries' \in Seq(Entry) /\ Len(entries') = Len(entries) + 1
      /\ DOMAIN entries' = DOMAIN entries \cup {N} /\ N \notin DOMAIN entries
      /\ \A j \in DOMAIN entries : entries'[j] = entries[j]
      /\ entries'[N] = e
  BY <1>1, AppendIs DEF LedgerOK, NextEntry, e
<1>4. e.kind = kind /\ e.of = i /\ e.amount = n
  BY DEF e
<1>5. OfKind("reservation")' = OfKind("reservation")
  BY <1>3, <1>4 DEF OfKind
<1>6. \A o \in DOMAIN entries \ {i} : Settlements(o)' = Settlements(o)
  BY <1>3, <1>4 DEF Settlements
<1>7. Settlements(i)' = {N}
  BY <1>2, <1>3, <1>4 DEF Settlements
<1>8. Active' = Active \ {i}
  BY <1>2, <1>5, <1>6, <1>7 DEF Active, OfKind
<1>9. ReservationsNameNone'
  BY <1>3, <1>5 DEF ReservationsNameNone, LedgerOK, OfKind
<1>10. Replayable'
  <2> SUFFICES ASSUME NEW j \in DOMAIN entries', entries'[j].kind # "reservation",
                      NEW o, o = entries'[j].of
               PROVE  Settles(j, o)'
    BY NextReplays
  <2>1. CASE j = N
    BY <1>0, <1>2, <1>3, <1>4, <1>5, <1>7, <2>1 DEF Settles
  <2>2. CASE j \in DOMAIN entries
    <3>1. entries'[j] = entries[j] /\ entries[j].kind # "reservation"
      BY <1>3, <2>2
    <3>2. Settles(j, o)
      BY <2>2, <3>1 DEF LedgerOK, Replayable, Settles
    <3>3. o \in DOMAIN entries \ {i}
      BY <1>2, <3>2 DEF OfKind, Settles
    <3> QED BY <1>3, <1>5, <1>6, <3>1, <3>2, <3>3 DEF Settles
  <2> QED BY <1>3, <2>1, <2>2
<1>11. OfKind("charge")' = OfKind("charge") \cup (IF kind = "charge" THEN {N} ELSE {})
  BY <1>3, <1>4 DEF OfKind
<1> QED BY <1>3, <1>4, <1>5, <1>8, <1>9, <1>10, <1>11 DEF OfKind
-----------------------------------------------------------------------------
(* Counting what is still to be appended *)

\* One more, or one less, of a finite set.
LEMMA OneMoreOrLess ==
    ASSUME NEW S, IsFiniteSet(S), NEW x
    PROVE  /\ x \notin S => Cardinality(S \cup {x}) = Cardinality(S) + 1
           /\ x \in S => Cardinality(S \ {x}) = Cardinality(S) - 1
           /\ x \notin S => Cardinality(S \ {x}) = Cardinality(S)
           /\ Cardinality(S) \in Nat
<1>1. x \notin S => S \ {x} = S
  OBVIOUS
<1> QED BY <1>1, FS_AddElement, FS_RemoveElement, FS_CardinalityType

LEMMA Fewer ==
    ASSUME NEW S, IsFiniteSet(S), NEW T \in SUBSET S
    PROVE  Cardinality(T) <= Cardinality(S) /\ Cardinality(T) \in Nat
  BY FS_Subset, FS_CardinalityType

\* Nothing is appended, and nobody takes up work.
LEMMA RoomRemains ==
    ASSUME IInv, Len(entries') = Len(entries),
           Before' \subseteq Before, Amid' \subseteq Amid, Left' \subseteq Left
    PROVE  RoomOK'
<1>1. /\ Cardinality(Before') <= Cardinality(Before) /\ Cardinality(Before') \in Nat
      /\ Cardinality(Amid') <= Cardinality(Amid) /\ Cardinality(Amid') \in Nat
      /\ Cardinality(Left') <= Cardinality(Left) /\ Cardinality(Left') \in Nat
  BY RoomIsFinite, Fewer DEF IInv
<1>2. Len(entries) \in Nat
  BY DEF IInv, LedgerOK
<1>3. /\ Cardinality(Before) \in Nat /\ Cardinality(Amid) \in Nat
      /\ Cardinality(Left) \in Nat /\ MaxEntries \in Nat
  BY RoomIsFinite, Parameters DEF IInv
<1>4. Len(entries) + 2 * Cardinality(Before) + Cardinality(Amid)
        + Cardinality(Left) <= MaxEntries
  BY DEF IInv, RoomOK
<1>5. Len(entries') + 2 * Cardinality(Before') + Cardinality(Amid')
        + Cardinality(Left') <= MaxEntries
  BY SMTT(30), <1>1, <1>2, <1>3, <1>4
<1> QED BY <1>5 DEF RoomOK

-----------------------------------------------------------------------------
(* Operations *)

\* The ledger stays, and nobody becomes an owner.
LEMMA LedgerStays ==
    ASSUME IInv, entries' = entries, handedOver' = handedOver,
           configured' \in BOOLEAN, limit' \in Nat, revision' \in Nat,
           LocalsOK',
           overruns' = 0 => overruns = 0,
           \A p \in Executions : pc'[p] \in Owing =>
              /\ pc[p] \in Owing
              /\ reservation'[p] = reservation[p] /\ estimate'[p] = estimate[p]
              /\ pc'[p] = "charge" /\ overruns' = 0 =>
                    actual'[p] <= estimate'[p],
           RoomOK' \/ \A p \in Executions : pc'[p] \in {"estimate", "reserve"} =>
                         pc[p] \in {"estimate", "reserve"},
           bounds' = <<0, 0, 0>> =>
              /\ bounds = <<0, 0, 0>>
              /\ \A p \in Executions : pc[p] \in Owing => pc'[p] \in Owing
    PROVE  IInv'
<1>1. /\ OfKind("reservation")' = OfKind("reservation") /\ Active' = Active
      /\ LedgerOK'
  BY DEF IInv, LedgerOK, OfKind, Active, Settlements, ReservationsNameNone, Replayable
<1>2. OwedOK'
  BY <1>1 DEF IInv, OwedOK
<1>3. Amid' \subseteq Amid /\ Left' \subseteq Left /\ (Before' \subseteq Before \/ RoomOK')
  BY <1>1 DEF Before, Amid, Left
<1>4. RoomOK'
  BY <1>3, RoomRemains
<1>5. ActiveIsExpected'
  BY <1>1 DEF IInv, ActiveIsExpected, Owing
<1> QED BY <1>1, <1>2, <1>4, <1>5 DEF IInv

\* One more execution is under way: its two entries have room.
LEMMA Begins ==
    ASSUME IInv, NEW p \in Executions, pc[p] = "idle", RoomForOneMore,
           Goto(p, "estimate"), entries' = entries, handedOver' = handedOver
    PROVE  RoomOK'
<1> DEFINE Busy == {q \in Executions : pc[q] # "idle"}
<1>0. IsFiniteSet(Executions) /\ MaxEntries \in Nat /\ Len(entries) \in Nat
  BY Parameters DEF IInv, LedgerOK
<1>1. Before' = Before \cup {p} /\ p \notin Before /\ Amid' = Amid
  BY DEF Goto, IInv, LocalsOK, Before, Amid, Owing
<1>2. Left' = Left
  BY DEF Left, Active, OfKind, Settlements
<1>3. Cardinality(Before') = Cardinality(Before) + 1
  BY <1>1, OneMoreOrLess, RoomIsFinite DEF IInv
<1>4. Cardinality(Before) + Cardinality(Amid) <= Cardinality(Busy)
        /\ Cardinality(Busy) \in Nat
  <2>1. Before \cap Amid = {} /\ Before \cup Amid \subseteq Busy
    BY DEF Before, Amid, Owing
  <2>2. Cardinality(Before \cup Amid) = Cardinality(Before) + Cardinality(Amid)
                                         - Cardinality(Before \cap Amid)
    BY RoomIsFinite, FS_Union DEF IInv
  <2>3. IsFiniteSet(Busy)
    BY <1>0, FS_Subset
  <2>4. Cardinality(Before \cup Amid) <= Cardinality(Busy)
          /\ Cardinality(Before \cup Amid) \in Nat /\ Cardinality(Busy) \in Nat
    BY <2>1, <2>3, Fewer, FS_CardinalityType
  <2>5. Cardinality(Before \cap Amid) = 0
    BY <2>1, FS_EmptySet
  <2> QED BY <2>2, <2>4, <2>5, RoomIsFinite DEF IInv
<1>5. Len(entries) + 2 * Cardinality(Busy) + 2 + Cardinality(Left) <= MaxEntries
  BY DEF RoomForOneMore, Left
<1> HIDE DEF Busy
<1>6. /\ Cardinality(Before) \in Nat /\ Cardinality(Amid) \in Nat
      /\ Cardinality(Left) \in Nat
  BY RoomIsFinite DEF IInv
<1>7. Len(entries) + 2 * (Cardinality(Before) + 1) + Cardinality(Amid)
        + Cardinality(Left) <= MaxEntries
  BY SMTT(30), <1>0, <1>4, <1>5, <1>6
<1>8. Len(entries') + 2 * Cardinality(Before') + Cardinality(Amid')
        + Cardinality(Left') <= MaxEntries
  BY <1>1, <1>2, <1>3, <1>7
<1> QED BY <1>8 DEF RoomOK

\* acquire, and execute() or reserveForOperation without the lock
LEMMA BeginKeeps ==
    ASSUME IInv, NEW p \in Executions, Acquire(p) \/ ExecuteUnlocked(p)
    PROVE  IInv'
<1>1. /\ pc[p] = "idle" /\ RoomForOneMore /\ Goto(p, "estimate")
      /\ UNCHANGED <<ledger, locals, handedOver, seen, bounds>>
      /\ runLock' \in {runLock, p}
  BY DEF Acquire, ExecuteUnlocked
<1>2. /\ entries' = entries /\ handedOver' = handedOver
      /\ limit' = limit /\ configured' = configured /\ revision' = revision
      /\ estimate' = estimate /\ reservation' = reservation /\ actual' = actual
      /\ pc' = [pc EXCEPT ![p] = "estimate"]
      /\ seen' = seen /\ bounds' = bounds /\ overruns' = overruns
  BY <1>1 DEF ledger, locals, bounds, Goto
<1>3. RoomOK'
  BY <1>1, <1>2, Begins
<1>4. LocalsOK'
  BY <1>1, <1>2 DEF IInv, LocalsOK, Labels
<1>5. \A q \in Executions :
        /\ pc'[q] \in Owing <=> pc[q] \in Owing
        /\ pc'[q] = "charge" => pc[q] = "charge"
  BY <1>1, <1>2 DEF IInv, LocalsOK, Owing
<1>6. configured' \in BOOLEAN /\ limit' \in Nat /\ revision' \in Nat
  BY <1>2 DEF IInv, LedgerOK
<1>7. \A q \in Executions : pc'[q] = "charge" /\ overruns' = 0 => actual'[q] <= estimate'[q]
  BY <1>2, <1>5 DEF IInv, OwedOK, Owing
<1> QED BY <1>2, <1>3, <1>4, <1>5, <1>6, <1>7, LedgerStays
\* Steps of an execution that leave the ledger alone.
LEMMA PrivateKeeps ==
    ASSUME IInv, NEW p \in Executions,
           Estimate(p) \/ Operate(p) \/ Unlock(p) \/ StoreFails(p)
    PROVE  IInv'
<1>1. /\ UNCHANGED <<ledger, handedOver, seen>>
      /\ runLock' \in {runLock, None}
      /\ \/ /\ pc[p] = "estimate" /\ pc' = [pc EXCEPT ![p] = "reserve"]
            /\ \E n \in Quotes : estimate' = [estimate EXCEPT ![p] = n]
            /\ UNCHANGED <<reservation, actual, bounds>>
         \/ /\ pc[p] = "estimate" /\ pc' = [pc EXCEPT ![p] = "unlock"]
            /\ UNCHANGED <<locals, bounds>>
         \/ /\ pc[p] = "operate" /\ pc' = [pc EXCEPT ![p] = "charge"]
            /\ \E cost \in Nat :
                  /\ actual' = [actual EXCEPT ![p] = cost]
                  /\ overruns' = overruns + (IF cost > estimate[p] THEN 1 ELSE 0)
            /\ UNCHANGED <<estimate, reservation, crashes, faults>>
         \/ /\ pc[p] = "operate" /\ pc' = [pc EXCEPT ![p] = "release"]
            /\ UNCHANGED <<locals, bounds>>
         \/ /\ pc[p] = "unlock" /\ pc' = [pc EXCEPT ![p] = "idle"]
            /\ estimate' = [estimate EXCEPT ![p] = 0]
            /\ reservation' = [reservation EXCEPT ![p] = 0]
            /\ actual' = [actual EXCEPT ![p] = 0]
            /\ UNCHANGED bounds
         \/ /\ pc[p] # "idle" /\ faults' = faults + 1
            /\ \E l \in {"idle", "unlock"} : pc' = [pc EXCEPT ![p] = l]
            /\ UNCHANGED <<locals, crashes, overruns>>
  <2>1. CASE Estimate(p)
    BY <2>1 DEF Estimate, Goto, locals
  <2>2. CASE Operate(p)
    <3>1. \A cost \in 0..(estimate[p] + 1) : cost \in Nat
      BY DEF IInv, LocalsOK
    <3> QED BY <2>2, <3>1 DEF Operate, Goto, AfterThrow, locals, bounds
  <2>3. CASE Unlock(p)
    BY <2>3 DEF Unlock, Goto
  <2>4. CASE StoreFails(p)
    BY <2>4 DEF StoreFails, Goto
  <2> QED BY <2>1, <2>2, <2>3, <2>4
<1>2. LocalsOK'
  BY <1>1, Parameters DEF IInv, LocalsOK, Labels, locals, bounds
<1>3. /\ entries' = entries /\ handedOver' = handedOver
      /\ configured' \in BOOLEAN /\ limit' \in Nat /\ revision' \in Nat
  BY <1>1 DEF ledger, IInv, LedgerOK
<1>4. /\ overruns \in Nat /\ faults \in Nat /\ crashes \in Nat
      /\ \A q \in Executions : estimate[q] \in Nat /\ actual[q] \in Nat
      /\ pc \in [Executions -> Labels]
  BY DEF IInv, LocalsOK, bounds
<1>5. overruns' = 0 => overruns = 0
  BY <1>1, <1>4 DEF bounds
<1>6. \A q \in Executions : pc'[q] \in Owing =>
         /\ pc[q] \in Owing
         /\ reservation'[q] = reservation[q] /\ estimate'[q] = estimate[q]
         /\ pc'[q] = "charge" /\ overruns' = 0 => actual'[q] <= estimate'[q]
  BY <1>1, <1>4, <1>5 DEF IInv, LocalsOK, OwedOK, Owing, locals
<1>7. \A q \in Executions : pc'[q] \in {"estimate", "reserve"} =>
                              pc[q] \in {"estimate", "reserve"}
  BY <1>1, <1>4
<1>8. bounds' = <<0, 0, 0>> =>
         /\ bounds = <<0, 0, 0>>
         /\ \A q \in Executions : pc[q] \in Owing => pc'[q] \in Owing
  BY <1>1, <1>4 DEF bounds, Owing
<1> QED BY <1>2, <1>3, <1>5, <1>6, <1>7, <1>8, LedgerStays

\* A covered reservation: its execution is at its operation, and owns it.
LEMMA ReserveKeeps ==
    ASSUME IInv, NEW p \in Executions, Reserve(p)
    PROVE  IInv'
<1>0. /\ pc[p] = "reserve" /\ pc \in [Executions -> Labels]
      /\ reservation \in [Executions -> 0..MaxEntries]
      /\ estimate \in [Executions -> Nat] /\ MaxEntries \in Nat
      /\ Len(entries) \in Nat
  BY SMTT(30), Parameters DEF Reserve, IInv, LocalsOK, LedgerOK
<1>1. CASE UNCHANGED <<ledger, reservation>> /\ Goto(p, "unlock")
  <2>1. /\ entries' = entries /\ pc' = [pc EXCEPT ![p] = "unlock"]
        /\ UNCHANGED <<limit, configured, revision, locals, handedOver, bounds>>
        /\ UNCHANGED <<runLock, seen>>
    BY <1>1 DEF Reserve, ledger, locals, Goto
  <2>2. LocalsOK'
    BY <1>0, <2>1 DEF IInv, LocalsOK, Labels, locals
  <2>3. \A q \in Executions : pc'[q] \in Owing => pc'[q] = pc[q]
    BY <1>0, <2>1 DEF Owing
  <2>4. \A q \in Executions : pc[q] \in Owing => pc'[q] = pc[q]
    BY <1>0, <2>1 DEF Owing
  <2>5. \A q \in Executions : pc'[q] = "charge" /\ overruns' = 0 => actual'[q] <= estimate'[q]
    BY <2>1, <2>3 DEF IInv, OwedOK, Owing, locals, bounds
  <2>6. \A q \in Executions : pc'[q] \in {"estimate", "reserve"} =>
                                pc[q] \in {"estimate", "reserve"}
    BY <1>0, <2>1
  <2>7. configured' \in BOOLEAN /\ limit' \in Nat /\ revision' \in Nat
    BY <2>1 DEF IInv, LedgerOK
  <2> QED BY <2>1, <2>2, <2>3, <2>4, <2>5, <2>6, <2>7, LedgerStays DEF locals, bounds
<1>2. CASE /\ AppendEntry([kind |-> "reservation", of |-> 0, amount |-> estimate[p]])
           /\ reservation' = [reservation EXCEPT ![p] = NextEntry]
           /\ Goto(p, "operate")
  <2> PICK N : N = NextEntry
    OBVIOUS
  <2>1. /\ entries' = Append(entries, [kind |-> "reservation", of |-> 0,
                                       amount |-> estimate[p]])
        /\ reservation' = [reservation EXCEPT ![p] = N]
        /\ pc' = [pc EXCEPT ![p] = "operate"]
        /\ UNCHANGED <<limit, configured, handedOver, bounds, estimate, actual>>
        /\ UNCHANGED <<runLock, seen>>
        /\ revision' = revision + 1
    BY <1>2 DEF Reserve, Goto, AppendEntry
  <2>2. p \in Before /\ Before' = Before \ {p} /\ p \notin Amid /\ Amid' = Amid \cup {p}
    BY <1>0, <2>1 DEF Before, Amid, Owing
  <2>3. /\ Cardinality(Before) \in Nat /\ Cardinality(Amid) \in Nat
        /\ Cardinality(Left) \in Nat
        /\ Cardinality(Before') = Cardinality(Before) - 1
        /\ Cardinality(Amid') = Cardinality(Amid) + 1
    BY <2>2, RoomIsFinite, OneMoreOrLess DEF IInv
  <2>4. Len(entries) + 2 * Cardinality(Before) + Cardinality(Amid)
          + Cardinality(Left) <= MaxEntries
    BY DEF IInv, RoomOK
  <2>5. Cardinality(Before') \in Nat
    BY <2>2, RoomIsFinite, Fewer DEF IInv
  <2>6. N <= MaxEntries /\ N \in 1 .. MaxEntries /\ N = Len(entries) + 1
    BY SMTT(30), <1>0, <2>3, <2>4, <2>5 DEF NextEntry
  <2>7. /\ entries' \in Seq(Entry) /\ Len(entries') = Len(entries) + 1
        /\ OfKind("reservation")' = OfKind("reservation") \cup {N}
        /\ Active' = Active \cup {N}
        /\ N \notin OfKind("reservation")
        /\ ReservationsNameNone' /\ Replayable'
        /\ \A i \in OfKind("reservation") : entries'[i].amount = entries[i].amount
        /\ entries'[N].amount = estimate[p]
    BY <1>0, <2>1, <2>6, Reserving DEF IInv
  <2>8. Active \subseteq OfKind("reservation") /\ handedOver \subseteq OfKind("reservation")
    BY DEF Active, IInv, OwedOK
  <2>9. Left' = Left
    BY <2>1, <2>7, <2>8 DEF Left
  <2>10. RoomOK'
    <3>1. Len(entries') + 2 * Cardinality(Before') + Cardinality(Amid')
            + Cardinality(Left') <= MaxEntries
      BY SMTT(30), <1>0, <2>3, <2>4, <2>7, <2>9
    <3> QED BY <3>1 DEF RoomOK
  <2>11. LedgerOK'
    BY <2>1, <2>7 DEF IInv, LedgerOK
  <2>12. LocalsOK'
    BY SMTT(30), <1>0, <2>1, <2>6 DEF IInv, LocalsOK, Labels
  <2>13. \A q \in Executions \ {p} : pc'[q] = pc[q] /\ reservation'[q] = reservation[q]
    BY <1>0, <2>1
  <2>14. pc'[p] = "operate" /\ reservation'[p] = N
    BY <1>0, <2>1
  <2>15. OwedOK'
    <3>1. handedOver' \subseteq OfKind("reservation")'
      BY <2>1, <2>7, <2>8
    <3>2. \A q \in Executions : pc'[q] \in Owing =>
            /\ reservation'[q] \in Active' \ handedOver'
            /\ entries'[reservation'[q]].amount = estimate'[q]
            /\ pc'[q] = "charge" /\ overruns' = 0 => actual'[q] <= estimate'[q]
      <4> SUFFICES ASSUME NEW q \in Executions, pc'[q] \in Owing
                   PROVE  /\ reservation'[q] \in Active' \ handedOver'
                          /\ entries'[reservation'[q]].amount = estimate'[q]
                          /\ pc'[q] = "charge" /\ overruns' = 0 =>
                                actual'[q] <= estimate'[q]
        OBVIOUS
      <4>1. CASE q = p
        <5>1. /\ pc'[q] = "operate" /\ reservation'[q] = N /\ estimate'[q] = estimate[p]
              /\ handedOver' = handedOver
          BY <2>1, <2>14, <4>1
        <5>2. N \in Active' \ handedOver /\ entries'[N].amount = estimate[p]
          BY <2>7, <2>8
        <5> QED BY <5>1, <5>2
      <4>2. CASE q # p
        <5>1. /\ pc[q] \in Owing /\ pc'[q] = pc[q]
              /\ reservation'[q] = reservation[q] /\ overruns' = overruns
          BY <2>1, <2>13, <4>2 DEF bounds
        <5>2. /\ reservation[q] \in Active \ handedOver
              /\ entries[reservation[q]].amount = estimate[q]
              /\ pc[q] = "charge" /\ overruns = 0 => actual[q] <= estimate[q]
          BY <5>1 DEF IInv, OwedOK
        <5>3. /\ estimate'[q] = estimate[q] /\ actual'[q] = actual[q]
              /\ handedOver' = handedOver
          BY <2>1
        <5>4. /\ reservation[q] \in Active' \ handedOver
              /\ entries'[reservation[q]].amount = estimate[q]
          BY <2>7, <2>8, <5>2
        <5> QED BY <5>1, <5>2, <5>3, <5>4
      <4> QED BY <4>1, <4>2
    <3>3. \A q \in Executions \ {p} : pc'[q] \in Owing => reservation'[q] # N
      BY <2>7, <2>8, <2>13 DEF IInv, OwedOK
    <3>4. \A q, o \in Executions :
            pc'[q] \in Owing /\ pc'[o] \in Owing /\ reservation'[q] = reservation'[o] => q = o
      BY <2>13, <2>14, <3>3 DEF IInv, OwedOK
    <3> QED BY <3>1, <3>2, <3>4 DEF OwedOK
  <2>16. ActiveIsExpected'
    <3>1. bounds' = bounds /\ handedOver' = handedOver
      BY <2>1
    <3> SUFFICES ASSUME bounds = <<0, 0, 0>>, NEW i \in Active' \ handedOver'
                 PROVE  \E q \in Executions :
                           reservation'[q] = i /\ pc'[q] \in {"operate", "charge", "release"}
      BY <3>1 DEF ActiveIsExpected
    <3>2. CASE i = N
      BY <2>14, <3>2
    <3>3. CASE i # N
      <4>1. i \in Active \ handedOver
        BY <2>7, <3>1, <3>3
      <4>2. PICK q \in Executions : reservation[q] = i /\ pc[q] \in {"operate", "charge", "release"}
        BY <4>1 DEF IInv, ActiveIsExpected
      <4>3. q # p
        BY <1>0, <4>2
      <4> QED BY <2>13, <4>2, <4>3
    <3> QED BY <3>2, <3>3
  <2> QED BY <2>10, <2>11, <2>12, <2>15, <2>16 DEF IInv
<1> QED BY <1>1, <1>2 DEF Reserve

\* A settlement of a reservation nobody else owns, or by its owner.
LEMMA SettlementKeeps ==
    ASSUME IInv, NEW i \in Active, NEW kind \in {"charge", "release"},
           NEW n \in Nat, n <= entries[i].amount,
           AppendEntry([kind |-> kind, of |-> i, amount |-> n]),
           LocalsOK', RoomOK', NextEntry <= MaxEntries,
           handedOver' = handedOver,
           UNCHANGED <<estimate, reservation, actual, bounds>>,
           \A p \in Executions :
              /\ pc'[p] \in Owing => pc'[p] = pc[p] /\ reservation[p] # i
              /\ pc[p] \in Owing => pc'[p] = pc[p] \/ reservation[p] = i
    PROVE  IInv'
<1>1. /\ entries' \in Seq(Entry) /\ Len(entries') = Len(entries) + 1
      /\ OfKind("reservation")' = OfKind("reservation")
      /\ Active' = Active \ {i}
      /\ ReservationsNameNone' /\ Replayable'
      /\ \A o \in OfKind("reservation") : entries'[o].amount = entries[o].amount
  BY Settling DEF AppendEntry, IInv
<1>2. LedgerOK'
  BY <1>1 DEF AppendEntry, IInv, LedgerOK
<1>3. Active \subseteq OfKind("reservation")
  BY DEF Active
<1>4. OwedOK'
  BY <1>1, <1>3 DEF IInv, OwedOK, bounds
<1>5. ActiveIsExpected'
  BY <1>1 DEF IInv, ActiveIsExpected, Owing, bounds
<1> QED BY <1>2, <1>4, <1>5 DEF IInv

\* execute() settles its own reservation.
LEMMA SettleOwnKeeps ==
    ASSUME IInv, NEW p \in Executions, Charge(p) \/ Release(p)
    PROVE  IInv'
<1>0. /\ pc[p] \in Owing /\ pc' = [pc EXCEPT ![p] = "unlock"]
      /\ UNCHANGED <<runLock, locals, handedOver, seen, bounds>>
      /\ pc \in [Executions -> Labels] /\ MaxEntries \in Nat
      /\ Len(entries) \in Nat
  BY SMTT(30), Parameters DEF Charge, Release, Goto, IInv, LocalsOK, LedgerOK, Owing
<1>1. PICK i : i = reservation[p]
  OBVIOUS
<1>2. /\ i \in Active \ handedOver /\ entries[i].amount = estimate[p]
      /\ CanSettle(i)
      /\ pc[p] = "charge" /\ overruns = 0 => actual[p] <= entries[i].amount
      /\ entries[i].amount \in Nat /\ actual[p] \in Nat
  BY <1>0, <1>1 DEF IInv, OwedOK, LocalsOK, CanSettle, LedgerOK
<1>3. LocalsOK'
  BY <1>0 DEF IInv, LocalsOK, Labels, locals
<1>4. \A q \in Executions \ {p} : pc'[q] = pc[q]
  BY <1>0
<1>5. pc'[p] \notin Owing /\ pc'[p] \notin {"estimate", "reserve"}
  BY <1>0 DEF Owing
<1>6. CASE UNCHANGED ledger
  <2>1. pc[p] = "charge" /\ overruns # 0
    <3>1. CASE Charge(p)
      <4>1. pc[p] = "charge"
        BY <3>1 DEF Charge
      <4>2. CASE actual[p] <= entries[i].amount
        <5>1. Append(entries, [kind |-> "charge", of |-> i, amount |-> actual[p]]) = entries
          BY <1>1, <1>2, <1>6, <3>1, <4>2 DEF Charge, AppendEntry, ledger
        <5>2. [kind |-> "charge", of |-> i, amount |-> actual[p]] \in Entry
          BY <1>1, <1>2, Parameters DEF Entry, IInv, LocalsOK
        <5> QED BY <1>0, <5>1, <5>2, AppendIs DEF IInv, LedgerOK
      <4> QED BY <1>2, <4>1, <4>2
    <3>2. CASE Release(p)
      <4>1. Append(entries, [kind |-> "release", of |-> i, amount |-> 0]) = entries
        BY <1>1, <1>2, <1>6, <3>2 DEF Release, AppendEntry, ledger
      <4>2. [kind |-> "release", of |-> i, amount |-> 0] \in Entry
        BY <1>1, Parameters DEF Entry, IInv, LocalsOK
      <4> QED BY <1>0, <4>1, <4>2, AppendIs DEF IInv, LedgerOK
    <3> QED BY <3>1, <3>2
  <2>2. /\ entries' = entries /\ handedOver' = handedOver
        /\ configured' \in BOOLEAN /\ limit' \in Nat /\ revision' \in Nat
    BY <1>0, <1>6 DEF ledger, IInv, LedgerOK
  <2>3. overruns' # 0 /\ bounds' # <<0, 0, 0>>
    BY <1>0, <2>1 DEF bounds
  <2>4. \A q \in Executions : pc'[q] \in Owing =>
           /\ pc[q] \in Owing
           /\ reservation'[q] = reservation[q] /\ estimate'[q] = estimate[q]
    BY <1>0, <1>4, <1>5 DEF locals
  <2>5. \A q \in Executions : pc'[q] \in {"estimate", "reserve"} =>
                               pc[q] \in {"estimate", "reserve"}
    BY <1>4, <1>5
  <2> QED BY <1>3, <2>2, <2>3, <2>4, <2>5, LedgerStays
<1>7. CASE \E kind \in {"charge", "release"}, n \in Nat :
              /\ n <= entries[i].amount
              /\ AppendEntry([kind |-> kind, of |-> i, amount |-> n])
  <2>1. PICK kind \in {"charge", "release"}, n \in Nat :
              /\ n <= entries[i].amount
              /\ AppendEntry([kind |-> kind, of |-> i, amount |-> n])
    BY <1>7
  <2>2. Before' = Before /\ p \in Amid /\ Amid' = Amid \ {p}
    BY <1>0, <1>4, <1>5 DEF Before, Amid, Owing
  <2>3. /\ Cardinality(Before) \in Nat /\ Cardinality(Amid) \in Nat
        /\ Cardinality(Left) \in Nat /\ Cardinality(Amid') = Cardinality(Amid) - 1
        /\ Cardinality(Amid') \in Nat
    BY <2>2, RoomIsFinite, OneMoreOrLess, Fewer DEF IInv
  <2>4. Len(entries) + 2 * Cardinality(Before) + Cardinality(Amid)
          + Cardinality(Left) <= MaxEntries
    BY DEF IInv, RoomOK
  <2>5. NextEntry <= MaxEntries
    BY <1>0, <2>3, <2>4 DEF NextEntry
  <2>6. Len(entries') = Len(entries) + 1 /\ Active' = Active \ {i}
    BY <1>2, <2>1, <2>5, Settling DEF IInv, AppendEntry
  <2>7. Left' = Left
    BY <1>0, <1>2, <2>6 DEF Left
  <2>8. Len(entries') + 2 * Cardinality(Before') + Cardinality(Amid')
          + Cardinality(Left') <= MaxEntries
    BY <1>0, <2>2, <2>3, <2>4, <2>6, <2>7
  <2>9. RoomOK'
    BY <2>8 DEF RoomOK
  <2>10. \A q \in Executions :
           /\ pc'[q] \in Owing => pc'[q] = pc[q] /\ reservation[q] # i
           /\ pc[q] \in Owing => pc'[q] = pc[q] \/ reservation[q] = i
    BY <1>0, <1>1, <1>4, <1>5 DEF IInv, OwedOK
  <2>11. handedOver' = handedOver /\ UNCHANGED <<estimate, reservation, actual, bounds>>
    BY <1>0 DEF locals
  <2>12. i \in Active
    BY <1>2
  <2> QED BY <1>3, <2>1, <2>5, <2>9, <2>10, <2>11, <2>12, SettlementKeeps
<1>8. \/ UNCHANGED ledger
      \/ \E kind \in {"charge", "release"}, n \in Nat :
            /\ n <= entries[i].amount
            /\ AppendEntry([kind |-> kind, of |-> i, amount |-> n])
  BY <1>1, <1>2 DEF Charge, Release
<1> QED BY <1>6, <1>7, <1>8

\* start() of the video runtime leaves its reservation to the polls.
LEMMA HandOverKeeps ==
    ASSUME IInv, NEW p \in Executions, HandOver(p)
    PROVE  IInv'
<1>0. /\ pc[p] \in Owing /\ pc' = [pc EXCEPT ![p] = "idle"]
      /\ handedOver' = handedOver \cup {reservation[p]}
      /\ estimate' = [estimate EXCEPT ![p] = 0]
      /\ reservation' = [reservation EXCEPT ![p] = 0]
      /\ UNCHANGED <<ledger, runLock, actual, seen, bounds>>
      /\ pc \in [Executions -> Labels] /\ MaxEntries \in Nat
      /\ reservation \in [Executions -> 0..MaxEntries]
      /\ estimate \in [Executions -> Nat] /\ Len(entries) \in Nat
  BY SMTT(30), Parameters DEF HandOver, Goto, IInv, LocalsOK, LedgerOK, Owing
<1>1. PICK i : i = reservation[p]
  OBVIOUS
<1>2. i \in Active \ handedOver /\ i \in OfKind("reservation")
  BY <1>0, <1>1 DEF IInv, OwedOK, Active
<1>3. LocalsOK'
  BY SMTT(30), <1>0 DEF IInv, LocalsOK, Labels
<1>4. /\ OfKind("reservation")' = OfKind("reservation") /\ Active' = Active
      /\ LedgerOK' /\ entries' = entries
  BY <1>0 DEF IInv, LedgerOK, OfKind, Active, Settlements, ReservationsNameNone,
              Replayable, ledger
<1>5. \A q \in Executions \ {p} :
         pc'[q] = pc[q] /\ reservation'[q] = reservation[q] /\ estimate'[q] = estimate[q]
  BY <1>0
<1>6. pc'[p] = "idle"
  BY <1>0
<1>7. \A q \in Executions \ {p} : pc[q] \in Owing => reservation[q] # i
  BY <1>0, <1>1 DEF IInv, OwedOK
<1>8. OwedOK'
  <2>1. handedOver' \subseteq OfKind("reservation")'
    BY <1>0, <1>1, <1>2, <1>4 DEF IInv, OwedOK
  <2>2. \A q \in Executions : pc'[q] \in Owing => q # p /\ pc[q] \in Owing
    BY <1>5, <1>6 DEF Owing
  <2>3. actual' = actual /\ overruns' = overruns
    BY <1>0 DEF bounds
  <2> QED BY <1>0, <1>1, <1>4, <1>5, <1>7, <2>1, <2>2, <2>3 DEF IInv, OwedOK
<1>9. RoomOK'
  <2>1. Before' = Before /\ p \in Amid /\ Amid' = Amid \ {p}
    BY <1>0, <1>5, <1>6 DEF Before, Amid, Owing
  <2>2. i \notin Left /\ Left' = Left \cup {i}
    BY <1>0, <1>1, <1>2, <1>4 DEF Left
  <2>3. /\ Cardinality(Before) \in Nat /\ Cardinality(Amid) \in Nat
        /\ Cardinality(Left) \in Nat /\ Cardinality(Amid') = Cardinality(Amid) - 1
        /\ Cardinality(Left') = Cardinality(Left) + 1
    BY <2>1, <2>2, RoomIsFinite, OneMoreOrLess DEF IInv
  <2>4. Len(entries) + 2 * Cardinality(Before) + Cardinality(Amid)
          + Cardinality(Left) <= MaxEntries
    BY DEF IInv, RoomOK
  <2>5. Len(entries') + 2 * Cardinality(Before') + Cardinality(Amid')
          + Cardinality(Left') <= MaxEntries
    BY <1>0, <1>4, <2>1, <2>3, <2>4
  <2> QED BY <2>5 DEF RoomOK
<1>10. ActiveIsExpected'
  <2> SUFFICES ASSUME bounds' = <<0, 0, 0>>, NEW o \in Active \ handedOver, o # i
               PROVE  \E q \in Executions : reservation'[q] = o
                         /\ pc'[q] \in {"operate", "charge", "release"}
    BY <1>0, <1>1, <1>4 DEF ActiveIsExpected
  <2>1. PICK q \in Executions : reservation[q] = o /\ pc[q] \in Owing
    BY <1>0 DEF IInv, ActiveIsExpected, Owing
  <2>2. q # p
    BY <1>1, <2>1
  <2> QED BY <1>5, <2>1, <2>2 DEF Owing
<1> QED BY <1>3, <1>4, <1>8, <1>9, <1>10 DEF IInv

\* A poll settles a reservation that was handed over.
LEMMA PollKeeps ==
    ASSUME IInv, NEW i, PollSettles(i)
    PROVE  IInv'
<1>1. /\ i \in handedOver /\ i \in Active /\ Len(entries) < MaxEntries
      /\ UNCHANGED <<runLock, pc, locals, handedOver, seen, bounds>>
      /\ Len(entries) \in Nat /\ MaxEntries \in Nat
  BY Parameters DEF PollSettles, CanSettle, IInv, LedgerOK
<1>2. entries[i].amount \in Nat
  <2>1. i \in DOMAIN entries /\ entries \in Seq(Entry)
    BY <1>1 DEF Active, OfKind, IInv, LedgerOK
  <2>2. entries[i] \in Entry
    BY <2>1
  <2> QED BY <2>2 DEF Entry
<1>3. PICK kind \in {"charge", "release"}, n \in Nat :
         /\ n <= entries[i].amount
         /\ AppendEntry([kind |-> kind, of |-> i, amount |-> n])
  BY <1>2 DEF PollSettles
<1>4. NextEntry <= MaxEntries
  BY <1>1 DEF NextEntry
<1>5. Len(entries') = Len(entries) + 1 /\ Active' = Active \ {i}
  BY <1>1, <1>3, <1>4, Settling DEF IInv, AppendEntry
<1>6. LocalsOK'
  BY <1>1 DEF IInv, LocalsOK, locals, bounds
<1>7. RoomOK'
  <2>1. Before' = Before /\ Amid' = Amid /\ i \in Left /\ Left' = Left \ {i}
    BY <1>1, <1>5 DEF Before, Amid, Left
  <2>2. /\ Cardinality(Before) \in Nat /\ Cardinality(Amid) \in Nat
        /\ Cardinality(Left) \in Nat /\ Cardinality(Left') = Cardinality(Left) - 1
    BY <2>1, RoomIsFinite, OneMoreOrLess DEF IInv
  <2>3. Len(entries) + 2 * Cardinality(Before) + Cardinality(Amid)
          + Cardinality(Left) <= MaxEntries
    BY DEF IInv, RoomOK
  <2>4. Len(entries') + 2 * Cardinality(Before') + Cardinality(Amid')
          + Cardinality(Left') <= MaxEntries
    BY <1>1, <1>5, <2>1, <2>2, <2>3
  <2> QED BY <2>4 DEF RoomOK
<1>8. \A p \in Executions : pc[p] \in Owing => reservation[p] # i
  BY <1>1 DEF IInv, OwedOK
<1>9. pc' = pc /\ handedOver' = handedOver /\ UNCHANGED <<estimate, reservation, actual, bounds>>
  BY <1>1 DEF locals
<1> QED BY <1>1, <1>3, <1>4, <1>6, <1>7, <1>8, <1>9, SettlementKeeps

\* A crash, and the administration.
LEMMA OthersKeep ==
    ASSUME IInv,
           \/ Crash \/ CreateBudget
           \/ \E m \in Admins : LoadForAdministration(m) \/ UpdateLimit(m)
    PROVE  IInv'
<1>1. /\ revision \in Nat /\ limit \in Nat /\ configured \in BOOLEAN
      /\ Len(entries) \in Nat /\ crashes \in Nat /\ Limits \subseteq Nat
      /\ pc \in [Executions -> Labels]
  BY SMTT(30), Parameters DEF IInv, LedgerOK, LocalsOK, bounds
<1>2. /\ entries' = entries /\ handedOver' = handedOver /\ overruns' = overruns
      /\ configured' \in BOOLEAN /\ limit' \in Nat /\ revision' \in Nat
      /\ \/ UNCHANGED <<pc, locals, bounds>>
         \/ /\ \A p \in Executions : pc'[p] = "idle"
            /\ bounds' # <<0, 0, 0>>
  <2>1. CASE Crash
    BY <1>1, <2>1 DEF Crash, ledger, bounds
  <2>2. CASE CreateBudget
    BY <1>1, <2>2 DEF CreateBudget, bounds
  <2>3. ASSUME NEW m \in Admins, LoadForAdministration(m)
        PROVE  UNCHANGED <<ledger, handedOver, pc, locals, bounds>>
    BY <2>3 DEF LoadForAdministration
  <2>4. ASSUME NEW m \in Admins, UpdateLimit(m)
        PROVE  /\ UNCHANGED <<configured, entries, handedOver, pc, locals, bounds>>
               /\ limit' \in Nat /\ revision' \in Nat
    BY <1>1, <2>4 DEF UpdateLimit
  <2>5. CASE \E m \in Admins : LoadForAdministration(m) \/ UpdateLimit(m)
    BY <1>1, <2>3, <2>4, <2>5 DEF ledger, bounds
  <2> QED BY <2>1, <2>2, <2>5
<1>3. LocalsOK'
  <2>1. CASE Crash
    BY SMTT(30), <1>1, <2>1, Parameters DEF Crash, IInv, LocalsOK, Labels, bounds
  <2>2. CASE CreateBudget \/ \E m \in Admins : UpdateLimit(m)
    BY <2>2 DEF CreateBudget, UpdateLimit, IInv, LocalsOK, locals, bounds
  <2>3. ASSUME NEW m \in Admins, LoadForAdministration(m) PROVE LocalsOK'
    BY <1>1, <2>3 DEF LoadForAdministration, IInv, LocalsOK, locals, bounds
  <2> QED BY <2>1, <2>2, <2>3
<1>4. \A p \in Executions : pc'[p] = "charge" /\ overruns' = 0 => actual'[p] <= estimate'[p]
  BY <1>2 DEF IInv, OwedOK, Owing, locals, bounds
<1> QED BY <1>2, <1>3, <1>4, LedgerStays DEF locals, Owing

-----------------------------------------------------------------------------
(* The theorem *)

LEMMA InitIInv == Init => IInv
<1> SUFFICES ASSUME Init PROVE IInv
  OBVIOUS
<1> USE DEF Init
<1>1. OfKind("reservation") = {} /\ Active = {}
  BY DEF OfKind, Active
<1>2. LedgerOK
  <2>1. <<>> \in Seq(Entry) /\ DOMAIN entries = {}
    OBVIOUS
  <2>2. ReservationsNameNone
    BY <1>1 DEF ReservationsNameNone
  <2>3. Replayable
    BY <2>1 DEF Replayable
  <2> QED BY <2>1, <2>2, <2>3 DEF LedgerOK
<1>3. OwedOK
  BY <1>1 DEF OwedOK, Owing
<1>4. LocalsOK
  BY Parameters DEF LocalsOK, Labels, NoScreen, bounds
<1>5. RoomOK
  <2>1. Before = {} /\ Amid = {} /\ Left = {}
    BY DEF Before, Amid, Left, Owing
  <2>2. Cardinality({}) = 0
    BY FS_EmptySet
  <2> QED BY <2>1, <2>2, Parameters DEF RoomOK
<1>6. ActiveIsExpected
  BY <1>1 DEF ActiveIsExpected
<1> QED BY <1>2, <1>3, <1>4, <1>5, <1>6 DEF IInv

LEMMA NextIInv == IInv /\ [Next]_vars => IInv'
<1> SUFFICES ASSUME IInv, [Next]_vars PROVE IInv'
  OBVIOUS
<1>1. ASSUME NEW p \in Executions,
             Acquire(p) \/ ExecuteUnlocked(p) \/ Step(p) \/ HandOver(p) \/ StoreFails(p)
      PROVE  IInv'
  BY <1>1, BeginKeeps, PrivateKeeps, ReserveKeeps, SettleOwnKeeps, HandOverKeeps DEF Step
<1>2. CASE UNCHANGED vars
  <2>1. /\ entries' = entries /\ handedOver' = handedOver
        /\ configured' \in BOOLEAN /\ limit' \in Nat /\ revision' \in Nat
        /\ UNCHANGED <<pc, estimate, reservation, actual, bounds>>
    BY <1>2 DEF vars, ledger, locals, IInv, LedgerOK
  <2>2. LocalsOK'
    BY <1>2 DEF vars, locals, bounds, IInv, LocalsOK
  <2>3. \A p \in Executions : pc'[p] = "charge" /\ overruns' = 0 => actual'[p] <= estimate'[p]
    BY <2>1 DEF IInv, OwedOK, Owing, bounds
  <2> QED BY <2>1, <2>2, <2>3, LedgerStays DEF bounds
<1> QED BY <1>1, <1>2, PollKeeps, OthersKeep DEF Next

\* Whatever executions, polls and administrators append or change, and whoever
\* dies in between, every operation can replay the ledger; and without deaths,
\* failures and overruns each reservation is settled or somebody's to settle.
THEOREM LedgerIsSound == Spec => []LedgerReplays
<1>1. IInv => LedgerReplays
  <2> SUFFICES ASSUME IInv PROVE LedgerReplays
    OBVIOUS
  <2>1. Len(entries) <= MaxEntries
    BY RoomIsFinite, Parameters DEF IInv, RoomOK, LedgerOK
  <2> QED BY <2>1 DEF IInv, LedgerReplays, TypeOK, LedgerOK, OwedOK, LocalsOK
<1> QED BY <1>1, InitIInv, NextIInv, PTL DEF Spec

-----------------------------------------------------------------------------
(* What the entries add up to                                              *)

\* A sum is the number of its units.
Units(a, S) == {u \in S \X Nat : 1 <= u[2] /\ u[2] <= a[u[1]]}

LEMMA UnitsOfOne ==
    ASSUME NEW S, IsFiniteSet(S), NEW a, NEW x \in S, \A y \in S : a[y] \in Nat,
           IsFiniteSet(Units(a, S \ {x}))
    PROVE  /\ IsFiniteSet(Units(a, S))
           /\ Cardinality(Units(a, S)) = a[x] + Cardinality(Units(a, S \ {x}))
<1> DEFINE U == {x} \X (1..a[x])
<1>1. Units(a, S) = Units(a, S \ {x}) \cup U /\ Units(a, S \ {x}) \cap U = {}
  BY DEF Units
<1>2. IsFiniteSet(1..a[x]) /\ Cardinality(1..a[x]) = a[x] /\ a[x] \in Nat
  <2>1. PICK n \in Nat : n = a[x]
    OBVIOUS
  <2>2. IsFiniteSet(1..n) /\ Cardinality(1..n) = IF 1 > n THEN 0 ELSE n - 1 + 1
    BY FS_Interval
  <2>3. Cardinality(1..n) = n
    BY <2>2
  <2> QED BY <2>1, <2>2, <2>3
<1>3. IsFiniteSet({x}) /\ Cardinality({x}) = 1
  BY FS_Singleton
<1>4. IsFiniteSet(U) /\ Cardinality(U) = 1 * a[x]
  BY ZenonT(30), <1>2, <1>3, FS_Product
<1>5. Cardinality(U) = a[x]
  BY <1>2, <1>4
<1> HIDE DEF U
<1>6. Cardinality(Units(a, S \ {x}) \cap U) = 0
  BY <1>1, FS_EmptySet
<1>7. Cardinality(Units(a, S \ {x})) \in Nat
  BY FS_CardinalityType
<1>8. /\ IsFiniteSet(Units(a, S \ {x}) \cup U)
      /\ Cardinality(Units(a, S \ {x}) \cup U)
            = Cardinality(Units(a, S \ {x})) + Cardinality(U) - Cardinality(Units(a, S \ {x}) \cap U)
  BY <1>4, FS_Union
<1> QED BY <1>1, <1>2, <1>5, <1>6, <1>7, <1>8

\* The least subset of a finite set.
LEMMA LeastSubset ==
    ASSUME NEW S, IsFiniteSet(S), NEW Q, Q \subseteq SUBSET S, Q # {}
    PROVE  \E T \in Q : \A R \in Q : ~ (R \subseteq T /\ R # T)
<1>1. IsWellFoundedOn(StrictSubsetOrdering(S), SUBSET S)
  BY FS_StrictSubsetOrderingWellFounded, FS_FiniteSubsetsOfFinite
<1>2. PICK T \in Q : \A R \in Q : ~ (<<R, T>> \in StrictSubsetOrdering(S))
  BY <1>1, WFMin
<1> QED BY <1>2 DEF StrictSubsetOrdering

LEMMA UnitsFinite ==
    ASSUME NEW S, IsFiniteSet(S), NEW a, \A y \in S : a[y] \in Nat
    PROVE  IsFiniteSet(Units(a, S))
<1> DEFINE Q == {T \in SUBSET S : ~ IsFiniteSet(Units(a, T))}
<1> SUFFICES ASSUME Q # {} PROVE FALSE
  OBVIOUS
<1>1. PICK T \in Q : \A R \in Q : ~ (R \subseteq T /\ R # T)
  <2> HIDE DEF Q
  <2>1. Q \subseteq SUBSET S
    BY DEF Q
  <2> QED BY <2>1, LeastSubset
<1>2. IsFiniteSet(T)
  BY FS_Subset
<1>3. CASE T = {}
  <2>1. Units(a, T) = {}
    BY <1>3 DEF Units
  <2> QED BY <2>1, <1>1, FS_EmptySet
<1>4. CASE T # {}
  <2>1. PICK x \in T : TRUE
    BY <1>4
  <2>2. IsFiniteSet(Units(a, T \ {x}))
    BY <1>1
  <2> QED BY <1>1, <1>2, <2>2, UnitsOfOne
<1> QED BY <1>3, <1>4

\* g adds up a, one element after the other.
Adds(g, a, S) ==
    g = [s \in SUBSET S |->
            IF s = {} THEN 0
            ELSE a[CHOOSE x \in s : TRUE] + g[s \ {CHOOSE x \in s : TRUE}]]

\* Whatever adds up one element after the other counts the units.
LEMMA SumIsUnits ==
    ASSUME NEW S, IsFiniteSet(S), NEW a, \A y \in S : a[y] \in Nat, NEW g, Adds(g, a, S)
    PROVE  g[S] = Cardinality(Units(a, S))
<1> DEFINE Q == {T \in SUBSET S : g[T] # Cardinality(Units(a, T))}
<1> SUFFICES ASSUME Q # {} PROVE FALSE
  OBVIOUS
<1>1. PICK T \in Q : \A R \in Q : ~ (R \subseteq T /\ R # T)
  <2>1. Q \subseteq SUBSET S
    OBVIOUS
  <2> HIDE DEF Q
  <2> QED BY <2>1, LeastSubset
<1>2. IsFiniteSet(T) /\ T \in SUBSET S
  BY FS_Subset
<1>3. CASE T = {}
  <2>1. Units(a, T) = {}
    BY <1>3 DEF Units
  <2>2. g[T] = 0
    BY <1>3 DEF Adds
  <2> QED BY <2>1, <2>2, <1>1, FS_EmptySet
<1>4. CASE T # {}
  <2>1. PICK x : x = CHOOSE y \in T : TRUE
    OBVIOUS
  <2>2. x \in T
    BY <1>4, <2>1
  <2>3. g[T] = a[x] + g[T \ {x}]
    BY <1>2, <1>4, <2>1 DEF Adds
  <2>4. g[T \ {x}] = Cardinality(Units(a, T \ {x}))
    <3>1. T \ {x} \subseteq T /\ T \ {x} # T /\ T \ {x} \in SUBSET S
      BY <1>2, <2>2
    <3>2. T \ {x} \notin Q
      BY <1>1, <3>1
    <3> QED BY <3>1, <3>2
  <2>5. IsFiniteSet(T \ {x}) /\ \A y \in T \ {x} : a[y] \in Nat
    BY <1>2, FS_RemoveElement
  <2>6. Cardinality(Units(a, T)) = a[x] + Cardinality(Units(a, T \ {x}))
    BY <1>2, <2>2, <2>5, UnitsFinite, UnitsOfOne
  <2> QED BY <1>1, <2>3, <2>4, <2>6
<1> QED BY <1>3, <1>4

LEMMA SumExists ==
    ASSUME NEW S, IsFiniteSet(S), NEW a, \A y \in S : a[y] \in Nat
    PROVE  \E g : Adds(g, a, S)
<1> DEFINE g == [s \in SUBSET S |-> Cardinality(Units(a, s))]
<1>1. ASSUME NEW s \in SUBSET S
      PROVE  g[s] = IF s = {} THEN 0
                   ELSE a[CHOOSE x \in s : TRUE] + g[s \ {CHOOSE x \in s : TRUE}]
  <2>1. CASE s = {}
    <3>1. Units(a, s) = {}
      BY <2>1 DEF Units
    <3> QED BY <2>1, <3>1, FS_EmptySet
  <2>2. CASE s # {}
    <3>1. PICK x : x = CHOOSE y \in s : TRUE
      OBVIOUS
    <3>2. x \in s
      BY <2>2, <3>1
    <3>3. IsFiniteSet(s) /\ IsFiniteSet(s \ {x})
      BY FS_Subset, FS_RemoveElement
    <3>4. Cardinality(Units(a, s)) = a[x] + Cardinality(Units(a, s \ {x}))
      BY <3>2, <3>3, UnitsFinite, UnitsOfOne
    <3> QED BY <2>2, <3>1, <3>4
  <2> QED BY <2>1, <2>2
<1>2. g = [s \in SUBSET S |->
                   IF s = {} THEN 0
                   ELSE a[CHOOSE x \in s : TRUE] + g[s \ {CHOOSE x \in s : TRUE}]]
  <2> DEFINE h == [s \in SUBSET S |->
                   IF s = {} THEN 0
                   ELSE a[CHOOSE x \in s : TRUE] + g[s \ {CHOOSE x \in s : TRUE}]]
  <2>1. DOMAIN g = SUBSET S /\ DOMAIN h = SUBSET S
    OBVIOUS
  <2>2. \A s \in SUBSET S : g[s] = h[s]
    BY <1>1
  <2> QED BY <2>1, <2>2
<1>3. Adds(g, a, S)
  BY <1>2 DEF Adds
<1> QED BY <1>3

\* What the e of a ledger e at the positions S add up to.
Sums(e, S) == MapThenSumSet(LAMBDA i : e[i].amount, S)
Amounts(e) == [i \in DOMAIN e |-> e[i].amount]

LEMMA SumsAreUnits ==
    ASSUME NEW e \in Seq(Entry), NEW S, S \subseteq DOMAIN e
    PROVE  /\ IsFiniteSet(S) /\ IsFiniteSet(Units(Amounts(e), S))
           /\ Sums(e, S) = Cardinality(Units(Amounts(e), S))
<1> DEFINE a == Amounts(e)
<1>0. \A i \in S : e[i] \in Entry /\ e[i].amount \in Nat
  <2>1. \A i \in S : e[i] \in Entry
    OBVIOUS
  <2> QED BY <2>1 DEF Entry
<1>9. IsFiniteSet(S)
  <2>1. PICK n \in Nat : DOMAIN e = 1..n
    OBVIOUS
  <2>2. IsFiniteSet(1..n)
    BY FS_Interval
  <2> QED BY <2>1, <2>2, FS_Subset
<1> DEFINE h == CHOOSE g : g = [s \in SUBSET S |->
                   IF s = {} THEN 0
                   ELSE e[CHOOSE x \in s : TRUE].amount + g[s \ {CHOOSE x \in s : TRUE}]]
<1>1. Sums(e, S) = h[S]
  BY DEF Sums, MapThenSumSet, MapThenFoldSet
<1>2. \A s \in SUBSET S : s # {} => a[CHOOSE x \in s : TRUE] = e[CHOOSE x \in s : TRUE].amount
  BY DEF Amounts
<1>3. \A y \in S : a[y] \in Nat
  BY <1>0 DEF Amounts
<1> HIDE DEF a
<1>4. PICK g : Adds(g, a, S)
  BY <1>9, <1>3, SumExists
<1>5. g = [s \in SUBSET S |->
                   IF s = {} THEN 0
                   ELSE e[CHOOSE x \in s : TRUE].amount + g[s \ {CHOOSE x \in s : TRUE}]]
  <2>1. DOMAIN g = SUBSET S /\ g = [s \in SUBSET S |-> g[s]]
    BY <1>4 DEF Adds
  <2>2. \A s \in SUBSET S :
           g[s] = IF s = {} THEN 0
                  ELSE a[CHOOSE x \in s : TRUE] + g[s \ {CHOOSE x \in s : TRUE}]
    BY <1>4 DEF Adds
  <2>3. \A s \in SUBSET S :
           g[s] = IF s = {} THEN 0
                  ELSE e[CHOOSE x \in s : TRUE].amount + g[s \ {CHOOSE x \in s : TRUE}]
    BY <1>2, <2>2
  <2> QED BY <2>1, <2>3
<1>6. h = [s \in SUBSET S |->
                   IF s = {} THEN 0
                   ELSE e[CHOOSE x \in s : TRUE].amount + h[s \ {CHOOSE x \in s : TRUE}]]
  BY <1>5
<1> HIDE DEF h
<1>7. Adds(h, a, S)
  <2>1. DOMAIN h = SUBSET S /\ h = [s \in SUBSET S |-> h[s]]
    BY <1>6
  <2>2. \A s \in SUBSET S :
           h[s] = IF s = {} THEN 0
                  ELSE e[CHOOSE x \in s : TRUE].amount + h[s \ {CHOOSE x \in s : TRUE}]
    BY <1>6
  <2>3. \A s \in SUBSET S :
           h[s] = IF s = {} THEN 0
                  ELSE a[CHOOSE x \in s : TRUE] + h[s \ {CHOOSE x \in s : TRUE}]
    BY <1>2, <2>2
  <2> QED BY <2>1, <2>3 DEF Adds
<1>8. h[S] = Cardinality(Units(a, S))
  BY <1>9, <1>3, <1>7, SumIsUnits
<1> QED BY <1>9, <1>1, <1>3, <1>8, UnitsFinite DEF a

LEMMA SumsAddUp ==
    ASSUME NEW e \in Seq(Entry), NEW S, S \subseteq DOMAIN e
    PROVE  /\ Sums(e, S) \in Nat /\ Sums(e, {}) = 0
           /\ \A x \in S : Sums(e, S) = e[x].amount + Sums(e, S \ {x})
<1>1. Sums(e, S) \in Nat
  BY SumsAreUnits, FS_CardinalityType
<1>2. Units(Amounts(e), {}) = {}
  BY DEF Units
<1>3. Sums(e, {}) = 0
  BY <1>2, SumsAreUnits, FS_EmptySet
<1>4. ASSUME NEW x \in S
      PROVE  Sums(e, S) = e[x].amount + Sums(e, S \ {x})
  <2>1. Sums(e, S \ {x}) = Cardinality(Units(Amounts(e), S \ {x}))
    BY SumsAreUnits
  <2>2. \A y \in S : Amounts(e)[y] = e[y].amount /\ e[y] \in Entry
    BY DEF Amounts
  <2>3. \A y \in S : Amounts(e)[y] \in Nat
    BY <2>2 DEF Entry
  <2>4. Cardinality(Units(Amounts(e), S))
          = Amounts(e)[x] + Cardinality(Units(Amounts(e), S \ {x}))
    BY <2>3, SumsAreUnits, UnitsOfOne
  <2> QED BY <2>1, <2>2, <2>4, SumsAreUnits
<1> QED BY <1>1, <1>3, <1>4

LEMMA SumsStay ==
    ASSUME NEW e \in Seq(Entry), NEW f \in Seq(Entry), NEW S,
           S \subseteq DOMAIN e, S \subseteq DOMAIN f, \A i \in S : f[i] = e[i]
    PROVE  Sums(f, S) = Sums(e, S)
<1>1. \A i \in S : Amounts(f)[i] = Amounts(e)[i]
  BY DEF Amounts
<1>2. Units(Amounts(f), S) = Units(Amounts(e), S)
  BY <1>1 DEF Units
<1> QED BY <1>2, SumsAreUnits

-----------------------------------------------------------------------------
(* The ledger implements the contract of a budget *)

\* Nothing is reserved without a budget, and never an amount of 0.
BudgetOK ==
    /\ ~ configured => entries = <<>> /\ limit = 0
    /\ \A p \in Executions : pc[p] = "reserve" => estimate[p] > 0
    /\ \A i \in OfKind("reservation") : entries[i].amount > 0

RInv == IInv /\ BudgetOK

Reserves(p) ==
    /\ pc[p] = "reserve" /\ configured /\ Covered(estimate[p])
    /\ AppendEntry([kind |-> "reservation", of |-> 0, amount |-> estimate[p]])
Ends(i, kind, n) ==
    /\ i \in Active /\ n <= entries[i].amount /\ (kind = "release" => n = 0)
    /\ AppendEntry([kind |-> kind, of |-> i, amount |-> n])
MovesLimit ==
    /\ entries' = entries /\ configured' = TRUE /\ limit' \in Limits
    /\ configured => Spent + Reserved <= limit'

\* All that ever happens to a ledger.
LEMMA LedgerSteps ==
    ASSUME IInv, [Next]_vars
    PROVE  \/ entries' = entries /\ configured' = configured /\ limit' = limit
           \/ MovesLimit
           \/ \E p \in Executions : Reserves(p)
           \/ \E i \in Active, kind \in {"charge", "release"}, n \in Nat : Ends(i, kind, n)
<1> DEFINE Stays == entries' = entries /\ configured' = configured /\ limit' = limit
           Ended == \E i \in Active, kind \in {"charge", "release"}, n \in Nat : Ends(i, kind, n)
<1>1. ASSUME NEW p \in Executions,
             \/ Acquire(p) \/ ExecuteUnlocked(p) \/ Estimate(p) \/ Operate(p)
             \/ Unlock(p) \/ HandOver(p) \/ StoreFails(p)
      PROVE  Stays
  BY <1>1 DEF Acquire, ExecuteUnlocked, Estimate, Operate, Unlock, HandOver, StoreFails, ledger
<1>2. ASSUME NEW p \in Executions, Reserve(p)
      PROVE  Reserves(p) \/ Stays
  BY <1>2 DEF Reserve, Reserves, ledger
<1>3. ASSUME NEW p \in Executions, Charge(p)
      PROVE  Ended \/ Stays
  <2>1. CASE UNCHANGED ledger
    BY <2>1 DEF ledger
  <2>2. CASE ~ UNCHANGED ledger
    <3>1. PICK i : i = reservation[p]
      OBVIOUS
    <3>2. PICK n : n = actual[p]
      OBVIOUS
    <3>3. i \in Active /\ n <= entries[i].amount /\ n \in Nat
            /\ AppendEntry([kind |-> "charge", of |-> i, amount |-> n])
      BY <1>3, <2>2, <3>1, <3>2 DEF Charge, CanSettle, IInv, LocalsOK
    <3>4. Ends(i, "charge", n)
      BY <3>3 DEF Ends
    <3> QED BY <3>3, <3>4
  <2> QED BY <2>1, <2>2
<1>0. \A i \in Active : entries[i].amount \in Nat
  <2>1. \A i \in Active : i \in DOMAIN entries /\ entries \in Seq(Entry)
    BY DEF Active, OfKind, IInv, LedgerOK
  <2>2. \A i \in Active : entries[i] \in Entry
    BY <2>1
  <2> QED BY <2>2 DEF Entry
<1>4. ASSUME NEW p \in Executions, Release(p)
      PROVE  Ended \/ Stays
  <2>1. CASE UNCHANGED ledger
    BY <2>1 DEF ledger
  <2>2. CASE ~ UNCHANGED ledger
    <3>1. PICK i : i = reservation[p]
      OBVIOUS
    <3>3. i \in Active /\ AppendEntry([kind |-> "release", of |-> i, amount |-> 0])
      BY <1>4, <2>2, <3>1 DEF Release, CanSettle
    <3>4. Ends(i, "release", 0)
      BY <1>0, <3>3 DEF Ends
    <3> QED BY <3>3, <3>4
  <2> QED BY <2>1, <2>2
<1>5. ASSUME NEW i, PollSettles(i)
      PROVE  Ended
  <2>1. i \in Active /\ entries[i].amount \in Nat
    BY <1>0, <1>5 DEF PollSettles, CanSettle
  <2>2. PICK n : n = entries[i].amount
    OBVIOUS
  <2>3. \/ AppendEntry([kind |-> "charge", of |-> i, amount |-> n])
        \/ AppendEntry([kind |-> "release", of |-> i, amount |-> 0])
    BY <1>5, <2>2 DEF PollSettles
  <2>4. Ends(i, "charge", n) \/ Ends(i, "release", 0)
    BY <2>1, <2>2, <2>3 DEF Ends
  <2> QED BY <2>1, <2>2, <2>4
<1>6. Crash => Stays
  BY DEF Crash, ledger
<1>7. CreateBudget => MovesLimit
  BY DEF CreateBudget, MovesLimit
<1>8. ASSUME NEW m \in Admins, LoadForAdministration(m)
      PROVE  Stays
  BY <1>8 DEF LoadForAdministration, ledger
<1>9. ASSUME NEW m \in Admins, UpdateLimit(m)
      PROVE  MovesLimit
  <2>1. configured' = TRUE
    BY <1>9 DEF UpdateLimit, IInv, LedgerOK
  <2>2. Spent + Reserved <= limit'
    BY <1>9 DEF UpdateLimit
  <2> QED BY <1>9, <2>1, <2>2 DEF UpdateLimit, MovesLimit
<1>10. UNCHANGED vars => Stays
  BY DEF vars, ledger
<1> HIDE DEF Stays, Ended
<1>11. Stays \/ MovesLimit \/ Ended \/ \E p \in Executions : Reserves(p)
  <2>1. ASSUME NEW p \in Executions,
               Acquire(p) \/ ExecuteUnlocked(p) \/ Step(p) \/ HandOver(p) \/ StoreFails(p)
        PROVE  Stays \/ Ended \/ Reserves(p)
    BY <1>1, <1>2, <1>3, <1>4, <2>1 DEF Step
  <2>2. CASE Next
    BY <1>5, <1>6, <1>7, <1>8, <1>9, <2>1, <2>2 DEF Next
  <2> QED BY <1>10, <2>2
<1> QED BY <1>11 DEF Stays, Ended

\* Spent and reserved, as the sums of the entries.
LEMMA BalanceIs ==
    ASSUME IInv
    PROVE  /\ Spent = Sums(entries, OfKind("charge")) /\ Spent \in Nat
           /\ Reserved = Sums(entries, Active) /\ Reserved \in Nat
           /\ OfKind("charge") \subseteq DOMAIN entries /\ Active \subseteq DOMAIN entries
           /\ entries \in Seq(Entry)
<1>1. /\ OfKind("charge") \subseteq DOMAIN entries /\ Active \subseteq DOMAIN entries
      /\ entries \in Seq(Entry)
  BY DEF OfKind, Active, IInv, LedgerOK
<1>2. Spent = Sums(entries, OfKind("charge")) /\ Reserved = Sums(entries, Active)
  BY DEF Spent, Reserved, Total, Sums
<1> QED BY <1>1, <1>2, SumsAddUp

\* One entry more leaves what the others add up to.
LEMMA OneEntryMore ==
    ASSUME IInv, IInv', NEW S, S \subseteq DOMAIN entries, NEW N, N \in DOMAIN entries',
           N \notin DOMAIN entries, \A i \in DOMAIN entries : entries'[i] = entries[i],
           DOMAIN entries \subseteq DOMAIN entries'
    PROVE  /\ Sums(entries', S) = Sums(entries, S)
           /\ Sums(entries', S \cup {N}) = Sums(entries, S) + entries'[N].amount
<1>1. entries \in Seq(Entry) /\ entries' \in Seq(Entry)
  BY DEF IInv, LedgerOK
<1>2. Sums(entries', S) = Sums(entries, S) /\ Sums(entries, S) \in Nat
  BY <1>1, SumsStay, SumsAddUp
<1>3. (S \cup {N}) \ {N} = S /\ S \cup {N} \subseteq DOMAIN entries'
  OBVIOUS
<1>4. Sums(entries', S \cup {N}) = entries'[N].amount + Sums(entries', (S \cup {N}) \ {N})
  BY <1>1, <1>3, SumsAddUp
<1>5. entries'[N] \in Entry
  BY <1>1
<1>6. entries'[N].amount \in Nat
  BY <1>5 DEF Entry
<1>7. Sums(entries', (S \cup {N}) \ {N}) = Sums(entries, S)
  BY <1>2, <1>3
<1>8. PICK m \in Nat, k \in Nat : m = entries'[N].amount /\ k = Sums(entries, S)
  BY <1>2, <1>6
<1>9. Sums(entries', S \cup {N}) = m + k
  BY <1>4, <1>7, <1>8
<1> QED BY <1>2, <1>8, <1>9

LEMMA BalanceNext ==
    /\ Spent' = Sums(entries', OfKind("charge")')
    /\ Reserved' = Sums(entries', Active')
  BY DEF Spent, Reserved, Total, Sums, MapThenSumSet, MapThenFoldSet

LEMMA LengthBounded ==
    ASSUME IInv'
    PROVE  Len(entries') <= MaxEntries
<1>1. IsFiniteSet(Executions) /\ MaxEntries \in Nat
  BY Parameters
<1>2. IsFiniteSet(Before') /\ IsFiniteSet(Amid')
  BY <1>1, FS_Subset DEF Before, Amid
<1>3. PICK n \in Nat : n = Len(entries') /\ DOMAIN entries' = 1..n
  BY DEF IInv, LedgerOK
<1>4. Left' \subseteq 1..n /\ IsFiniteSet(1..n)
  BY <1>3, FS_Interval DEF Left, Active, OfKind
<1>5. /\ Cardinality(Before') \in Nat /\ Cardinality(Amid') \in Nat
      /\ Cardinality(Left') \in Nat
  BY <1>2, <1>4, FS_Subset, FS_CardinalityType
<1>6. n + 2 * Cardinality(Before') + Cardinality(Amid') + Cardinality(Left') <= MaxEntries
  BY <1>3 DEF IInv, RoomOK
<1> QED BY <1>1, <1>3, <1>5, <1>6

\* A reservation moves its amount from available to reserved.
LEMMA ReservingMoves ==
    ASSUME RInv, IInv', NEW p \in Executions, Reserves(p)
    PROVE  /\ Contract!Reserve
           /\ entries' # <<>> /\ configured' /\ limit' = limit
           /\ \A i \in OfKind("reservation")' : entries'[i].amount > 0
<1> PICK N : N = NextEntry
  OBVIOUS
<1> PICK n : n = estimate[p]
  OBVIOUS
<1>1. /\ n \in Nat /\ n > 0 /\ limit \in Nat /\ limit' = limit /\ configured' = configured
      /\ n <= limit - Spent - Reserved /\ LedgerOK /\ configured
      /\ entries' = Append(entries, [kind |-> "reservation", of |-> 0, amount |-> n])
      /\ entries \in Seq(Entry)
  BY DEF RInv, BudgetOK, IInv, LocalsOK, LedgerOK, Reserves, Covered, Available, AppendEntry
<1>2. NextEntry <= MaxEntries /\ entries' # <<>>
  <2>1. Len(entries') = Len(entries) + 1 /\ Len(entries) \in Nat
    BY <1>1
  <2>2. Len(entries') # 0 /\ NextEntry <= MaxEntries
    BY <2>1, LengthBounded DEF NextEntry
  <2> QED BY <2>2
<1>3. /\ OfKind("reservation")' = OfKind("reservation") \cup {N}
      /\ Active' = Active \cup {N} /\ N \notin OfKind("reservation")
      /\ \A i \in OfKind("reservation") : entries'[i].amount = entries[i].amount
      /\ entries'[N].amount = n
      /\ OfKind("charge")' = OfKind("charge")
      /\ \A i \in DOMAIN entries : entries'[i] = entries[i]
  BY <1>1, <1>2, Reserving
<1>4. /\ DOMAIN entries' = DOMAIN entries \cup {N} /\ N \notin DOMAIN entries
  <2>1. [kind |-> "reservation", of |-> 0, amount |-> n] \in Entry
    BY <1>1, Parameters DEF Entry
  <2> QED BY <1>1, <2>1, AppendIs DEF NextEntry
<1>5. Sums(entries', OfKind("charge")) = Sums(entries, OfKind("charge"))
  BY <1>3, <1>4, OneEntryMore, BalanceIs DEF RInv
<1>6. Sums(entries', Active \cup {N}) = Sums(entries, Active) + n
  BY <1>3, <1>4, OneEntryMore, BalanceIs DEF RInv
<1>7. Spent' = Sums(entries', OfKind("charge")') /\ Reserved' = Sums(entries', Active')
  BY BalanceNext
<1>8. Spent' = Spent /\ Reserved' = Reserved + n /\ Spent \in Nat /\ Reserved \in Nat
  BY <1>3, <1>5, <1>6, <1>7, BalanceIs DEF RInv
<1>9. n \in 1..(limit - Spent - Reserved)
  BY <1>1, <1>8
<1>10. Contract!Reserve
  BY <1>1, <1>8, <1>9 DEF Contract!Reserve
<1>11. \A i \in OfKind("reservation")' : entries'[i].amount > 0
  BY <1>1, <1>3 DEF RInv, BudgetOK
<1> QED BY <1>1, <1>2, <1>10, <1>11

\* A settlement spends at most what was set aside, and frees the rest.
LEMMA EndingMoves ==
    ASSUME RInv, IInv', NEW i \in Active, NEW kind \in {"charge", "release"}, NEW n \in Nat,
           Ends(i, kind, n), kind = "release" => n = 0
    PROVE  /\ Contract!Settle
           /\ configured /\ configured' = configured /\ limit' = limit
           /\ \A o \in OfKind("reservation")' : entries'[o].amount > 0
<1> PICK N : N = NextEntry
  OBVIOUS
<1> PICK m : m = entries[i].amount
  OBVIOUS
<1>0. i \in DOMAIN entries /\ i \in OfKind("reservation")
  BY DEF Active, OfKind
<1>1. /\ n <= m /\ limit \in Nat /\ limit' = limit /\ configured' = configured
      /\ LedgerOK /\ entries \in Seq(Entry) /\ m > 0
      /\ entries' = Append(entries, [kind |-> kind, of |-> i, amount |-> n])
  BY <1>0 DEF RInv, BudgetOK, IInv, LedgerOK, Ends, AppendEntry
<1>2. m \in Nat
  <2>1. entries[i] \in Entry
    BY <1>0, <1>1
  <2> QED BY <2>1 DEF Entry
<1>3. configured
  <2>1. entries # <<>>
    BY <1>0
  <2> QED BY <2>1 DEF RInv, BudgetOK
<1>4. NextEntry <= MaxEntries
  <2>1. Len(entries') = Len(entries) + 1 /\ Len(entries) \in Nat
    BY <1>1
  <2> QED BY <2>1, LengthBounded DEF NextEntry
<1>5. /\ OfKind("reservation")' = OfKind("reservation") /\ Active' = Active \ {i}
      /\ \A o \in OfKind("reservation") : entries'[o].amount = entries[o].amount
      /\ OfKind("charge")' = OfKind("charge") \cup (IF kind = "charge" THEN {N} ELSE {})
      /\ N \notin DOMAIN entries /\ entries'[N].amount = n
      /\ \A o \in DOMAIN entries : entries'[o] = entries[o]
  BY <1>1, <1>4, Settling
<1>6. DOMAIN entries' = DOMAIN entries \cup {N}
  <2>1. [kind |-> kind, of |-> i, amount |-> n] \in Entry
    <3>1. i \in 0..MaxEntries
      BY <1>0, <1>1, <1>4, Parameters DEF NextEntry
    <3> QED BY <3>1 DEF Entry
  <2> QED BY <1>1, <2>1, AppendIs DEF NextEntry
<1>7. /\ Sums(entries', OfKind("charge")) = Sums(entries, OfKind("charge"))
      /\ Sums(entries', OfKind("charge") \cup {N}) = Sums(entries, OfKind("charge")) + n
  BY <1>5, <1>6, OneEntryMore, BalanceIs DEF RInv
<1>8. Sums(entries, Active) = m + Sums(entries, Active \ {i})
        /\ Sums(entries, Active \ {i}) \in Nat
  BY BalanceIs, SumsAddUp DEF RInv
<1>9. Sums(entries', Active \ {i}) = Sums(entries, Active \ {i})
  BY <1>5, <1>6, OneEntryMore, BalanceIs DEF RInv
<1>10. Spent' = Sums(entries', OfKind("charge")') /\ Reserved' = Sums(entries', Active')
  BY BalanceNext
<1>11. PICK k \in Nat : k = Sums(entries, Active \ {i})
  BY <1>8
<1>12. Reserved = m + k /\ Reserved' = k /\ Spent \in Nat
  BY <1>5, <1>8, <1>9, <1>10, <1>11, BalanceIs DEF RInv
<1>13. Spent' = Spent + n
  <2>1. CASE kind = "charge"
    BY <1>5, <1>7, <1>10, <2>1, BalanceIs DEF RInv
  <2>2. CASE kind = "release"
    <3>1. n = 0 /\ OfKind("charge")' = OfKind("charge")
      BY <1>5, <2>2
    <3>2. Spent' = Spent
      BY <1>7, <1>10, <3>1, BalanceIs DEF RInv
    <3> QED BY <1>12, <3>1, <3>2
  <2> QED BY <2>1, <2>2
<1>14. m \in 1..Reserved /\ n \in 0..m /\ Reserved' = Reserved - m
  BY <1>1, <1>2, <1>11, <1>12
<1>15. Contract!Settle
  BY <1>1, <1>13, <1>14 DEF Contract!Settle
<1>16. \A o \in OfKind("reservation")' : entries'[o].amount > 0
  BY <1>5 DEF RInv, BudgetOK
<1> QED BY <1>1, <1>3, <1>15, <1>16

\* Who is about to reserve has a price.
LEMMA Priced ==
    ASSUME RInv, [Next]_vars
    PROVE  \A p \in Executions : pc'[p] = "reserve" => estimate'[p] > 0
<1>1. /\ pc \in [Executions -> Labels] /\ estimate \in [Executions -> Nat]
      /\ \A p \in Executions : pc[p] = "reserve" => estimate[p] > 0
  BY DEF RInv, IInv, LocalsOK, BudgetOK
<1>2. ASSUME NEW p \in Executions, Estimate(p)
      PROVE  \A q \in Executions : pc'[q] = "reserve" => estimate'[q] > 0
  <2>1. CASE \E n \in Quotes \ {0} :
               estimate' = [estimate EXCEPT ![p] = n] /\ Goto(p, "reserve")
    BY <1>1, <2>1, Parameters DEF Goto
  <2>2. CASE Goto(p, "unlock") /\ UNCHANGED estimate
    BY <1>1, <2>2 DEF Goto
  <2> QED BY <1>2, <2>1, <2>2 DEF Estimate
<1>3. ASSUME NEW p \in Executions,
             \/ Acquire(p) \/ ExecuteUnlocked(p) \/ Reserve(p) \/ Operate(p) \/ Charge(p)
             \/ Release(p) \/ Unlock(p) \/ HandOver(p) \/ StoreFails(p)
      PROVE  \A q \in Executions : pc'[q] = "reserve" => estimate'[q] > 0
  <2>1. /\ \E l \in Labels \ {"reserve"} : pc' = [pc EXCEPT ![p] = l]
        /\ estimate' = estimate \/ estimate' = [estimate EXCEPT ![p] = 0]
    BY <1>3 DEF Acquire, ExecuteUnlocked, Reserve, Operate, Charge, Release, Unlock, HandOver,
                StoreFails, Goto, Labels, AfterThrow, locals
  <2> QED BY <1>1, <2>1
<1>4. CASE Crash
  BY <1>4 DEF Crash
<1>5. ASSUME UNCHANGED <<pc, estimate>>
      PROVE  \A q \in Executions : pc'[q] = "reserve" => estimate'[q] > 0
  BY <1>1, <1>5
<1>6. ASSUME \/ UNCHANGED vars \/ CreateBudget \/ \E i \in 1..MaxEntries : PollSettles(i)
             \/ \E a \in Admins : LoadForAdministration(a) \/ UpdateLimit(a)
      PROVE  UNCHANGED <<pc, estimate>>
  BY <1>6 DEF vars, locals, CreateBudget, PollSettles, LoadForAdministration, UpdateLimit
<1>7. ASSUME NEW p \in Executions,
             Acquire(p) \/ ExecuteUnlocked(p) \/ Step(p) \/ HandOver(p) \/ StoreFails(p)
      PROVE  \A q \in Executions : pc'[q] = "reserve" => estimate'[q] > 0
  BY <1>2, <1>3, <1>7 DEF Step
<1> QED BY <1>4, <1>5, <1>6, <1>7 DEF Next

\* Every step of the ledger is one of its contract, or no step of it.
LEMMA StepRefines ==
    ASSUME RInv, IInv', [Next]_vars
    PROVE  RInv' /\ [Contract!Next]_(Contract!vars)
<1>1. CASE entries' = entries /\ configured' = configured /\ limit' = limit
  <2>1. /\ OfKind("charge")' = OfKind("charge") /\ Active' = Active
        /\ OfKind("reservation")' = OfKind("reservation")
    BY <1>1 DEF OfKind, Active, Settlements
  <2>2. Spent' = Spent /\ Reserved' = Reserved
    BY <1>1, <2>1, BalanceNext, BalanceIs DEF RInv
  <2>3. BudgetOK'
    BY <1>1, <2>1, Priced DEF RInv, BudgetOK
  <2> QED BY <1>1, <2>2, <2>3 DEF RInv, Contract!vars
<1>2. CASE MovesLimit
  <2>1. /\ OfKind("charge")' = OfKind("charge") /\ Active' = Active
        /\ OfKind("reservation")' = OfKind("reservation")
        /\ entries' = entries /\ limit' \in Nat /\ configured'
    BY <1>2, Parameters DEF OfKind, Active, Settlements, MovesLimit
  <2>2. Spent' = Spent /\ Reserved' = Reserved
    BY <2>1, BalanceNext, BalanceIs DEF RInv
  <2>3. BudgetOK'
    BY <2>1, Priced DEF RInv, BudgetOK
  <2>4. Spent + Reserved <= limit'
    <3>1. CASE configured
      BY <1>2, <3>1 DEF MovesLimit
    <3>2. CASE ~ configured
      <4>1. entries = <<>>
        BY <3>2 DEF RInv, BudgetOK
      <4>2. OfKind("charge") = {} /\ Active = {}
        BY <4>1 DEF OfKind, Active
      <4>3. Spent = 0 /\ Reserved = 0
        BY <4>2, BalanceIs, SumsAddUp DEF RInv
      <4> QED BY <2>1, <4>3
    <3> QED BY <3>1, <3>2
  <2>5. Contract!SetLimit
    BY <2>1, <2>2, <2>4 DEF Contract!SetLimit
  <2> QED BY <2>3, <2>5 DEF RInv, Contract!Next
<1>3. ASSUME NEW p \in Executions, Reserves(p)
      PROVE  RInv' /\ [Contract!Next]_(Contract!vars)
  <2>1. BudgetOK'
    BY <1>3, ReservingMoves, Priced DEF BudgetOK
  <2> QED BY <1>3, <2>1, ReservingMoves DEF RInv, Contract!Next
<1>4. ASSUME NEW i \in Active, NEW kind \in {"charge", "release"}, NEW n \in Nat,
             Ends(i, kind, n), kind = "release" => n = 0
      PROVE  RInv' /\ [Contract!Next]_(Contract!vars)
  <2>1. BudgetOK'
    BY <1>4, EndingMoves, Priced DEF BudgetOK
  <2> QED BY <1>4, <2>1, EndingMoves DEF RInv, Contract!Next
<1> QED BY <1>1, <1>2, <1>3, <1>4, LedgerSteps DEF RInv, Ends

LEMMA InitRInv == Init => RInv /\ Contract!Init
<1> SUFFICES ASSUME Init PROVE RInv /\ Contract!Init
  OBVIOUS
<1>1. IInv
  BY InitIInv
<1>2. entries = <<>> /\ limit = 0 /\ \A p \in Executions : pc[p] = "idle"
  BY DEF Init
<1>3. OfKind("reservation") = {} /\ OfKind("charge") = {} /\ Active = {}
  BY <1>2 DEF OfKind, Active
<1>4. Spent = 0 /\ Reserved = 0
  BY <1>1, <1>3, BalanceIs, SumsAddUp
<1>5. BudgetOK
  BY <1>2, <1>3 DEF BudgetOK
<1> QED BY <1>1, <1>2, <1>4, <1>5 DEF RInv, Contract!Init

\* The ledger, whoever appends to it and whoever moves its limit, is an account
\* budget: reserve, charge, release, polls and limit changes are steps of the
\* contract, and everything else is none.
THEOREM LedgerRefinement == Spec => ImplementsBudget
<1>1. IInv /\ RInv /\ IInv' /\ [Next]_vars => RInv' /\ [Contract!Next]_(Contract!vars)
  BY StepRefines
<1>2. Spec => []IInv
  BY InitIInv, NextIInv, PTL DEF Spec
<1>3. Spec => []RInv
  BY <1>1, <1>2, InitRInv, PTL DEF Spec
<1> QED BY <1>1, <1>2, <1>3, InitRInv, PTL DEF Spec, ImplementsBudget, Contract!Spec

-----------------------------------------------------------------------------
(* What the contract guarantees to who implements it *)

LEMMA ContractIsSafe == Contract!Spec => [](Contract!TypeOK /\ Contract!NeverOvercommitted)
<1> DEFINE Inv == Contract!TypeOK /\ Contract!NeverOvercommitted
<1>1. Contract!Init => Inv
  BY DEF Contract!Init, Contract!TypeOK, Contract!NeverOvercommitted
<1>2. Inv /\ [Contract!Next]_(Contract!vars) => Inv'
  <2> SUFFICES ASSUME Inv, [Contract!Next]_(Contract!vars) PROVE Inv'
    OBVIOUS
  <2> USE DEF Contract!TypeOK, Contract!NeverOvercommitted
  <2>1. CASE Contract!Reserve
    BY <2>1 DEF Contract!Reserve
  <2>2. CASE Contract!Settle
    BY <2>2 DEF Contract!Settle
  <2>3. CASE Contract!SetLimit
    BY <2>3 DEF Contract!SetLimit
  <2>4. CASE UNCHANGED Contract!vars
    BY <2>4 DEF Contract!vars
  <2> QED BY <2>1, <2>2, <2>3, <2>4 DEF Contract!Next
<1> QED BY <1>1, <1>2, PTL DEF Contract!Spec

\* An account is never committed beyond its limit: not by reservations made
\* without the lock, nor by the limits administrators set meanwhile.
THEOREM LedgerNeverOvercommitted == Spec => []Contract!NeverOvercommitted
  BY LedgerRefinement, ContractIsSafe, PTL DEF ImplementsBudget

\* What was charged stays charged: releases and limit changes never lower the
\* amount an account has spent.
THEOREM SpendingIsFinal == Spec => Contract!SpentOnlyGrows
<1>1. Contract!TypeOK /\ [Contract!Next]_(Contract!vars) => [Spent <= Spent']_(Contract!vars)
  BY DEF Contract!TypeOK, Contract!Next, Contract!Reserve, Contract!Settle,
         Contract!SetLimit, Contract!vars
<1>2. Contract!Spec => []Contract!TypeOK
  BY ContractIsSafe, PTL
<1>3. Contract!Spec => Contract!SpentOnlyGrows
  BY <1>1, <1>2, PTL DEF Contract!Spec, Contract!SpentOnlyGrows
<1> QED BY <1>3, LedgerRefinement, PTL DEF ImplementsBudget
=============================================================================

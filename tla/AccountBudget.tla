---------------------------- MODULE AccountBudget ----------------------------
(***************************************************************************)
(* One account's budget ledger with everybody who writes it: the high-cost *)
(* operations the account executes (HighCostOperationRuntime.execute over  *)
(* AccountBudgetRuntime.execute), the video generations that reserve and   *)
(* leave the settlement to later polls, and the administrators who create  *)
(* the budget and move its limit.                                          *)
(*                                                                         *)
(* The ledger is an append-only sequence of entries.  Nothing stores what  *)
(* is spent or reserved: every operation replays the entries.  A store     *)
(* transaction is one step; between two steps of an execution anybody else *)
(* may run.                                                                *)
(***************************************************************************)
EXTENDS Integers, Sequences, FiniteSets, FiniteSetsExt

CONSTANTS
    Executions,   \* calls of execute() that may be in flight together
    Admins,       \* administrators editing the budget
    Quotes,       \* amounts the pricing provider answers
    Limits,       \* limits administrators enter
    None,
    MaxEntries,   \* bound: entries of the ledger
    MaxUpdates,   \* bound: changes of the limit
    MaxCrashes,   \* bound: crashes of the server
    MaxFaults,    \* bound: failing store calls
    MaxOverruns   \* bound: operations that cost more than their estimate

ASSUME Parameters ==
    /\ None \notin Executions /\ IsFiniteSet(Executions)
    /\ Quotes \subseteq Nat /\ Limits \subseteq Nat
    /\ {MaxEntries, MaxUpdates, MaxCrashes, MaxFaults, MaxOverruns} \subseteq Nat

VARIABLES
    configured,   \* whether the account has a budget
    limit,        \* limitAmountMinor
    revision,     \* budget.revision
    entries,      \* budget.entries
    runLock,      \* execution holding the account's run lock, or None
    pc,           \* label of an execution
    estimate,     \* execution -> quoted amount
    reservation,  \* execution -> its reservation entry, 0 when none
    actual,       \* execution -> what the operation cost
    handedOver,   \* reservations whose settlement is left to polls
    seen,         \* administrator -> the budget on the screen
    crashes, faults, overruns

ledger == <<configured, limit, revision, entries>>
locals == <<estimate, reservation, actual>>
bounds == <<crashes, faults, overruns>>
vars == <<ledger, runLock, pc, locals, handedOver, seen, bounds>>

\* A reservation is identified by its position; charges and releases name it.
Entry == [kind: {"reservation", "charge", "release"}, of: 0..MaxEntries,
          amount: Nat]

Labels == {"idle", "estimate", "reserve", "operate", "charge", "release",
           "unlock"}

NoScreen == [revision |-> 0, limit |-> 0, length |-> 0]
-----------------------------------------------------------------------------
(* Replaying a ledger.                                                     *)

OfKind(kind) == {i \in DOMAIN entries : entries[i].kind = kind}
Settlements(i) == {j \in DOMAIN entries : entries[j].of = i}

\* activeReservations: reserved and neither charged nor released since.
Active == {i \in OfKind("reservation") : Settlements(i) = {}}

\* The errors activeReservations throws on a persisted ledger: a settlement of
\* something that is not active at that point, a charge over its reservation.
Replayable ==
    \A j \in DOMAIN entries : entries[j].kind # "reservation" =>
        LET i == entries[j].of
        IN  /\ i \in OfKind("reservation") /\ i < j
            /\ Settlements(i) = {j}
            /\ entries[j].amount <= entries[i].amount

\* calculateAccountBudgetBalance.
Total(S) == MapThenSumSet(LAMBDA i : entries[i].amount, S)
Spent == Total(OfKind("charge"))
ReservedEver == Total(OfKind("reservation"))
Reserved == Total(Active)
Available == limit - Spent - Reserved
-----------------------------------------------------------------------------
Init ==
    /\ configured = FALSE /\ limit = 0 /\ revision = 0 /\ entries = <<>>
    /\ runLock = None
    /\ pc = [p \in Executions |-> "idle"]
    /\ estimate = [p \in Executions |-> 0]
    /\ reservation = [p \in Executions |-> 0]
    /\ actual = [p \in Executions |-> 0]
    /\ handedOver = {}
    /\ seen = [m \in Admins |-> NoScreen]
    /\ crashes = 0 /\ faults = 0 /\ overruns = 0

Goto(p, label) == pc' = [pc EXCEPT ![p] = label]

\* Every change of the budget is one new revision of it.
AppendEntry(entry) ==
    /\ entries' = Append(entries, entry)
    /\ revision' = revision + 1
    /\ UNCHANGED <<configured, limit>>

\* findActiveReservation succeeds for a reservation that is not settled yet.
EverReserved(i) == Replayable /\ i \in OfKind("reservation")
CanSettle(i) == Replayable /\ i \in Active

\* The position of the entry appended next.
NextEntry == Len(entries) + 1

\* What execute() does when its operation throws.
AfterThrow == "release"

\* reserveAccountBudget: covered by what is neither spent nor reserved.
CoveredByUnspent(amount) == amount <= limit - Spent
Covered(amount) == Replayable /\ amount <= Available
-----------------------------------------------------------------------------
(* HighCostOperationRuntime.execute: lock, run the budgeted operation,     *)
(* unlock in finally.                                                      *)

\* A bound: every execution in flight has room for its two entries, and every
\* reservation handed over for its settlement.
RoomForOneMore ==
    Len(entries) + 2 * Cardinality({p \in Executions : pc[p] # "idle"}) + 2
        + Cardinality(handedOver \cap Active) <= MaxEntries

Acquire(p) ==
    /\ pc[p] = "idle" /\ RoomForOneMore
    /\ runLock = None /\ runLock' = p
    /\ Goto(p, "estimate")
    /\ UNCHANGED <<ledger, locals, handedOver, seen, bounds>>

\* AccountBudgetRuntime.execute, or the video runtime's reserveForOperation,
\* without this runtime's lock.
ExecuteUnlocked(p) ==
    /\ pc[p] = "idle" /\ RoomForOneMore
    /\ Goto(p, "estimate")
    /\ UNCHANGED <<ledger, runLock, locals, handedOver, seen, bounds>>

\* The server prices the operation; an invalid price (zero, expired) throws.
Estimate(p) ==
    /\ pc[p] = "estimate"
    /\ \/ \E n \in Quotes \ {0} :
            estimate' = [estimate EXCEPT ![p] = n] /\ Goto(p, "reserve")
       \/ Goto(p, "unlock") /\ UNCHANGED estimate
    /\ UNCHANGED <<ledger, runLock, reservation, actual, handedOver, seen,
                   bounds>>

\* An estimate may have expired since it was made.
Reserve(p) ==
    /\ pc[p] = "reserve"
    /\ \E expired \in BOOLEAN :
        IF configured /\ ~expired /\ Covered(estimate[p])
        THEN /\ AppendEntry([kind |-> "reservation", of |-> 0,
                             amount |-> estimate[p]])
             /\ reservation' = [reservation EXCEPT ![p] = NextEntry]
             /\ Goto(p, "operate")
        ELSE Goto(p, "unlock") /\ UNCHANGED <<ledger, reservation>>
    /\ UNCHANGED <<runLock, estimate, actual, handedOver, seen, bounds>>

\* The operation reports its cost, or throws and is released.
Operate(p) ==
    /\ pc[p] = "operate"
    /\ \/ \E cost \in 0..(estimate[p] + 1) :
            /\ actual' = [actual EXCEPT ![p] = cost]
            /\ overruns' = overruns + (IF cost > estimate[p] THEN 1 ELSE 0)
            /\ overruns' <= MaxOverruns
            /\ Goto(p, "charge")
       \/ Goto(p, AfterThrow) /\ UNCHANGED <<actual, overruns>>
    /\ UNCHANGED <<ledger, runLock, estimate, reservation, handedOver, seen,
                   crashes, faults>>

\* chargeAccountBudgetReservation refuses more than was reserved; execute()
\* then rethrows and does not release.
Charge(p) ==
    /\ pc[p] = "charge"
    /\ LET i == reservation[p]
       IN  IF CanSettle(i) /\ actual[p] <= entries[i].amount
           THEN AppendEntry([kind |-> "charge", of |-> i, amount |-> actual[p]])
           ELSE UNCHANGED ledger
    /\ Goto(p, "unlock")
    /\ UNCHANGED <<runLock, locals, handedOver, seen, bounds>>

Release(p) ==
    /\ pc[p] = "release"
    /\ IF CanSettle(reservation[p])
       THEN AppendEntry([kind |-> "release", of |-> reservation[p], amount |-> 0])
       ELSE UNCHANGED ledger
    /\ Goto(p, "unlock")
    /\ UNCHANGED <<runLock, locals, handedOver, seen, bounds>>

Unlock(p) ==
    /\ pc[p] = "unlock"
    /\ runLock' = IF runLock = p THEN None ELSE runLock
    /\ Goto(p, "idle")
    /\ estimate' = [estimate EXCEPT ![p] = 0]
    /\ reservation' = [reservation EXCEPT ![p] = 0]
    /\ actual' = [actual EXCEPT ![p] = 0]
    /\ UNCHANGED <<ledger, handedOver, seen, bounds>>

\* start() of the video runtime returns while its job is running.
HandOver(p) ==
    /\ pc[p] = "operate" /\ runLock # p
    /\ handedOver' = handedOver \cup {reservation[p]}
    /\ Goto(p, "idle")
    /\ estimate' = [estimate EXCEPT ![p] = 0]
    /\ reservation' = [reservation EXCEPT ![p] = 0]
    /\ UNCHANGED <<ledger, runLock, actual, seen, bounds>>

\* A poll that found the job finished charges the estimate or releases; polls
\* may race and repeat.
PollSettles(i) ==
    /\ i \in handedOver /\ CanSettle(i) /\ Len(entries) < MaxEntries
    /\ \/ AppendEntry([kind |-> "charge", of |-> i, amount |-> entries[i].amount])
       \/ AppendEntry([kind |-> "release", of |-> i, amount |-> 0])
    /\ UNCHANGED <<runLock, pc, locals, handedOver, seen, bounds>>

\* A store call fails without effect: the finally block still unlocks, unless
\* it is the unlocking that fails.
StoreFails(p) ==
    /\ pc[p] \in {"reserve", "charge", "release", "unlock"}
    /\ faults < MaxFaults /\ faults' = faults + 1
    /\ Goto(p, IF pc[p] = "unlock" THEN "idle" ELSE "unlock")
    /\ UNCHANGED <<ledger, runLock, locals, handedOver, seen, crashes,
                   overruns>>

\* The server process dies with every execution; ledger and lock stay.
Crash ==
    /\ crashes < MaxCrashes /\ crashes' = crashes + 1
    /\ pc' = [p \in Executions |-> "idle"]
    /\ estimate' = [p \in Executions |-> 0]
    /\ reservation' = [p \in Executions |-> 0]
    /\ actual' = [p \in Executions |-> 0]
    /\ UNCHANGED <<ledger, runLock, handedOver, seen, faults, overruns>>
-----------------------------------------------------------------------------
(* Administration.                                                         *)

CreateBudget ==
    /\ ~configured
    /\ configured' = TRUE /\ revision' = 1 /\ limit' \in Limits
    /\ UNCHANGED <<entries, runLock, pc, locals, handedOver, seen, bounds>>

LoadForAdministration(m) ==
    /\ configured
    /\ seen' = [seen EXCEPT ![m] = [revision |-> revision, limit |-> limit,
                                    length |-> Len(entries)]]
    /\ UNCHANGED <<ledger, runLock, pc, locals, handedOver, bounds>>

\* The change names the revision that was on the administrator's screen.
UpdateLimit(m) ==
    /\ configured /\ seen[m].revision = revision /\ Replayable
    /\ revision - 1 - Len(entries) < MaxUpdates
    /\ limit' \in Limits
    /\ limit' >= Spent + Reserved
    /\ revision' = revision + 1
    /\ UNCHANGED <<configured, entries, runLock, pc, locals, handedOver,
                   seen, bounds>>
-----------------------------------------------------------------------------
Step(p) == Estimate(p) \/ Reserve(p) \/ Operate(p) \/ Charge(p) \/ Release(p)
             \/ Unlock(p)

Next ==
    \/ \E p \in Executions :
          \/ Acquire(p) \/ ExecuteUnlocked(p) \/ Step(p) \/ HandOver(p)
          \/ StoreFails(p)
    \/ \E i \in 1..MaxEntries : PollSettles(i)
    \/ Crash
    \/ CreateBudget
    \/ \E m \in Admins : LoadForAdministration(m) \/ UpdateLimit(m)

Spec == Init /\ [][Next]_vars
-----------------------------------------------------------------------------
TypeOK ==
    /\ configured \in BOOLEAN /\ limit \in Nat /\ revision \in Nat
    /\ entries \in Seq(Entry) /\ Len(entries) <= MaxEntries
    /\ runLock \in Executions \cup {None}
    /\ pc \in [Executions -> Labels]
    /\ estimate \in [Executions -> Nat]
    /\ reservation \in [Executions -> 0..MaxEntries]
    /\ actual \in [Executions -> Nat]
    /\ handedOver \subseteq OfKind("reservation")
    /\ seen \in [Admins -> [revision: Nat, limit: Nat, length: Nat]]
    /\ bounds \in Nat \X Nat \X Nat

\* A reservation is active only while the execution that made it runs, or polls
\* are to settle it, as long as no crash, fault or overrun ends an execution
\* early: whatever the others write, everybody settles his own reservation.
ActiveIsExpected ==
    bounds = <<0, 0, 0>> =>
        \A i \in Active \ handedOver : \E p \in Executions :
            reservation[p] = i /\ pc[p] \in {"operate", "charge", "release"}

\* Whatever is appended by whom, the ledger can be replayed: one that cannot
\* would make every later operation of the account throw.  Nobody's
\* reservation is forgotten in it.  (And every variable has a value of its
\* kind.)
LedgerReplays == TypeOK /\ Replayable /\ ActiveIsExpected

\* The replayed ledger is an account budget.
Contract == INSTANCE BudgetContract
    WITH limit <- limit, spent <- Spent, reserved <- Reserved
ImplementsBudget == Contract!Spec
=============================================================================

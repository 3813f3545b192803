------------------------ MODULE TaskWorkflowProofs -------------------------
(***************************************************************************)
(* What a human confirmed is what the page showed, a simulated content was *)
(* generated on the basis its version names, what is valid rests on what   *)
(* is selected, and the task is where its selected versions say it is:     *)
(* proofs about TaskWorkflow for any accounts, commands and bounds.        *)
(***************************************************************************)
EXTENDS TaskWorkflow, FiniteSetTheorems, WellFoundedInduction, TLAPS

(* Version numbers *)

Less == OpToRel(<, Nat)

\* A set of numbers with a bound has a greatest.
LEMMA GreatestExists ==
    ASSUME NEW S \in SUBSET Nat, S # {},
           NEW bound \in Nat, \A x \in S : x <= bound
    PROVE  \E m \in S : \A x \in S : x <= m
<1> DEFINE U == {u \in Nat : \A x \in S : x <= u}
<1>1. U \subseteq Nat /\ U # {}
  OBVIOUS
<1>2. PICK m \in U : \A u \in U : ~ (<<u, m>> \in Less)
  BY <1>1, NatLessThanWellFounded, WFMin DEF Less
<1>3. \A u \in U : ~ (u < m)
  BY <1>1, <1>2 DEF Less, OpToRel
<1>4. CASE m \in S
  BY <1>4
<1>5. CASE m \notin S
  <2>1. \A x \in S : x <= m - 1
    BY <1>5
  <2>2. m - 1 \in Nat
    <3>1. PICK x \in S : TRUE
      OBVIOUS
    <3>2. x \in Nat /\ x <= m - 1
      BY <2>1
    <3> QED BY <3>2
  <2>3. m - 1 \in U
    BY <2>1, <2>2
  <2> QED BY <1>3, <2>3
<1> QED BY <1>4, <1>5

\* and a set of numbers has a smallest.
LEMMA SmallestExists ==
    ASSUME NEW S \in SUBSET Nat, S # {}
    PROVE  Min(S) \in S
<1>1. PICK m \in S : \A x \in S : ~ (<<x, m>> \in Less)
  BY NatLessThanWellFounded, WFMin DEF Less
<1>2. \A x \in S : ~ (x < m)
  BY <1>1 DEF Less, OpToRel
<1>3. \A x \in S : m <= x
  BY <1>2
<1> QED BY <1>3 DEF Min

-----------------------------------------------------------------------------
(* The inductive invariant *)

NumbersOK ==
    /\ revision \in Nat /\ stage \in Stages
    /\ active \in [Stages -> Nat]
    /\ generated \in [Simulated -> Nat]

\* No version is numbered, or was made, beyond the revision of the task.
VersionsOK ==
    \A a \in artifacts :
        /\ a.stage \in Stages
        /\ a.version \in Nat /\ a.version <= revision
        /\ a.at \in Nat /\ a.at <= revision

\* What a version rests on exists.
BasisOK ==
    \A a \in artifacts :
        a.on # NoUpstream => \E b \in artifacts : Id(b) = a.on

\* What is selected exists.
SelectionOK ==
    \A s \in Stages :
        active[s] # 0 => \E b \in artifacts : Id(b) = <<s, active[s]>>

\* What awaits its confirmation was generated after every confirmation.
AwaitedIsNew ==
    stage \in Simulated /\ status = "awaiting_confirmation" =>
        \A b \in artifacts : b.at < generated[stage]

\* A command about the present revision shows the present content, but for
\* the pool, which changes without the task.
Shown(c) ==
    /\ c.stage \in Stages
    /\ c.expected \in Nat /\ c.expected <= revision
    /\ c.expected = revision /\ c.stage # AssetMatching =>
          c.seen = Derived(c.stage)
LateOK == late # NoCommand => Shown(late)

WorkflowInv ==
    /\ NumbersOK /\ VersionsOK /\ BasisOK /\ SelectionOK /\ AwaitedIsNew /\ LateOK
    /\ ConfirmedAsSeen /\ ContentIsFresh

\* What an account can send shows the present content.
LEMMA OfferedShown ==
    ASSUME WorkflowInv, NEW u, NEW c \in Offered(u)
    PROVE  Shown(c)
<1> USE DEF WorkflowInv, NumbersOK
<1>1. \E by, action, s, target :
        s \in Stages /\ c = Command(by, action, s, target)
  BY DEF Offered
<1>2. PICK by, action, s, target :
        s \in Stages /\ c = Command(by, action, s, target)
  BY <1>1
<1>3. c.stage = s /\ c.expected = revision /\ c.seen = Derived(s)
  BY <1>2 DEF Command
<1> QED BY <1>2, <1>3 DEF Shown

\* The number of a new version is new, and the next revision suffices for it.
LEMMA NextVersionIsNew ==
    ASSUME WorkflowInv, NEW s \in Stages
    PROVE  /\ NextVersion(s) \in Nat /\ NextVersion(s) # 0
           /\ NextVersion(s) <= revision + 1
           /\ NextVersion(s) \notin Versions(s)
<1> USE DEF WorkflowInv, NumbersOK
<1> DEFINE S == {0} \union Versions(s)
<1>1. S \in SUBSET Nat /\ \A x \in S : x <= revision
  BY DEF VersionsOK, Versions
<1>2. \E m \in S : \A x \in S : x <= m
  BY <1>1, GreatestExists
<1>3. Max(S) \in S /\ \A x \in S : Max(S) >= x
  BY <1>1, <1>2 DEF Max
<1> QED BY <1>1, <1>3 DEF NextVersion

\* After a stage is done the task is at a stage, and awaits nothing.
LEMMA AfterTypes ==
    ASSUME NEW s \in Stages
    PROVE  /\ After(s)[1] \in Stages
           /\ After(s)[2] # "awaiting_confirmation"
  BY DEF After, Stages, Strategy, Delivery

\* So it is after a rollback.
LEMMA ResumedTypes ==
    ASSUME NEW selection, NEW s \in Stages, NEW gone
    PROVE  /\ Resumed(selection, s, gone)[1] \in Stages
           /\ Resumed(selection, s, gone)[2] # "awaiting_confirmation"
<1> DEFINE unfinished == {t \in Stages : ~ InPlace(selection, t)}
<1>1. unfinished \in SUBSET Nat
  BY DEF Stages, Strategy, Delivery
<1>2. unfinished # {} => Min(unfinished) \in Stages
  BY <1>1, SmallestExists
<1>3. Delivery \in Stages
  BY DEF Stages, Strategy, Delivery
<1> HIDE DEF unfinished
<1>4. Resumed(selection, s, gone) =
        IF gone = {} THEN After(s)
        ELSE IF unfinished = {} THEN After(Delivery)
        ELSE <<Min(unfinished), "in_progress">>
  BY DEF Resumed, unfinished
<1> QED BY <1>2, <1>3, <1>4, AfterTypes

-----------------------------------------------------------------------------
(* Operations *)

\* A step that confirms nothing and selects nothing new keeps the versions
\* what they are.
LEMMA NothingConfirmed ==
    ASSUME WorkflowInv, artifacts' = artifacts, revision' \in {revision, revision + 1},
           active' \in [Stages -> Nat],
           \A s \in Stages : active'[s] # 0 =>
              \E b \in artifacts : Id(b) = <<s, active'[s]>>
    PROVE  /\ VersionsOK' /\ BasisOK' /\ SelectionOK'
           /\ ConfirmedAsSeen' /\ ContentIsFresh'
<1> USE DEF WorkflowInv, NumbersOK
<1>1. VersionsOK'
  BY DEF VersionsOK
<1>2. BasisOK' /\ SelectionOK'
  BY DEF BasisOK, SelectionOK, Id
<1>3. ConfirmedAsSeen' /\ ContentIsFresh'
  BY DEF ConfirmedAsSeen, ContentIsFresh, Id
<1> QED BY <1>1, <1>2, <1>3

\* The operations that change neither stages nor contents, or the contents of
\* the first two stages.
Early(c) ==
    \/ GenerateStrategy(c) \/ RequestApproval(c) \/ GenerateScript(c)
    \/ TakeOver(c) \/ AssignOwner(c)

\* An operation takes the next revision.
LEMMA HandleAdvances ==
    ASSUME NEW c, Handle(c)
    PROVE  revision' = revision + 1
  BY DEF Handle, GenerateStrategy, RequestApproval, GenerateScript,
         GenerateSimulated, ConfirmStage, RollbackStage, ReopenAssetMatching,
         TakeOver, AssignOwner, Advance

\* Confirmation: a version is added, on the selected version of the stage
\* before it, with the content that was shown.
LEMMA ConfirmKeeps ==
    ASSUME WorkflowInv, NEW c, Shown(c), ConfirmStage(c)
    PROVE  /\ NumbersOK' /\ VersionsOK' /\ BasisOK' /\ SelectionOK'
           /\ AwaitedIsNew' /\ ConfirmedAsSeen' /\ ContentIsFresh'
<1> USE DEF WorkflowInv, NumbersOK
<1> DEFINE n == Confirmed(c)
           v == NextVersion(stage)
<1>1. /\ artifacts' = artifacts \union {n} /\ revision' = revision + 1
      /\ active' = [active EXCEPT ![stage] = v]
      /\ generated' = generated
      /\ stage' = After(stage)[1] /\ status' = After(stage)[2]
      /\ c.stage = stage /\ c.expected = revision
  BY DEF ConfirmStage, Advance, MoveTo, OwnerOf, Current, contents
<1>2. /\ v \in Nat /\ v # 0 /\ v <= revision + 1 /\ v \notin Versions(stage)
  BY NextVersionIsNew
<1>3. /\ n.stage = stage /\ n.version = v /\ n.at = revision + 1
      /\ n.content = Derived(stage) /\ n.seen = c.seen
      /\ n.on = IF stage = Strategy THEN NoUpstream
                ELSE <<stage - 1, active[stage - 1]>>
  BY DEF Confirmed
<1>4. Id(n) = <<stage, v>>
  BY <1>3 DEF Id
<1> HIDE DEF n, v
<1>5. NumbersOK'
  BY <1>1, <1>2, AfterTypes
<1>6. VersionsOK'
  BY <1>1, <1>2, <1>3 DEF VersionsOK
<1>7. n.on # NoUpstream => \E b \in artifacts : Id(b) = n.on
  <2> SUFFICES ASSUME stage # Strategy
               PROVE  \E b \in artifacts : Id(b) = <<stage - 1, active[stage - 1]>>
    BY <1>3
  <2>1. stage - 1 \in Stages
    BY DEF Stages, Strategy, Delivery
  <2>2. active[stage - 1] # 0
    BY DEF ConfirmStage, ValidSelected
  <2> QED BY <2>1, <2>2 DEF SelectionOK
<1>8. BasisOK'
  BY <1>1, <1>7 DEF BasisOK, Id
<1>9. SelectionOK'
  BY <1>1, <1>2, <1>4 DEF SelectionOK, Id
<1>10. AwaitedIsNew'
  BY <1>1, AfterTypes DEF AwaitedIsNew
<1>11. c.seen = Derived(stage)
  <2>1. stage = AssetMatching => c.seen = Derived(stage)
    BY <1>1 DEF ConfirmStage, Confirmable, Derived, AssetMatching, Strategy, Script
  <2> QED BY <1>1, <2>1 DEF Shown
<1>12. ConfirmedAsSeen'
  BY <1>1, <1>3, <1>11 DEF ConfirmedAsSeen
<1>13. \A a \in artifacts : a.on # Id(n)
  <2> SUFFICES ASSUME NEW a \in artifacts, a.on = <<stage, v>> PROVE FALSE
    BY <1>4
  <2>1. a.on # NoUpstream
    BY DEF NoUpstream, Stages, Strategy, Delivery
  <2>2. PICK b \in artifacts : Id(b) = <<stage, v>>
    BY <2>1 DEF BasisOK
  <2>3. b.stage = stage /\ b.version = v
    BY <2>2 DEF Id
  <2> QED BY <1>2, <2>3 DEF Versions
<1>14. n.on # Id(n)
  BY <1>3, <1>4 DEF NoUpstream, Stages, Strategy, Delivery
<1>15. ASSUME stage \in Simulated, NEW b \in artifacts PROVE n.content > b.at
  <2>1. status = "awaiting_confirmation"
    BY <1>1, <1>15 DEF ConfirmStage, Confirmable, Simulated, Storyboard, AssetMatching, Delivery
  <2>2. Derived(stage) = generated[stage]
    BY <1>15 DEF Derived, Simulated, Storyboard, Delivery, Strategy, Script, AssetMatching
  <2>3. b.at < generated[stage] /\ generated[stage] \in Nat /\ b.at \in Nat
    BY <1>15, <2>1 DEF AwaitedIsNew, VersionsOK
  <2> QED BY <1>3, <2>2, <2>3
<1>16. ContentIsFresh'
  <2> SUFFICES ASSUME NEW a \in artifacts', NEW b \in artifacts',
                      a.stage \in Simulated, a.on = Id(b)
               PROVE  a.content > b.at
    BY DEF ContentIsFresh, Id
  <2>1. CASE a \in artifacts
    BY <1>1, <1>13, <2>1 DEF ContentIsFresh
  <2>2. CASE a = n
    BY <1>1, <1>3, <1>14, <1>15, <2>2
  <2> QED BY <1>1, <2>1, <2>2
<1> QED BY <1>5, <1>6, <1>8, <1>9, <1>10, <1>12, <1>16

\* A rollback selects a version that exists, and selects nothing else anew.
LEMMA RollbackKeeps ==
    ASSUME WorkflowInv, NEW c, Shown(c), RollbackStage(c)
    PROVE  /\ NumbersOK' /\ VersionsOK' /\ BasisOK' /\ SelectionOK'
           /\ AwaitedIsNew' /\ ConfirmedAsSeen' /\ ContentIsFresh'
<1> USE DEF WorkflowInv, NumbersOK
<1> DEFINE gone == Downstream(<<c.stage, active[c.stage]>>)
           picked == [active EXCEPT ![c.stage] = c.target]
           state == Resumed(Deselect(picked, gone), c.stage, gone)
<1>1. /\ artifacts' = artifacts /\ generated' = generated
      /\ active' = Deselect(picked, gone)
      /\ c.target \in Versions(c.stage)
      /\ stage' = state[1] /\ status' = state[2]
      /\ revision' = revision + 1
  BY DEF RollbackStage, Advance, MoveTo, contents
<1>2. c.stage \in Stages
  BY DEF Shown
<1>3. PICK b \in artifacts : Id(b) = <<c.stage, c.target>> /\ c.target \in Nat
  BY <1>1 DEF Versions, Id, VersionsOK
<1>4. picked \in [Stages -> Nat]
        /\ \A s \in Stages : picked[s] # 0 =>
              \E x \in artifacts : Id(x) = <<s, picked[s]>>
  BY <1>2, <1>3 DEF SelectionOK
<1>5. state[1] \in Stages /\ state[2] # "awaiting_confirmation"
  BY <1>2, ResumedTypes
<1> HIDE DEF gone, picked, state
<1>6. active' \in [Stages -> Nat]
        /\ \A s \in Stages : active'[s] # 0 =>
              \E x \in artifacts : Id(x) = <<s, active'[s]>>
  BY <1>1, <1>4 DEF Deselect
<1>7. NumbersOK' /\ AwaitedIsNew'
  BY <1>1, <1>5, <1>6 DEF AwaitedIsNew
<1> QED BY <1>1, <1>6, <1>7, NothingConfirmed

\* A reopening selects nothing anew.
LEMMA ReopenKeeps ==
    ASSUME WorkflowInv, NEW c, ReopenAssetMatching(c)
    PROVE  /\ NumbersOK' /\ VersionsOK' /\ BasisOK' /\ SelectionOK'
           /\ AwaitedIsNew' /\ ConfirmedAsSeen' /\ ContentIsFresh'
<1> USE DEF WorkflowInv, NumbersOK
<1>1. PICK gone :
      /\ artifacts' = artifacts /\ generated' = generated
      /\ active' = Deselect(active, gone)
      /\ stage' = AssetMatching /\ status' = "in_progress"
      /\ revision' = revision + 1
  BY DEF ReopenAssetMatching, Advance, MoveTo, contents
<1>2. active' \in [Stages -> Nat]
        /\ \A s \in Stages : active'[s] # 0 =>
              \E x \in artifacts : Id(x) = <<s, active'[s]>>
  BY <1>1 DEF Deselect, SelectionOK
<1>3. NumbersOK' /\ AwaitedIsNew'
  BY <1>1, <1>2 DEF AwaitedIsNew, Stages, Strategy, Delivery, AssetMatching
<1> QED BY <1>1, <1>2, <1>3, NothingConfirmed

\* A simulated content is generated at the next revision, after every version.
LEMMA SimulateKeeps ==
    ASSUME WorkflowInv, NEW c, GenerateSimulated(c)
    PROVE  /\ NumbersOK' /\ VersionsOK' /\ BasisOK' /\ SelectionOK'
           /\ AwaitedIsNew' /\ ConfirmedAsSeen' /\ ContentIsFresh'
<1> USE DEF WorkflowInv, NumbersOK
<1>1. /\ artifacts' = artifacts /\ active' = active /\ stage' = stage
      /\ stage \in Simulated
      /\ generated' = [generated EXCEPT ![stage] = revision + 1]
      /\ revision' = revision + 1
  BY DEF GenerateSimulated, Receipt, Advance, history
<1>2. NumbersOK'
  BY <1>1
<1>3. AwaitedIsNew'
  BY <1>1 DEF AwaitedIsNew, VersionsOK
<1> QED BY <1>1, <1>2, <1>3, NothingConfirmed DEF SelectionOK

\* The other operations leave versions and simulated contents alone.
LEMMA EarlyKeeps ==
    ASSUME WorkflowInv, NEW c, Early(c)
    PROVE  /\ NumbersOK' /\ VersionsOK' /\ BasisOK' /\ SelectionOK'
           /\ AwaitedIsNew' /\ ConfirmedAsSeen' /\ ContentIsFresh'
<1> USE DEF WorkflowInv, NumbersOK
<1>1. /\ artifacts' = artifacts /\ active' = active /\ generated' = generated
      /\ stage' = stage /\ revision' = revision + 1
      /\ status' = status \/ stage \notin Simulated
  BY DEF Early, GenerateStrategy, RequestApproval, GenerateScript, TakeOver,
         AssignOwner, Advance, history, workflow, contents, Simulated, Strategy,
         Script, Storyboard, Delivery
<1>2. NumbersOK' /\ AwaitedIsNew'
  BY <1>1 DEF AwaitedIsNew
<1> QED BY <1>1, <1>2, NothingConfirmed DEF SelectionOK

\* Every operation on a command that showed what it was about keeps all of it.
LEMMA HandleKeeps ==
    ASSUME WorkflowInv, NEW c, Shown(c), Handle(c), late' \in {late, NoCommand}
    PROVE  WorkflowInv'
<1>1. /\ NumbersOK' /\ VersionsOK' /\ BasisOK' /\ SelectionOK'
      /\ AwaitedIsNew' /\ ConfirmedAsSeen' /\ ContentIsFresh'
  BY ConfirmKeeps, RollbackKeeps, ReopenKeeps, SimulateKeeps, EarlyKeeps
     DEF Handle, Early
<1>2. LateOK'
  BY HandleAdvances DEF LateOK, Shown, WorkflowInv, NumbersOK
<1> QED BY <1>1, <1>2 DEF WorkflowInv

\* Every step keeps the invariant.
LEMMA NextKeeps == WorkflowInv /\ [Next]_vars => WorkflowInv'
<1> SUFFICES ASSUME WorkflowInv, [Next]_vars PROVE WorkflowInv'
  OBVIOUS
<1>1. ASSUME NEW u \in Accounts, NEW c \in Offered(u), Handle(c), UNCHANGED late
      PROVE  WorkflowInv'
  BY <1>1, OfferedShown, HandleKeeps
<1>2. CASE Arrive
  BY <1>2, HandleKeeps DEF Arrive, WorkflowInv, LateOK
<1>3. ASSUME UNCHANGED <<ownership, revision, workflow, history, contents>>,
             late' \in {late, NoCommand} \union Offered(owner)
      PROVE  WorkflowInv'
  <2>1. /\ revision' = revision /\ stage' = stage /\ status' = status
        /\ artifacts' = artifacts /\ active' = active
        /\ draft' = draft /\ script' = script /\ generated' = generated
    BY <1>3 DEF workflow, history, contents
  <2>2. NumbersOK' /\ AwaitedIsNew'
    BY <2>1 DEF WorkflowInv, NumbersOK, AwaitedIsNew
  <2>3. /\ VersionsOK' /\ BasisOK' /\ SelectionOK'
        /\ ConfirmedAsSeen' /\ ContentIsFresh'
    BY <2>1, NothingConfirmed DEF WorkflowInv, NumbersOK, SelectionOK
  <2>4. LateOK'
    <3>1. ASSUME NEW c, Shown(c) PROVE c.stage # AssetMatching =>
                                         Derived(c.stage)' = Derived(c.stage)
      BY <2>1 DEF Derived, Strategy, Script, AssetMatching
    <3>2. ASSUME NEW c, Shown(c), late' = c PROVE Shown(late)'
      BY <2>1, <3>1, <3>2 DEF Shown
    <3>3. late' = NoCommand \/ Shown(late')
      BY <1>3, OfferedShown DEF WorkflowInv, LateOK
    <3> QED BY <3>2, <3>3 DEF LateOK
  <2> QED BY <2>2, <2>3, <2>4 DEF WorkflowInv
<1>4. QED
  BY <1>1, <1>2, <1>3 DEF Next, Prompt, Send, Drop, EditPool, vars

\* It holds of a new task, and of one upgraded from the former stage order.
LEMMA InitWorkflowInv == Init => WorkflowInv
<1> SUFFICES ASSUME Init PROVE WorkflowInv
  OBVIOUS
<1> USE DEF Init, Stages, Simulated, Strategy, Script, AssetMatching, Storyboard,
            Delivery, NoUpstream
<1>1. LateOK
  BY DEF LateOK
<1>2. CASE Created
  <2> USE <1>2 DEF Created
  <2>1. NumbersOK /\ VersionsOK /\ BasisOK /\ SelectionOK /\ AwaitedIsNew
    BY DEF NumbersOK, VersionsOK, BasisOK, SelectionOK, AwaitedIsNew
  <2>2. ConfirmedAsSeen /\ ContentIsFresh
    BY DEF ConfirmedAsSeen, ContentIsFresh
  <2> QED BY <1>1, <2>1, <2>2 DEF WorkflowInv
<1>3. CASE Upgraded
  <2> USE <1>3 DEF Upgraded
  <2> DEFINE A1 == Legacy(Strategy, NoUpstream, 0, 2)
             A2 == Legacy(AssetMatching, <<Strategy, 1>>, 1, 3)
             A3 == Legacy(Script, <<AssetMatching, 1>>, 1, 4)
  <2>1. /\ A1.stage = 1 /\ A1.version = 1 /\ A1.at = 2 /\ A1.on = <<0, 0>>
        /\ A2.stage = 3 /\ A2.version = 1 /\ A2.at = 3 /\ A2.on = <<1, 1>>
        /\ A3.stage = 2 /\ A3.version = 1 /\ A3.at = 4 /\ A3.on = <<3, 1>>
        /\ A1.content = A1.seen /\ A2.content = A2.seen /\ A3.content = A3.seen
    BY DEF Legacy
  <2>2. artifacts = {A1, A2, A3}
    OBVIOUS
  <2> HIDE DEF A1, A2, A3
  <2>3. NumbersOK /\ AwaitedIsNew
    BY DEF NumbersOK, AwaitedIsNew
  <2>4. VersionsOK
    BY <2>1, <2>2 DEF VersionsOK
  <2>5. Id(A1) = <<1, 1>> /\ Id(A2) = <<3, 1>>
    BY <2>1 DEF Id
  <2>6. BasisOK
    BY <2>1, <2>2, <2>5 DEF BasisOK
  <2>7. SelectionOK
    BY <2>2, <2>5 DEF SelectionOK
  <2>8. ConfirmedAsSeen
    BY <2>1, <2>2 DEF ConfirmedAsSeen
  <2>9. ContentIsFresh
    BY <2>1, <2>2 DEF ContentIsFresh
  <2> QED BY <1>1, <2>3, <2>4, <2>6, <2>7, <2>8, <2>9 DEF WorkflowInv
<1> QED BY <1>2, <1>3

LEMMA Workflow == Spec => []WorkflowInv
  BY InitWorkflowInv, NextKeeps, PTL DEF Spec

-----------------------------------------------------------------------------
(* The closure: what rests on a set of versions *)

\* One round of the closure
Round(ids, candidates) ==
    ids \union {Id(a) : a \in {b \in candidates : b.on \in ids}}

\* All that rests on a member is a member.
Closed(ids, candidates) == \A b \in candidates : b.on \in ids => Id(b) \in ids

\* h takes a round for every element of a subset of S.
Rounds(h, from, candidates, S) ==
    h = [s \in SUBSET S |->
            IF s = {} THEN from
            ELSE Round(h[s \ {CHOOSE x \in s : TRUE}], candidates)]

\* The least subset of a finite set.
LEMMA LeastSubset ==
    ASSUME NEW S, IsFiniteSet(S), NEW Q, Q \subseteq SUBSET S, Q # {}
    PROVE  \E T \in Q : \A R \in Q : ~ (R \subseteq T /\ R # T)
<1>1. IsWellFoundedOn(StrictSubsetOrdering(S), SUBSET S)
  BY FS_StrictSubsetOrderingWellFounded, FS_FiniteSubsetsOfFinite
<1>2. PICK T \in Q : \A R \in Q : ~ (<<R, T>> \in StrictSubsetOrdering(S))
  BY <1>1, WFMin
<1> QED BY <1>2 DEF StrictSubsetOrdering

\* As many rounds as one likes, counted
Counted(f, from, candidates, n) ==
    /\ f[0] = from
    /\ \A i \in Nat : i < n => f[i + 1] = Round(f[i], candidates)

LEMMA CountedExists ==
    ASSUME NEW from, NEW candidates, NEW n \in Nat
    PROVE  \E f : Counted(f, from, candidates, n)
<1> DEFINE Bad == {k \in Nat : ~ \E f : Counted(f, from, candidates, k)}
<1> SUFFICES ASSUME Bad # {} PROVE FALSE
  OBVIOUS
<1>1. PICK m \in Bad : \A k \in Bad : ~ (<<k, m>> \in Less)
  <2> HIDE DEF Bad
  <2>1. Bad \subseteq Nat
    BY DEF Bad
  <2> QED BY <2>1, NatLessThanWellFounded, WFMin DEF Less
<1>2. \A k \in Bad : ~ (k < m)
  BY <1>1 DEF Less, OpToRel
<1>3. m \in Nat /\ ~ \E f : Counted(f, from, candidates, m)
  BY <1>1
<1>4. CASE m = 0
  <2> DEFINE g == [i \in {0} |-> from]
  <2>1. Counted(g, from, candidates, 0)
    BY DEF Counted
  <2> QED BY <1>3, <1>4, <2>1
<1>5. CASE m # 0
  <2>1. m - 1 \in Nat /\ m - 1 < m /\ m - 1 \notin Bad
    BY <1>2, <1>3, <1>5
  <2>2. PICK f : Counted(f, from, candidates, m - 1)
    BY <2>1
  <2> DEFINE g == [i \in 0..m |-> IF i = m THEN Round(f[m - 1], candidates) ELSE f[i]]
  <2>3. g[0] = from
    BY <2>2, <1>3, <1>5 DEF Counted
  <2>4. ASSUME NEW i \in Nat, i < m
        PROVE  g[i + 1] = Round(g[i], candidates)
    <3>1. i \in 0..m /\ i # m /\ i + 1 \in 0..m /\ (i + 1 = m \/ i < m - 1)
      BY <1>3, <2>4
    <3>2. CASE i + 1 = m
      <4>1. i = m - 1
        BY <1>3, <3>2
      <4> QED BY <3>1, <3>2, <4>1
    <3>3. CASE i < m - 1
      <4>1. i + 1 # m
        BY <1>3, <3>3
      <4> QED BY <2>2, <3>1, <3>3, <4>1 DEF Counted
    <3> QED BY <3>1, <3>2, <3>3
  <2>5. Counted(g, from, candidates, m)
    <3> HIDE DEF g
    <3> QED BY <2>3, <2>4 DEF Counted
  <2> QED BY <1>3, <2>5
<1> QED BY <1>4, <1>5

LEMMA RoundsExist ==
    ASSUME NEW from, NEW candidates, NEW S, IsFiniteSet(S)
    PROVE  \E h : Rounds(h, from, candidates, S)
<1>1. Cardinality(S) \in Nat
  BY FS_CardinalityType
<1>2. PICK f : Counted(f, from, candidates, Cardinality(S))
  BY <1>1, CountedExists
<1> DEFINE h == [s \in SUBSET S |-> f[Cardinality(s)]]
<1>3. ASSUME NEW s \in SUBSET S
      PROVE  h[s] = IF s = {} THEN from
                    ELSE Round(h[s \ {CHOOSE x \in s : TRUE}], candidates)
  <2>1. CASE s = {}
    BY <1>2, <2>1, FS_EmptySet DEF Counted
  <2>2. CASE s # {}
    <3>1. PICK x : x = CHOOSE y \in s : TRUE
      OBVIOUS
    <3>2. x \in s
      BY <2>2, <3>1
    <3>3. IsFiniteSet(s) /\ Cardinality(s) <= Cardinality(S) /\ Cardinality(s) \in Nat
      BY FS_Subset, FS_CardinalityType
    <3>4. Cardinality(s \ {x}) = Cardinality(s) - 1 /\ Cardinality(s \ {x}) \in Nat
      BY <3>2, <3>3, FS_RemoveElement, FS_CardinalityType
    <3>5. PICK k \in Nat : k = Cardinality(s \ {x})
      BY <3>4
    <3>6. k < Cardinality(S) /\ k + 1 = Cardinality(s)
      BY <1>1, <3>3, <3>4, <3>5
    <3>7. f[k + 1] = Round(f[k], candidates)
      BY <1>2, <3>6 DEF Counted
    <3>8. h[s] = f[k + 1] /\ h[s \ {x}] = f[k]
      BY <3>5, <3>6
    <3> QED BY <2>2, <3>1, <3>7, <3>8
  <2> QED BY <2>1, <2>2
<1>4. h = [s \in SUBSET S |->
              IF s = {} THEN from
              ELSE Round(h[s \ {CHOOSE x \in s : TRUE}], candidates)]
  <2> DEFINE g == [s \in SUBSET S |->
                      IF s = {} THEN from
                      ELSE Round(h[s \ {CHOOSE x \in s : TRUE}], candidates)]
  <2>1. DOMAIN h = SUBSET S /\ DOMAIN g = SUBSET S
    OBVIOUS
  <2>2. \A s \in SUBSET S : g[s] = h[s]
    BY <1>3
  <2> QED BY <2>1, <2>2
<1>5. Rounds(h, from, candidates, S)
  <2> HIDE DEF h
  <2> QED BY <1>4 DEF Rounds
<1> QED BY <1>5

Ids(candidates) == {Id(a) : a \in candidates}

LEMMA IdsFinite ==
    ASSUME NEW candidates, IsFiniteSet(candidates)
    PROVE  IsFiniteSet(Ids(candidates)) /\ Cardinality(Ids(candidates)) <= Cardinality(candidates)
<1> DEFINE f == [a \in candidates |-> Id(a)]
<1>1. f \in Surjection(candidates, Ids(candidates))
  BY DEF Surjection, Ids
<1> QED BY <1>1, FS_Surjection

\* After a round for every element of T the closure is reached, or there are as
\* many members; and there is nothing in it that need not be.
LEMMA RoundsReach ==
    ASSUME NEW from, NEW candidates, IsFiniteSet(candidates),
           NEW S, IsFiniteSet(S), NEW h, Rounds(h, from, candidates, S)
    PROVE  /\ from \subseteq h[S]
           /\ \A U : from \subseteq U /\ Closed(U, candidates) => h[S] \subseteq U
           /\ \/ Closed(h[S], candidates)
              \/ Cardinality(h[S] \cap Ids(candidates)) >= Cardinality(S)
<1> DEFINE Good(T) ==
        /\ from \subseteq h[T]
        /\ \A U : from \subseteq U /\ Closed(U, candidates) => h[T] \subseteq U
        /\ \/ Closed(h[T], candidates)
           \/ Cardinality(h[T] \cap Ids(candidates)) >= Cardinality(T)
    Q == {T \in SUBSET S : ~ Good(T)}
<1> SUFFICES ASSUME Q # {} PROVE FALSE
  OBVIOUS
<1>1. PICK T \in Q : \A R \in Q : ~ (R \subseteq T /\ R # T)
  <2> HIDE DEF Q
  <2>1. Q \subseteq SUBSET S
    BY DEF Q
  <2> QED BY <2>1, LeastSubset
<1>2. T \in SUBSET S /\ IsFiniteSet(T) /\ Cardinality(T) \in Nat /\ ~ Good(T)
  BY <1>1, FS_Subset, FS_CardinalityType
<1>3. \A ids : IsFiniteSet(ids \cap Ids(candidates))
                 /\ Cardinality(ids \cap Ids(candidates)) \in Nat
  BY IdsFinite, FS_Intersection, FS_CardinalityType
<1>4. CASE T = {}
  <2>1. h[T] = from
    BY <1>2, <1>4 DEF Rounds
  <2>2. Cardinality(T) = 0
    BY <1>4, FS_EmptySet
  <2> QED BY <1>2, <1>3, <2>1, <2>2
<1>5. CASE T # {}
  <2>1. PICK x : x = CHOOSE y \in T : TRUE
    OBVIOUS
  <2>2. x \in T
    BY <1>5, <2>1
  <2>3. PICK R : R = T \ {x}
    OBVIOUS
  <2>4. h[T] = Round(h[R], candidates)
    BY <1>2, <1>5, <2>1, <2>3 DEF Rounds
  <2>5. Good(R)
    <3>1. R \in SUBSET S /\ R \subseteq T /\ R # T
      BY <1>2, <2>2, <2>3
    <3> QED BY <1>1, <3>1
  <2>6. Cardinality(R) = Cardinality(T) - 1 /\ Cardinality(R) \in Nat
    BY <1>2, <2>2, <2>3, FS_RemoveElement, FS_CardinalityType
  <2>7. h[R] \subseteq h[T]
    BY <2>4 DEF Round
  <2>8. \A U : from \subseteq U /\ Closed(U, candidates) => h[T] \subseteq U
    BY <2>4, <2>5 DEF Closed, Round
  <2>9. CASE Closed(h[R], candidates)
    <3>1. h[T] = h[R]
      BY <2>4, <2>9 DEF Closed, Round
    <3> QED BY <1>2, <2>5, <2>9, <3>1
  <2>10. CASE ~ Closed(h[R], candidates)
    <3>1. PICK b \in candidates : b.on \in h[R] /\ Id(b) \notin h[R]
      BY <2>10 DEF Closed
    <3>2. Id(b) \in h[T] \cap Ids(candidates)
      BY <2>4, <3>1 DEF Round, Ids
    <3> DEFINE A == h[R] \cap Ids(candidates)
               B == h[T] \cap Ids(candidates)
    <3>3. A \cup {Id(b)} \in SUBSET B /\ Id(b) \notin A
      BY <2>7, <3>1, <3>2
    <3>4. Cardinality(A \cup {Id(b)}) = Cardinality(A) + 1
      BY <1>3, <3>3, FS_AddElement
    <3>5. Cardinality(A \cup {Id(b)}) <= Cardinality(B)
      BY <1>3, <3>3, FS_Subset
    <3>6. Cardinality(A) >= Cardinality(R)
      BY <2>5, <2>10
    <3>7. Cardinality(A) \in Nat /\ Cardinality(B) \in Nat
      BY <1>3
    <3>8. Cardinality(B) >= Cardinality(T)
      BY <1>2, <2>6, <3>4, <3>5, <3>6, <3>7
    <3> QED BY <1>2, <2>5, <2>7, <2>8, <3>8
  <2> QED BY <2>9, <2>10
<1> QED BY <1>4, <1>5

\* Dependents is the least closed set with all it is taken from.
LEMMA DependentsAre ==
    ASSUME NEW from, NEW candidates, IsFiniteSet(candidates)
    PROVE  /\ from \subseteq Dependents(from, candidates)
           /\ Closed(Dependents(from, candidates), candidates)
           /\ \A U : from \subseteq U /\ Closed(U, candidates) =>
                        Dependents(from, candidates) \subseteq U
<1> DEFINE S == 1 .. Cardinality(candidates)
           Folds(g) ==
              g = [s \in SUBSET S |->
                     IF s = {} THEN from
                     ELSE g[s \ {CHOOSE x \in s : TRUE}] \union
                          {Id(a) : a \in {b \in candidates :
                              b.on \in g[s \ {CHOOSE x \in s : TRUE}]}}]
           h == CHOOSE g : Folds(g)
<1>1. Dependents(from, candidates) = h[S]
  BY DEF Dependents, FoldSet, MapThenFoldSet
<1>2. Cardinality(candidates) \in Nat
  BY FS_CardinalityType
<1>3. IsFiniteSet(S) /\ Cardinality(S) = Cardinality(candidates)
  BY <1>2, FS_Interval
<1> HIDE DEF S
<1>4. PICK g : Rounds(g, from, candidates, S)
  BY <1>3, RoundsExist
<1>5. Folds(g)
  BY <1>4 DEF Rounds, Round
<1>6. Folds(h)
  <2> HIDE DEF Folds
  <2> QED BY <1>5
<1> HIDE DEF h
<1>7. Rounds(h, from, candidates, S)
  BY <1>6 DEF Rounds, Round
<1>8. /\ from \subseteq h[S]
      /\ \A U : from \subseteq U /\ Closed(U, candidates) => h[S] \subseteq U
      /\ \/ Closed(h[S], candidates)
         \/ Cardinality(h[S] \cap Ids(candidates)) >= Cardinality(candidates)
  BY <1>3, <1>7, RoundsReach
<1>9. Closed(h[S], candidates)
  <2> SUFFICES ASSUME Cardinality(h[S] \cap Ids(candidates)) >= Cardinality(candidates)
               PROVE  Closed(h[S], candidates)
    BY <1>8
  <2>1. IsFiniteSet(Ids(candidates))
        /\ Cardinality(Ids(candidates)) <= Cardinality(candidates)
        /\ Cardinality(Ids(candidates)) \in Nat
    BY IdsFinite, FS_CardinalityType
  <2>2. /\ IsFiniteSet(h[S] \cap Ids(candidates))
        /\ Cardinality(h[S] \cap Ids(candidates)) <= Cardinality(Ids(candidates))
        /\ Cardinality(h[S] \cap Ids(candidates)) \in Nat
    BY <2>1, FS_Intersection, FS_CardinalityType
  <2>3. Cardinality(Ids(candidates)) = Cardinality(h[S] \cap Ids(candidates))
    BY <1>2, <2>1, <2>2
  <2>4. h[S] \cap Ids(candidates) = Ids(candidates)
    BY <2>1, <2>3, FS_Subset
  <2> QED BY <2>4 DEF Closed, Ids
<1> QED BY <1>1, <1>8, <1>9

-----------------------------------------------------------------------------
(* What is valid rests on what is selected: the inductive invariant *)

\* A stage comes after the one before it, but for what the former order left:
\* the asset matching that rests on the strategy, and the script on that.
OrderOK ==
    \A a \in artifacts :
        /\ a.stage = Strategy => a.version = 1 /\ a.on = NoUpstream
        /\ a.stage = Script => a.on[1] \in {Strategy, AssetMatching}
        /\ a.stage = AssetMatching =>
              \/ a.on[1] = Script
              \/ a.on[1] = Strategy /\ a.version = 1
        /\ a.stage \in Simulated => a.on[1] = a.stage - 1
FormerOK ==
    \A a, b \in artifacts :
        a.stage = Script /\ b.stage = AssetMatching /\ a.on = Id(b) =>
            b.on[1] = Strategy

\* A version is younger than what it rests on.
OlderOK == \A a, b \in artifacts : a.on = Id(b) => b.at < a.at

\* Snapshots are numbered no faster than revisions.
SnapshotsOK == \A a \in artifacts : a.assets <= revision

\* Before the strategy nothing is confirmed, and after it strategy and script
\* stay selected.
FoundedOK ==
    /\ stage = Strategy => artifacts = {}
    /\ \A r \in Stages : r <= stage \/ active[r] # 0 =>
          \A s \in {Strategy, Script} : s < r => active[s] # 0

\* The script is generated, and so confirmed, once.
ScriptedOK ==
    /\ active[Script] # 0 => script # 0
    /\ stage = Script /\ status = "awaiting_confirmation" => active[Script] = 0

\* An asset matching that rests on a script rests on the selected one, even if
\* the former order left that script.
MatchedOK ==
    \A a \in artifacts :
        (a.stage = AssetMatching /\ a.on[1] = Script /\ Id(a) \notin invalidated) =>
            a.on[2] = active[Script]

ValidOK ==
    \A a \in artifacts :
        (Id(a) \notin invalidated /\ Id(a) \notin FormerOrder /\ a.on # NoUpstream) =>
            a.on[2] = active[a.on[1]]
SelectedOK == \A s \in Stages : active[s] # 0 => <<s, active[s]>> \notin invalidated

Done(s) == s < stage \/ status = "confirmed"
DoneOK ==
    \A s \in Stages : Done(s) =>
        \/ active[s] # 0
        \/ s >= AssetMatching /\ \E t \in Stages : t > s /\ <<t, active[t]>> \in FormerOrder
PlaceOK ==
    \A s \in Stages : active[s] # 0 => Done(s) \/ <<s, active[s]>> \in FormerOrder

\* What a command on its way carries
Sound(c) == c \in CommandSet /\ (c.action = "assign" => c.target \in Accounts)
CarriedOK == late # NoCommand => Sound(late)

\* The versions and how they came about
BasisInv ==
    /\ WorkflowInv /\ TypeOK /\ IsFiniteSet(artifacts)
    /\ OrderOK /\ FormerOK /\ OlderOK /\ SnapshotsOK /\ SnapshotFollowsSelection
HistoryInv ==
    /\ BasisInv /\ CarriedOK
    /\ FoundedOK /\ ScriptedOK /\ MatchedOK /\ ValidOK /\ SelectedOK
    /\ DoneOK /\ PlaceOK

-----------------------------------------------------------------------------
(* Versions *)

LEMMA VersionTypes ==
    ASSUME TypeOK, NEW a \in artifacts
    PROVE  /\ a.stage \in Stages /\ a.version \in 1 .. MaxRevision
           /\ a.on \in Identities \union {NoUpstream}
           /\ a.assets \in Nat /\ a.at \in 1 .. MaxRevision
           /\ Id(a) = <<a.stage, a.version>>
           /\ a.on = <<a.on[1], a.on[2]>>
           /\ a.on # NoUpstream => a.on[1] \in Stages /\ a.on[2] \in 1 .. MaxRevision
<1>1. a \in Artifacts
  BY DEF TypeOK
<1>2. /\ a.stage \in Stages /\ a.version \in 1 .. MaxRevision
      /\ a.on \in Identities \union {NoUpstream}
      /\ a.assets \in Nat /\ a.at \in 1 .. MaxRevision
  BY <1>1 DEF Artifacts
<1> QED BY <1>2 DEF Id, Identities, NoUpstream

\* What the former order left is closed, and contains all that breaks the order.
LEMMA FormerIs ==
    ASSUME IsFiniteSet(artifacts)
    PROVE  /\ \A a \in artifacts :
                 a.stage # Strategy /\ a.on[1] # a.stage - 1 => Id(a) \in FormerOrder
           /\ \A a \in artifacts : a.on \in FormerOrder => Id(a) \in FormerOrder
<1> DEFINE base == {Id(a) : a \in {b \in artifacts :
                                     b.stage # Strategy /\ b.on[1] # b.stage - 1}}
<1>1. base \subseteq FormerOrder /\ Closed(FormerOrder, artifacts)
  BY DependentsAre DEF FormerOrder
<1> QED BY <1>1 DEF Closed

\* It loses nothing when versions are added.
LEMMA FormerGrows ==
    ASSUME IsFiniteSet(artifacts), IsFiniteSet(artifacts'), artifacts \subseteq artifacts'
    PROVE  FormerOrder \subseteq FormerOrder'
<1> DEFINE base == {Id(a) : a \in {b \in artifacts :
                                     b.stage # Strategy /\ b.on[1] # b.stage - 1}}
           after == {Id(a) : a \in {b \in artifacts' :
                                     b.stage # Strategy /\ b.on[1] # b.stage - 1}}
           F == Dependents(after, artifacts')
<1>1. after \subseteq F /\ Closed(F, artifacts')
  BY DependentsAre
<1>2. base \subseteq F /\ Closed(F, artifacts)
  BY <1>1 DEF Closed
<1>3. FormerOrder = Dependents(base, artifacts) /\ FormerOrder' = F
  BY DEF FormerOrder
<1> HIDE DEF base, F
<1> QED BY <1>2, <1>3, DependentsAre

\* What is selected and not former rests on what is selected before it.
Canonical(s) == active[s] # 0 /\ <<s, active[s]>> \notin FormerOrder

LEMMA OneDown ==
    ASSUME BasisInv, ValidOK, SelectedOK,
           NEW s \in Stages, s # Strategy, Canonical(s)
    PROVE  /\ s - 1 \in Stages /\ Canonical(s - 1)
           /\ \E a \in artifacts : Id(a) = <<s, active[s]>> /\ a.on = <<s - 1, active[s - 1]>>
<1>1. PICK a \in artifacts : Id(a) = <<s, active[s]>>
  BY DEF BasisInv, WorkflowInv, SelectionOK, Canonical
<1>2. a.stage = s /\ a.on = <<a.on[1], a.on[2]>>
  BY <1>1, VersionTypes DEF BasisInv, Id
<1>3. s - 1 \in Stages /\ s - 1 # 0
  BY DEF Stages, Strategy, Delivery
<1>4. a.on[1] = s - 1
  BY <1>1, <1>2, FormerIs DEF BasisInv, Canonical
<1>5. a.on # NoUpstream
  <2>1. NoUpstream[1] = 0
    BY DEF NoUpstream
  <2> QED BY <1>3, <1>4, <2>1
<1>6. a.on[2] = active[s - 1]
  BY <1>1, <1>4, <1>5 DEF ValidOK, SelectedOK, Canonical
<1>7. active[s - 1] # 0
  BY <1>5, <1>6, VersionTypes DEF BasisInv
<1>8. <<s - 1, active[s - 1]>> \notin FormerOrder
  BY <1>1, <1>2, <1>4, <1>6, FormerIs DEF BasisInv, Canonical
<1> QED BY <1>1, <1>2, <1>3, <1>4, <1>6, <1>7, <1>8 DEF Canonical

LEMMA AllDown ==
    ASSUME BasisInv, ValidOK, SelectedOK, NEW s \in Stages, Canonical(s)
    PROVE  \A t \in Stages : t <= s =>
              /\ Canonical(t)
              /\ t # Strategy => \E a \in artifacts :
                    Id(a) = <<t, active[t]>> /\ a.on = <<t - 1, active[t - 1]>>
<1>1. \A t \in Stages : t # Strategy /\ Canonical(t) => Canonical(t - 1)
  BY OneDown
<1>2. \A t \in Stages : t <= s => Canonical(t)
  <2> DEFINE K == {t \in Stages : Canonical(t)}
  <2>1. s \in K /\ \A t \in K : t # 1 => t - 1 \in K
    BY <1>1 DEF Strategy, Stages, Delivery
  <2>2. K \subseteq 1 .. 6 /\ Stages = 1 .. 6
    BY DEF Stages, Strategy, Delivery
  <2> HIDE DEF K
  <2>3. /\ 6 \in K => 5 \in K
        /\ 5 \in K => 4 \in K
        /\ 4 \in K => 3 \in K
        /\ 3 \in K => 2 \in K
        /\ 2 \in K => 1 \in K
    BY <2>1
  <2>4. \A t \in 1 .. 6 : t <= s => t \in K
    BY <2>1, <2>2, <2>3
  <2> QED BY <2>2, <2>4 DEF K
<1> QED BY <1>2, OneDown

-----------------------------------------------------------------------------
(* What an invalidation hits *)

Valid == {a \in artifacts : Id(a) \notin invalidated}

LEMMA DownstreamIs ==
    ASSUME IsFiniteSet(artifacts), NEW x
    PROVE  /\ \A a \in Valid : a.on = x \/ a.on \in Downstream(x) =>
                 Id(a) = x \/ Id(a) \in Downstream(x)
           /\ \A U : x \in U /\ Closed(U, Valid) => Downstream(x) \subseteq U
           /\ \A y \in Downstream(x) : \E a \in Valid :
                 Id(a) = y /\ (a.on = x \/ a.on \in Downstream(x))
           /\ x \notin Downstream(x)
<1> DEFINE D == Dependents({x}, Valid)
<1>1. IsFiniteSet(Valid)
  BY FS_Subset DEF Valid
<1>2. /\ x \in D /\ Closed(D, Valid)
      /\ \A U : x \in U /\ Closed(U, Valid) => D \subseteq U
  <2>1. /\ {x} \subseteq D /\ Closed(D, Valid)
        /\ \A U : {x} \subseteq U /\ Closed(U, Valid) => D \subseteq U
    BY <1>1, DependentsAre
  <2> HIDE DEF D
  <2> QED BY <2>1
<1>3. Downstream(x) = D \ {x}
  BY DEF Downstream, Valid
<1> HIDE DEF D
<1>4. \A a \in Valid : a.on = x \/ a.on \in Downstream(x) =>
                 Id(a) = x \/ Id(a) \in Downstream(x)
  BY <1>2, <1>3 DEF Closed
<1>5. \A y \in Downstream(x) : \E a \in Valid : Id(a) = y /\ (a.on = x \/ a.on \in Downstream(x))
  <2> DEFINE U == {x} \union {Id(a) : a \in {b \in Valid : b.on \in D}}
  <2>1. U \subseteq D
    BY <1>2 DEF Closed
  <2>2. x \in U /\ Closed(U, Valid)
    BY <2>1 DEF Closed
  <2>3. D \subseteq U
    <3> HIDE DEF U
    <3> QED BY <1>2, <2>2
  <2> QED BY <1>3, <2>3
<1>6. \A U : x \in U /\ Closed(U, Valid) => Downstream(x) \subseteq U
  BY <1>2, <1>3
<1> QED BY <1>3, <1>4, <1>5, <1>6

\* What is hit is valid, and younger than that from which it is hit.
LEMMA DownstreamYounger ==
    ASSUME BasisInv, NEW f \in artifacts
    PROVE  \A y \in Downstream(Id(f)) :
              \E a \in Valid : Id(a) = y /\ f.at < a.at
<1> DEFINE U == {Id(f)} \union {Id(a) : a \in {b \in Valid : f.at < b.at}}
<1>1. \A a \in artifacts : a.at \in Nat
  BY VersionTypes DEF BasisInv
<1>2. ASSUME NEW b \in Valid, b.on \in U PROVE Id(b) \in U
  <2>1. PICK c \in artifacts : Id(c) = b.on /\ (c = f \/ f.at < c.at)
    BY <1>2 DEF Valid
  <2>2. b \in artifacts /\ c.at < b.at
    BY <2>1 DEF Valid, BasisInv, OlderOK
  <2>3. f.at < b.at
    BY <1>1, <2>1, <2>2
  <2> QED BY <2>3
<1>3. Downstream(Id(f)) \subseteq U
  <2>1. Id(f) \in U /\ Closed(U, Valid)
    BY <1>2 DEF Closed
  <2> HIDE DEF U
  <2> QED BY <2>1, DownstreamIs DEF BasisInv
<1> QED BY <1>3, DownstreamIs DEF BasisInv

\* What is valid and not hit rests on nothing that is hit.
LEMMA UntouchedIs ==
    ASSUME BasisInv, NEW f \in artifacts,
           NEW a \in artifacts, Id(a) \notin invalidated, Id(a) \notin Downstream(Id(f))
    PROVE  a.on # Id(f) /\ a.on \notin Downstream(Id(f))
<1>1. a \in Valid
  BY DEF Valid
<1>2. \A b \in artifacts : b.at \in Nat
  BY VersionTypes DEF BasisInv
<1>3. CASE a.on = Id(f)
  <2>1. f.at < a.at
    BY <1>3 DEF BasisInv, OlderOK
  <2>2. Id(a) = Id(f)
    BY <1>1, <1>3, DownstreamIs DEF BasisInv
  <2>3. a = f
    BY <2>2 DEF BasisInv, TypeOK
  <2> QED BY <1>2, <2>1, <2>3
<1>4. CASE a.on \in Downstream(Id(f))
  <2>1. PICK b \in Valid : Id(b) = a.on /\ f.at < b.at
    BY <1>4, DownstreamYounger
  <2>2. b \in artifacts /\ b.at < a.at
    BY <2>1 DEF Valid, BasisInv, OlderOK
  <2>3. Id(a) = Id(f)
    BY <1>1, <1>4, DownstreamIs DEF BasisInv
  <2>4. a = f
    BY <2>3 DEF BasisInv, TypeOK
  <2> QED BY <1>2, <2>1, <2>2, <2>4
<1> QED BY <1>3, <1>4

\* The strategy is never hit; nor is the script, but from the asset matching
\* that rests on the strategy.
LEMMA FoundationsUntouched ==
    ASSUME BasisInv, NEW f \in artifacts
    PROVE  /\ \A y \in Downstream(Id(f)) : y[1] \in Stages /\ y[1] # Strategy
           /\ f.stage >= AssetMatching /\ ~ (f.stage = AssetMatching /\ f.on[1] = Strategy) =>
                 \A y \in Downstream(Id(f)) : y[1] >= AssetMatching
<1> USE DEF Stages, Strategy, Script, AssetMatching, Storyboard, Delivery, Simulated
<1>0. \A a \in artifacts : /\ a.stage \in Stages /\ Id(a) = <<a.stage, a.version>>
                           /\ a.on = <<a.on[1], a.on[2]>>
                           /\ a.on = NoUpstream \/ a.on[1] \in Stages
  BY VersionTypes DEF BasisInv
<1>1. ASSUME NEW y \in Downstream(Id(f)) PROVE y[1] \in Stages /\ y[1] # Strategy
  <2>1. PICK a \in Valid : Id(a) = y /\ f.at < a.at
    BY DownstreamYounger
  <2>2. PICK b \in Valid : Id(b) = y /\ (b.on = Id(f) \/ b.on \in Downstream(Id(f)))
    BY DownstreamIs DEF BasisInv
  <2>3. \E d \in artifacts : Id(d) = b.on
    <3>1. CASE b.on = Id(f)
      BY <3>1
    <3>2. CASE b.on \in Downstream(Id(f))
      BY <3>2, DownstreamIs DEF BasisInv, Valid
    <3> QED BY <2>2, <3>1, <3>2
  <2>4. b.on # NoUpstream
    BY <1>0, <2>3 DEF NoUpstream
  <2>5. b.stage # Strategy
    BY <2>4 DEF BasisInv, OrderOK, Valid
  <2> QED BY <1>0, <2>2, <2>5 DEF Valid
<1>2. ASSUME f.stage >= AssetMatching, ~ (f.stage = AssetMatching /\ f.on[1] = Strategy),
             NEW y \in Downstream(Id(f))
      PROVE  y[1] >= AssetMatching
  <2> DEFINE U == {Id(a) : a \in {b \in artifacts :
                     b.stage >= AssetMatching /\ ~ (b.stage = AssetMatching /\ b.on[1] = Strategy)}}
  <2>1. Id(f) \in U
    BY <1>2
  <2>2. ASSUME NEW b \in Valid, b.on \in U PROVE Id(b) \in U
    <3>1. PICK d \in artifacts : /\ Id(d) = b.on /\ d.stage >= AssetMatching
                                 /\ ~ (d.stage = AssetMatching /\ d.on[1] = Strategy)
      BY <2>2
    <3>2. b \in artifacts /\ b.on[1] = d.stage
      BY <1>0, <3>1 DEF Valid
    <3>3. b.on # NoUpstream
      BY <1>0, <3>2 DEF NoUpstream
    <3>4. b.stage # Strategy
      BY <3>2, <3>3 DEF BasisInv, OrderOK
    <3>5. b.stage # Script
      BY <1>0, <3>1, <3>2 DEF BasisInv, OrderOK, FormerOK
    <3>6. b.stage >= AssetMatching
      BY <1>0, <3>2, <3>4, <3>5
    <3>7. b.on[1] # Strategy
      BY <3>1, <3>2
    <3> QED BY <3>2, <3>6, <3>7
  <2>3. Downstream(Id(f)) \subseteq U
    <3>1. Closed(U, Valid)
      BY <2>2 DEF Closed
    <3> HIDE DEF U
    <3> QED BY <2>1, <3>1, DownstreamIs DEF BasisInv
  <2>4. PICK a \in artifacts : Id(a) = y /\ a.stage >= AssetMatching
    BY <2>3
  <2> QED BY <1>0, <2>4
<1> QED BY <1>1, <1>2

-----------------------------------------------------------------------------
(* Steps that confirm and select nothing *)

LateTyped == late \in CommandSet \union {NoCommand}

LEMMA DerivedIsNat ==
    ASSUME TypeOK, NEW s \in Stages
    PROVE  Derived(s) \in Nat
<1>1. s \notin {Strategy, Script, AssetMatching} => s \in Simulated
  BY DEF Stages, Strategy, Script, AssetMatching, Storyboard, Delivery, Simulated
<1>2. draft.content \in Nat /\ script \in Nat /\ pool \in Nat
      /\ (s \in Simulated => generated[s] \in Nat)
  BY DEF TypeOK
<1> QED BY <1>1, <1>2 DEF Derived

LEMMA OfferedSound ==
    ASSUME TypeOK, WorkflowInv, NEW u \in Accounts, NEW c \in Offered(u)
    PROVE  Sound(c)
<1>1. \E action \in {"generate", "request_approval", "confirm", "reopen",
                     "take_over", "assign", "rollback"},
         s \in Stages, target \in Nat \union Accounts :
            /\ c = Command(u, action, s, target)
            /\ action = "assign" => target \in Accounts
  <2>1. stage \in Stages
    BY DEF TypeOK
  <2>2. \A s \in Stages : Versions(s) \subseteq Nat
    BY DEF Versions, WorkflowInv, VersionsOK
  <2> QED BY <2>1, <2>2 DEF Offered
<1>2. PICK action \in {"generate", "request_approval", "confirm", "reopen",
                       "take_over", "assign", "rollback"},
           s \in Stages, target \in Nat \union Accounts :
            /\ c = Command(u, action, s, target)
            /\ action = "assign" => target \in Accounts
  BY <1>1
<1>3. revision \in Nat /\ Derived(s) \in Nat
  BY DerivedIsNat DEF TypeOK
<1>4. c = [by |-> u, action |-> action, stage |-> s, target |-> target,
           expected |-> revision, seen |-> Derived(s)]
  BY <1>2 DEF Command
<1> QED BY <1>2, <1>3, <1>4 DEF Sound, CommandSet

LEMMA EarlyTypes ==
    ASSUME TypeOK, NEW c, Sound(c), Early(c) \/ GenerateSimulated(c), LateTyped'
    PROVE  TypeOK'
<1> USE DEF OwnerOf, Current, Advance
<1>1. /\ artifacts' = artifacts /\ active' = active /\ invalidated' = invalidated
      /\ reopened' = reopened /\ assets' = assets /\ stage' = stage /\ pool' = pool
  BY DEF Early, GenerateStrategy, RequestApproval, GenerateScript, TakeOver, AssignOwner,
         GenerateSimulated, history, workflow, contents
<1>2. revision' = revision + 1 /\ revision < MaxRevision
  BY DEF Early, GenerateStrategy, RequestApproval, GenerateScript, TakeOver, AssignOwner,
         GenerateSimulated
<1>3. revision' \in 1 .. MaxRevision
  BY <1>2, BoundsAssumption DEF TypeOK
<1>4. owner' \in Accounts /\ transfers' \in 0 .. MaxTransfers
  <2>1. c.by \in Accounts /\ (c.action = "assign" => c.target \in Accounts)
    BY DEF Sound, CommandSet
  <2> QED BY <2>1, BoundsAssumption
          DEF TypeOK, Early, GenerateStrategy, RequestApproval, GenerateScript, TakeOver,
              AssignOwner, GenerateSimulated, ownership, Transfer
<1>5. /\ status' \in {"in_progress", "awaiting_confirmation", "confirmed"}
      /\ status' = "confirmed" => stage' = Delivery
  BY <1>1 DEF TypeOK, Early, GenerateStrategy, RequestApproval, GenerateScript, TakeOver,
              AssignOwner, GenerateSimulated, workflow
<1>6. /\ draft' \in [content : Nat, status : {"none", "draft", "awaiting_confirmation"}]
      /\ script' \in Nat /\ generated' \in [Simulated -> Nat]
  <2>0. revision + 1 \in Nat
    BY DEF TypeOK
  <2>1. CASE GenerateStrategy(c)
    BY <2>0, <2>1 DEF TypeOK, GenerateStrategy
  <2>2. CASE RequestApproval(c)
    BY <2>2 DEF TypeOK, RequestApproval
  <2>3. CASE GenerateScript(c)
    BY <2>0, <2>3 DEF TypeOK, GenerateScript
  <2>4. CASE GenerateSimulated(c)
    BY <2>0, <2>4 DEF TypeOK, GenerateSimulated, Receipt
  <2>5. CASE TakeOver(c) \/ AssignOwner(c)
    BY <2>5 DEF TypeOK, TakeOver, AssignOwner, contents
  <2> QED BY <2>1, <2>2, <2>3, <2>4, <2>5 DEF Early
<1>7. /\ artifacts' \subseteq Artifacts
      /\ \A a, b \in artifacts' : Id(a) = Id(b) => a = b
      /\ active' \in [Stages -> 0 .. MaxRevision]
      /\ invalidated' \subseteq {Id(a) : a \in artifacts'}
      /\ reopened' \subseteq invalidated'
      /\ assets' \in Nat /\ stage' \in Stages /\ pool' \in 1 .. MaxPool
  BY <1>1 DEF TypeOK
<1> QED BY <1>3, <1>4, <1>5, <1>6, <1>7 DEF TypeOK, LateTyped, Id

\* What such a step leaves alone stays as it was.
LEMMA NothingMoved ==
    ASSUME HistoryInv, WorkflowInv', TypeOK', CarriedOK', ScriptedOK',
           artifacts' = artifacts, active' = active, invalidated' = invalidated,
           assets' = assets, stage' = stage, revision' \in {revision, revision + 1},
           status' = "confirmed" <=> status = "confirmed"
    PROVE  HistoryInv'
<1> USE DEF HistoryInv
<1>1. IsFiniteSet(artifacts')
  BY DEF BasisInv
<1>2. FormerOrder' = FormerOrder
  BY DEF FormerOrder
<1>3. OrderOK' /\ FormerOK' /\ OlderOK'
  BY DEF BasisInv, OrderOK, FormerOK, OlderOK, Id
<1>4. SnapshotsOK' /\ SnapshotFollowsSelection'
  <2>1. revision \in Nat /\ \A a \in artifacts : a.assets \in Nat
    BY VersionTypes DEF BasisInv, TypeOK
  <2>2. SnapshotsOK'
    BY <2>1 DEF BasisInv, SnapshotsOK
  <2>3. SnapshotFollowsSelection'
    BY DEF BasisInv, SnapshotFollowsSelection, Id
  <2> QED BY <2>2, <2>3
<1>5. FoundedOK' /\ MatchedOK'
  BY DEF FoundedOK, MatchedOK, Id
<1>6. ValidOK' /\ SelectedOK'
  BY <1>2 DEF ValidOK, SelectedOK, Id
<1>7. DoneOK' /\ PlaceOK'
  BY <1>2 DEF DoneOK, PlaceOK, Done
<1> QED BY <1>1, <1>3, <1>4, <1>5, <1>6, <1>7 DEF BasisInv

LEMMA QuietKeepsHistory ==
    ASSUME HistoryInv, WorkflowInv', CarriedOK', LateTyped', NEW c, Sound(c),
           Early(c) \/ GenerateSimulated(c)
    PROVE  HistoryInv'
<1>1. TypeOK'
  BY EarlyTypes DEF HistoryInv, BasisInv
<1>2. /\ artifacts' = artifacts /\ active' = active /\ invalidated' = invalidated
      /\ assets' = assets /\ stage' = stage /\ revision' = revision + 1
  BY DEF Early, GenerateStrategy, RequestApproval, GenerateScript, TakeOver, AssignOwner,
         GenerateSimulated, history, workflow, contents, Advance
<1>3. status' = "confirmed" <=> status = "confirmed"
  BY DEF Early, GenerateStrategy, RequestApproval, GenerateScript, TakeOver, AssignOwner,
         GenerateSimulated, workflow
<1>4. ScriptedOK'
  <2> USE DEF HistoryInv, ScriptedOK
  <2>1. CASE GenerateScript(c)
    <3>1. active[Script] = 0
      BY <2>1 DEF GenerateScript
    <3> QED BY <1>2, <3>1
  <2>2. CASE GenerateSimulated(c)
    BY <1>2, <2>2 DEF GenerateSimulated, Simulated, Storyboard, Delivery, Script
  <2>3. CASE RequestApproval(c)
    BY <1>2, <2>3 DEF RequestApproval, Strategy, Script
  <2>4. CASE GenerateStrategy(c) \/ TakeOver(c) \/ AssignOwner(c)
    BY <1>2, <2>4 DEF GenerateStrategy, TakeOver, AssignOwner, workflow, contents
  <2> QED BY <2>1, <2>2, <2>3, <2>4 DEF Early
<1> QED BY <1>1, <1>2, <1>3, <1>4, NothingMoved

-----------------------------------------------------------------------------
(* A confirmation *)

\* Its version is new, and rests on what is selected before it.
LEMMA ConfirmedIs ==
    ASSUME HistoryInv, WorkflowInv', NEW c, Sound(c), ConfirmStage(c)
    PROVE  \E n \in Artifacts :
              /\ artifacts' = artifacts \union {n}
              /\ n.stage = stage /\ n.version # 0 /\ n.at = revision + 1
              /\ Id(n) = <<stage, n.version>>
              /\ n.version = NextVersion(stage)
              /\ \A a \in artifacts : Id(a) # Id(n) /\ a.on # Id(n)
              /\ n.on # Id(n)
              /\ n.on = IF stage = Strategy THEN NoUpstream
                        ELSE <<stage - 1, active[stage - 1]>>
              /\ stage # Strategy => active[stage - 1] # 0
              /\ n.assets <= revision + 1
              /\ n.assets = SnapshotFor(stage)
              /\ active' = [active EXCEPT ![stage] = n.version]
              /\ stage = AssetMatching => assets' = n.assets
<1> USE DEF HistoryInv, BasisInv
<1>1. PICK n : n = Confirmed(c)
  OBVIOUS
<1>2. /\ stage \in Stages /\ revision \in 1 .. MaxRevision
      /\ active \in [Stages -> 0 .. MaxRevision]
  BY DEF TypeOK
<1>3. /\ artifacts' = artifacts \union {n} /\ revision < MaxRevision
      /\ active' = [active EXCEPT ![stage] = NextVersion(stage)]
      /\ stage = AssetMatching => assets' = SnapshotFor(stage)
      /\ stage # Strategy => ValidSelected(stage - 1)
      /\ c.stage = stage
  BY <1>1 DEF ConfirmStage, OwnerOf, Current
<1>4. /\ n.stage = stage /\ n.version = NextVersion(stage) /\ n.at = revision + 1
      /\ n.assets = SnapshotFor(stage)
      /\ n.on = IF stage = Strategy THEN NoUpstream ELSE <<stage - 1, active[stage - 1]>>
      /\ n = [stage |-> n.stage, version |-> n.version, on |-> n.on, assets |-> n.assets,
              content |-> n.content, seen |-> n.seen, at |-> n.at]
      /\ n.content = Derived(stage) /\ n.seen = c.seen
  BY <1>1 DEF Confirmed
<1>5. NextVersion(stage) \in 1 .. MaxRevision /\ NextVersion(stage) \notin Versions(stage)
  BY <1>2, <1>3, NextVersionIsNew, BoundsAssumption
<1>6. stage # Strategy => stage - 1 \in Stages /\ active[stage - 1] # 0
  BY <1>2, <1>3 DEF ValidSelected, Stages, Strategy, Delivery
<1>7. n.on \in Identities \union {NoUpstream}
  BY <1>2, <1>4, <1>6 DEF Identities
<1>8. n.assets \in Nat /\ n.assets <= revision + 1
  <2> DEFINE S == {0} \union {a.assets : a \in artifacts}
  <2>1. S \in SUBSET Nat /\ \A x \in S : x <= revision
    BY <1>2, VersionTypes DEF SnapshotsOK
  <2>2. S # {} /\ revision \in Nat
    BY <1>2
  <2>3. Max(S) \in S /\ \A x \in S : Max(S) >= x
    <3> HIDE DEF S
    <3>1. \E m \in S : \A x \in S : x <= m
      BY <2>1, <2>2, GreatestExists
    <3> QED BY <2>1, <3>1 DEF Max
  <2>4. Max(S) \in Nat /\ Max(S) <= revision
    BY <2>1, <2>3
  <2>5. assets \in Nat /\ assets <= revision
    <3>1. CASE active[AssetMatching] = 0
      BY <1>2, <3>1 DEF SnapshotFollowsSelection
    <3>2. CASE active[AssetMatching] # 0
      <4>1. AssetMatching \in Stages
        BY DEF Stages, Strategy, AssetMatching, Delivery
      <4>2. PICK b \in artifacts : Id(b) = <<AssetMatching, active[AssetMatching]>>
        BY <3>2, <4>1 DEF WorkflowInv, SelectionOK
      <4> QED BY <1>2, <4>2, VersionTypes DEF SnapshotFollowsSelection, SnapshotsOK
    <3> QED BY <3>1, <3>2
  <2>6. SnapshotFor(stage) = IF stage < AssetMatching THEN 0
                             ELSE IF stage = AssetMatching THEN 1 + Max(S) ELSE assets
    <3>1. CASE stage < AssetMatching
      <4>1. stage # AssetMatching
        BY <3>1 DEF AssetMatching
      <4> QED BY <3>1, <4>1 DEF SnapshotFor
    <3>2. CASE stage = AssetMatching
      <4>1. ~ (stage < AssetMatching)
        BY <3>2 DEF AssetMatching
      <4> QED BY <3>2, <4>1 DEF SnapshotFor
    <3>3. CASE ~ (stage < AssetMatching) /\ stage # AssetMatching
      BY <3>3 DEF SnapshotFor
    <3> QED BY <3>1, <3>2, <3>3
  <2> HIDE DEF S
  <2> QED BY <1>2, <1>4, <2>4, <2>5, <2>6
<1>9. n.content \in Nat /\ n.seen \in Nat
  BY <1>2, <1>4, DerivedIsNat DEF Sound, CommandSet
<1>10. n \in Artifacts
  <2>1. n.at \in 1 .. MaxRevision
    BY <1>2, <1>3, <1>4, BoundsAssumption
  <2> QED BY <1>2, <1>4, <1>5, <1>7, <1>8, <1>9, <2>1 DEF Artifacts
<1>11. Id(n) = <<stage, n.version>>
  BY <1>4 DEF Id
<1>12. \A a \in artifacts : Id(a) # Id(n)
  BY <1>4, <1>5, <1>11 DEF Id, Versions
<1>13. \A a \in artifacts : a.on # Id(n)
  <2> SUFFICES ASSUME NEW a \in artifacts, a.on = Id(n) PROVE FALSE
    OBVIOUS
  <2>1. a.on # NoUpstream
    BY <1>2, <1>11 DEF NoUpstream, Stages, Strategy, Delivery
  <2> QED BY <1>12, <2>1 DEF WorkflowInv, BasisOK
<1>14. n.on # Id(n)
  BY <1>2, <1>4, <1>11 DEF NoUpstream, Stages, Strategy, Delivery
<1>15. n.version # 0
  BY <1>4, <1>5
<1> QED BY <1>3, <1>4, <1>6, <1>8, <1>10, <1>11, <1>12, <1>13, <1>14, <1>15

LEMMA AfterIs ==
    ASSUME NEW s \in Stages
    PROVE  /\ After(s)[1] \in Stages /\ After(s)[2] \in {"in_progress", "confirmed"}
           /\ After(s)[1] # Strategy
           /\ After(s)[2] = "confirmed" => After(s)[1] = Delivery /\ s = Delivery
           /\ After(s)[2] # "confirmed" => After(s)[1] = s + 1
  BY DEF After, Stages, Strategy, Delivery

LEMMA ConfirmKeepsHistory ==
    ASSUME HistoryInv, WorkflowInv', CarriedOK', LateTyped', NEW c, Sound(c), ConfirmStage(c)
    PROVE  HistoryInv'
<1> USE DEF HistoryInv, BasisInv
<1>1. PICK n \in Artifacts :
              /\ artifacts' = artifacts \union {n}
              /\ n.stage = stage /\ n.version # 0 /\ n.at = revision + 1
              /\ Id(n) = <<stage, n.version>>
              /\ n.version = NextVersion(stage)
              /\ \A a \in artifacts : Id(a) # Id(n) /\ a.on # Id(n)
              /\ n.on # Id(n)
              /\ n.on = IF stage = Strategy THEN NoUpstream
                        ELSE <<stage - 1, active[stage - 1]>>
              /\ stage # Strategy => active[stage - 1] # 0
              /\ n.assets <= revision + 1
              /\ n.assets = SnapshotFor(stage)
              /\ active' = [active EXCEPT ![stage] = n.version]
              /\ stage = AssetMatching => assets' = n.assets
  BY ConfirmedIs
<1>2. /\ stage \in Stages /\ revision \in 1 .. MaxRevision
      /\ active \in [Stages -> 0 .. MaxRevision]
      /\ n.version \in 1 .. MaxRevision /\ n.assets \in Nat
  BY <1>1 DEF TypeOK, Artifacts
<1>3. /\ invalidated' = invalidated /\ reopened' = reopened
      /\ owner' = owner /\ transfers' = transfers
      /\ draft' = draft /\ script' = script /\ generated' = generated /\ pool' = pool
      /\ revision' = revision + 1 /\ revision < MaxRevision
      /\ stage' = After(stage)[1] /\ status' = After(stage)[2]
      /\ status # "confirmed"
      /\ stage # AssetMatching => assets' = assets
      /\ stage = Script => status = "awaiting_confirmation" /\ script # 0
  <2>1. stage = Script => status = "awaiting_confirmation" /\ script # 0
    BY DEF ConfirmStage, Confirmable, Script, AssetMatching
  <2> QED BY <2>1 DEF ConfirmStage, Advance, MoveTo, OwnerOf, Current, contents, TaskActive,
                      ownership
<1>4. /\ After(stage)[1] \in Stages /\ After(stage)[2] \in {"in_progress", "confirmed"}
      /\ After(stage)[1] # Strategy
      /\ After(stage)[2] = "confirmed" => After(stage)[1] = Delivery /\ stage = Delivery
      /\ After(stage)[2] # "confirmed" => After(stage)[1] = stage + 1
  BY <1>2, AfterIs
<1>5. /\ active' \in [Stages -> 0 .. MaxRevision] /\ active'[stage] = n.version
      /\ \A s \in Stages : s # stage => active'[s] = active[s]
  BY <1>1, <1>2
<1>6. TypeOK'
  <2>1. artifacts' \subseteq Artifacts
    BY <1>1 DEF TypeOK
  <2>2. \A a, b \in artifacts' : Id(a) = Id(b) => a = b
    BY <1>1 DEF TypeOK
  <2>3. invalidated' \subseteq {Id(a) : a \in artifacts'} /\ reopened' \subseteq invalidated'
    BY <1>1, <1>3 DEF TypeOK
  <2>4. revision' \in 1 .. MaxRevision
    BY <1>2, <1>3, BoundsAssumption
  <2>5. assets' \in Nat
    BY <1>1, <1>2, <1>3 DEF TypeOK
  <2>6. /\ stage' \in Stages
        /\ status' \in {"in_progress", "awaiting_confirmation", "confirmed"}
        /\ status' = "confirmed" => stage' = Delivery
    BY <1>3, <1>4
  <2>7. /\ owner' \in Accounts /\ transfers' \in 0 .. MaxTransfers
        /\ draft' \in [content : Nat, status : {"none", "draft", "awaiting_confirmation"}]
        /\ script' \in Nat /\ generated' \in [Simulated -> Nat] /\ pool' \in 1 .. MaxPool
    BY <1>3 DEF TypeOK
  <2> QED BY <2>1, <2>2, <2>3, <2>4, <2>5, <2>6, <2>7, <1>5 DEF TypeOK, LateTyped, Id
<1>7. IsFiniteSet(artifacts')
  <2>1. IsFiniteSet(artifacts \cup {n})
    BY FS_AddElement
  <2> QED BY <1>1, <2>1
<1>8. FormerOrder \subseteq FormerOrder'
  <2>1. artifacts \subseteq artifacts'
    BY <1>1
  <2> QED BY <1>7, <2>1, FormerGrows
<1>9. OrderOK'
  <2>1. \A a \in artifacts :
        /\ a.stage = Strategy => a.version = 1 /\ a.on = NoUpstream
        /\ a.stage = Script => a.on[1] \in {Strategy, AssetMatching}
        /\ a.stage = AssetMatching =>
              \/ a.on[1] = Script
              \/ a.on[1] = Strategy /\ a.version = 1
        /\ a.stage \in Simulated => a.on[1] = a.stage - 1
    BY DEF OrderOK
  <2>2. n.stage = Strategy => n.version = 1 /\ n.on = NoUpstream
    <3> SUFFICES ASSUME stage = Strategy PROVE n.version = 1 /\ n.on = NoUpstream
      BY <1>1
    <3>1. artifacts = {}
      BY DEF FoundedOK
    <3>2. {0} \union Versions(stage) = {0}
      BY <3>1 DEF Versions
    <3>3. Max({0}) = 0
      BY DEF Max
    <3>4. NextVersion(stage) = 1
      BY <3>2, <3>3 DEF NextVersion
    <3> QED BY <1>1, <3>4
  <2>3. stage # Strategy => n.on[1] = stage - 1
    BY <1>1
  <2>4. /\ n.stage = Script => n.on[1] \in {Strategy, AssetMatching}
        /\ n.stage = AssetMatching => n.on[1] = Script
        /\ n.stage \in Simulated => n.on[1] = n.stage - 1
    BY <1>1, <2>3 DEF Strategy, Script, AssetMatching, Simulated, Storyboard, Delivery
  <2> QED BY <1>1, <2>1, <2>2, <2>4 DEF OrderOK
<1>10. FormerOK'
  <2> SUFFICES ASSUME NEW a \in artifacts', NEW b \in artifacts',
                      a.stage = Script, b.stage = AssetMatching, a.on = Id(b)
               PROVE  b.on[1] = Strategy
    BY DEF FormerOK, Id
  <2>1. CASE a \in artifacts
    BY <1>1, <2>1 DEF FormerOK
  <2>2. CASE a = n
    <3>1. n.on = <<stage - 1, active[stage - 1]>> /\ stage = Script
      BY <1>1, <2>2 DEF Strategy, Script
    <3>2. Id(b) = <<b.stage, b.version>>
      BY DEF Id
    <3> QED BY <2>2, <3>1, <3>2 DEF Script, AssetMatching
  <2> QED BY <1>1, <2>1, <2>2
<1>11. OlderOK' /\ SnapshotsOK'
  <2>1. \A a \in artifacts : a.at \in Nat /\ a.at <= revision /\ a.assets <= revision
                             /\ a.assets \in Nat
    BY VersionTypes DEF WorkflowInv, VersionsOK, SnapshotsOK
  <2>2. OlderOK'
    <3> SUFFICES ASSUME NEW a \in artifacts', NEW b \in artifacts', a.on = Id(b)
                 PROVE  b.at < a.at
      BY DEF OlderOK, Id
    <3>1. CASE a \in artifacts
      BY <1>1, <3>1 DEF OlderOK
    <3>2. CASE a = n
      BY <1>1, <1>2, <2>1, <3>2
    <3> QED BY <1>1, <3>1, <3>2
  <2>3. SnapshotsOK'
    BY <1>1, <1>2, <1>3, <2>1 DEF SnapshotsOK
  <2> QED BY <2>2, <2>3
<1>12. SnapshotFollowsSelection'
  <2>1. AssetMatching \in Stages
    BY DEF Stages, Strategy, AssetMatching, Delivery
  <2>2. CASE stage = AssetMatching
    <3>1. active'[AssetMatching] # 0
      BY <1>1, <1>5, <2>2
    <3>2. \A a \in artifacts' : Id(a) = <<AssetMatching, n.version>> => a = n
      BY <1>1, <2>2
    <3> QED BY <1>1, <1>5, <2>2, <3>1, <3>2 DEF SnapshotFollowsSelection, Id
  <2>3. CASE stage # AssetMatching
    <3>1. active'[AssetMatching] = active[AssetMatching] /\ assets' = assets
      BY <1>3, <1>5, <2>1, <2>3
    <3>2. Id(n) # <<AssetMatching, active[AssetMatching]>>
      BY <1>1, <2>3
    <3> QED BY <1>1, <3>1, <3>2 DEF SnapshotFollowsSelection, Id
  <2> QED BY <2>2, <2>3
<1>13. FoundedOK'
  <2>1. stage' # Strategy
    BY <1>3, <1>4
  <2>2. ASSUME NEW r \in Stages, r <= stage' \/ active'[r] # 0,
               NEW s \in {Strategy, Script}, s < r
        PROVE  active'[s] # 0
    <3>0. s \in Stages /\ s < r
      BY <2>2 DEF Stages, Strategy, Script, Delivery
    <3>1. CASE s = stage
      BY <1>1, <1>5, <3>0, <3>1
    <3>2. CASE s # stage
      <4>1. r <= stage \/ active[r] # 0 \/ s < stage
        BY <1>1, <1>2, <1>3, <1>4, <1>5, <2>2, <3>0, <3>2 DEF Stages, Strategy, Delivery
      <4>2. active[s] # 0
        BY <1>2, <2>2, <3>0, <4>1 DEF FoundedOK, Stages, Strategy, Delivery
      <4> QED BY <1>5, <3>0, <3>2, <4>2
    <3> QED BY <3>1, <3>2
  <2> QED BY <2>1, <2>2 DEF FoundedOK
<1>14. ScriptedOK'
  <2>0. Script \in Stages
    BY DEF Stages, Strategy, Script, Delivery
  <2>1. active'[Script] # 0 => script' # 0
    BY <1>3, <1>5, <2>0 DEF ScriptedOK
  <2> QED BY <1>3, <1>4, <2>1 DEF ScriptedOK
<1>15. MatchedOK'
  <2>0. Script \in Stages
    BY DEF Stages, Strategy, Script, Delivery
  <2> SUFFICES ASSUME NEW a \in artifacts', a.stage = AssetMatching, a.on[1] = Script,
                      Id(a) \notin invalidated
               PROVE  a.on[2] = active'[Script]
    BY <1>3 DEF MatchedOK, Id
  <2>1. CASE a = n
    <3>1. stage = AssetMatching /\ n.on = <<stage - 1, active[stage - 1]>> /\ stage - 1 = Script
      BY <1>1, <2>1 DEF Strategy, Script, AssetMatching
    <3> QED BY <1>5, <2>0, <2>1, <3>1 DEF Script, AssetMatching
  <2>2. CASE a \in artifacts /\ stage # Script
    BY <1>5, <2>0, <2>2 DEF MatchedOK
  <2>3. CASE a \in artifacts /\ stage = Script
    <3>1. a.on[2] = 0
      BY <1>3, <2>3 DEF MatchedOK, ScriptedOK
    <3>2. a.on # NoUpstream
      <4>1. NoUpstream[1] = 0
        BY DEF NoUpstream
      <4> QED BY <4>1 DEF Script
    <3> QED BY <2>3, <3>1, <3>2, VersionTypes
  <2> QED BY <1>1, <2>1, <2>2, <2>3
<1>16. ValidOK'
  <2> SUFFICES ASSUME NEW a \in artifacts', Id(a) \notin invalidated,
                      Id(a) \notin FormerOrder', a.on # NoUpstream
               PROVE  a.on[2] = active'[a.on[1]]
    BY <1>3 DEF ValidOK, Id
  <2>1. CASE a = n
    <3>1. stage # Strategy /\ n.on = <<stage - 1, active[stage - 1]>>
      BY <1>1, <2>1
    <3>2. stage - 1 \in Stages /\ stage - 1 # stage
      BY <1>2, <3>1 DEF Stages, Strategy, Delivery
    <3> QED BY <1>5, <2>1, <3>1, <3>2
  <2>2. CASE a \in artifacts
    <3>1. Id(a) \notin FormerOrder
      BY <1>8
    <3>2. a.on[2] = active[a.on[1]] /\ a.on[1] \in Stages /\ a.on[2] # 0
          /\ a.on = <<a.on[1], a.on[2]>>
      BY <2>2, <3>1, VersionTypes DEF ValidOK
    <3>3. CASE a.on[1] = stage
      <4>1. <<stage, active[stage]>> \in FormerOrder
        BY <1>2, <1>3, <3>2, <3>3 DEF PlaceOK, Done, Stages, Strategy, Delivery
      <4> QED BY <2>2, <3>1, <3>2, <3>3, <4>1, FormerIs
    <3>4. CASE a.on[1] # stage
      BY <1>5, <3>2, <3>4
    <3> QED BY <3>3, <3>4
  <2> QED BY <1>1, <2>1, <2>2
<1>17. SelectedOK'
  <2>1. <<stage, n.version>> \notin invalidated
    BY <1>1 DEF TypeOK
  <2> QED BY <1>3, <1>5, <2>1 DEF SelectedOK
<1>18. DoneOK'
  <2> SUFFICES ASSUME NEW s \in Stages, Done(s)', active'[s] = 0
               PROVE  s >= AssetMatching
                      /\ \E t \in Stages : t > s /\ <<t, active'[t]>> \in FormerOrder'
    BY DEF DoneOK, Done
  <2>1. s # stage /\ active[s] = 0
    BY <1>1, <1>5
  <2>2. s < stage
    BY <1>2, <1>3, <1>4, <2>1 DEF Done, Stages, Strategy, Delivery
  <2>3. s >= AssetMatching
        /\ \E t \in Stages : t > s /\ <<t, active[t]>> \in FormerOrder
    BY <2>1, <2>2 DEF DoneOK, Done
  <2>4. stage - 1 \in Stages /\ stage # Strategy /\ s <= stage - 1 /\ stage - 1 # stage
    BY <1>2, <2>2 DEF Stages, Strategy, Delivery
  <2>5. ~ Canonical(stage - 1)
    <3> SUFFICES ASSUME Canonical(stage - 1) PROVE FALSE
      OBVIOUS
    <3>1. Canonical(s)
      BY <2>4, AllDown
    <3> QED BY <2>1, <3>1 DEF Canonical
  <2>6. <<stage - 1, active[stage - 1]>> \in FormerOrder
    BY <1>1, <2>4, <2>5 DEF Canonical
  <2>7. s # stage - 1
    BY <1>1, <2>1, <2>4
  <2>8. <<stage - 1, active'[stage - 1]>> \in FormerOrder' /\ stage - 1 > s
    BY <1>2, <1>5, <1>8, <2>4, <2>6, <2>7 DEF Stages, Strategy, Delivery
  <2> QED BY <2>3, <2>4, <2>8
<1>19. PlaceOK'
  <2> SUFFICES ASSUME NEW s \in Stages, active'[s] # 0, ~ Done(s)'
               PROVE  <<s, active'[s]>> \in FormerOrder'
    BY DEF PlaceOK, Done
  <2>1. s # stage /\ ~ (s < stage)
    BY <1>2, <1>3, <1>4 DEF Done, Stages, Strategy, Delivery
  <2>2. active'[s] = active[s] /\ ~ Done(s)
    BY <1>3, <1>5, <2>1 DEF Done
  <2> QED BY <1>8, <2>2 DEF PlaceOK
<1> QED BY <1>6, <1>7, <1>9, <1>10, <1>11, <1>12, <1>13, <1>14, <1>15, <1>16, <1>17, <1>18, <1>19

-----------------------------------------------------------------------------
(* A rollback or a reopening *)

\* Every selected version that is not former stands on a chain of such.
Chained ==
    \A s \in Stages : Canonical(s) =>
        \A t \in Stages : t <= s =>
            /\ Canonical(t)
            /\ t # Strategy => \E a \in artifacts :
                  Id(a) = <<t, active[t]>> /\ a.on = <<t - 1, active[t - 1]>>

LEMMA ChainedAlways == BasisInv /\ ValidOK /\ SelectedOK => Chained
  BY AllDown DEF Chained

\* The versions themselves stay, and what stays valid keeps its basis selected.
Cut(f) ==
    /\ f \in artifacts
    /\ Downstream(Id(f)) \subseteq invalidated' /\ invalidated \subseteq invalidated'
    /\ \A s \in Stages :
          <<s, active[s]>> \notin {Id(f)} \union Downstream(Id(f)) => active'[s] = active[s]

LEMMA CutKeepsValid ==
    ASSUME HistoryInv, artifacts' = artifacts, revision' = revision + 1, NEW f, Cut(f)
    PROVE  /\ FormerOrder' = FormerOrder /\ IsFiniteSet(artifacts')
           /\ OrderOK' /\ FormerOK' /\ OlderOK' /\ SnapshotsOK'
           /\ ValidOK' /\ MatchedOK'
<1> USE DEF HistoryInv, BasisInv, Cut
<1>1. IsFiniteSet(artifacts')
  OBVIOUS
<1>2. FormerOrder' = FormerOrder
  BY DEF FormerOrder
<1>3. OrderOK' /\ FormerOK' /\ OlderOK'
  BY DEF OrderOK, FormerOK, OlderOK, Id
<1>4. SnapshotsOK'
  <2>1. revision \in Nat /\ \A a \in artifacts : a.assets \in Nat
    BY VersionTypes DEF TypeOK
  <2> QED BY <2>1 DEF SnapshotsOK
<1>5. ASSUME NEW a \in artifacts, Id(a) \notin invalidated', a.on[1] \in Stages,
             a.on[2] = active[a.on[1]]
      PROVE  active'[a.on[1]] = active[a.on[1]]
  <2>1. Id(a) \notin invalidated /\ Id(a) \notin Downstream(Id(f))
    BY <1>5
  <2>2. a.on # Id(f) /\ a.on \notin Downstream(Id(f))
    BY <2>1, UntouchedIs
  <2>3. a.on = <<a.on[1], active[a.on[1]]>>
    BY <1>5, VersionTypes
  <2> QED BY <1>5, <2>2, <2>3
<1>6. ValidOK'
  <2> SUFFICES ASSUME NEW a \in artifacts, Id(a) \notin invalidated',
                      Id(a) \notin FormerOrder, a.on # NoUpstream
               PROVE  a.on[2] = active'[a.on[1]]
    BY <1>2 DEF ValidOK, Id
  <2>1. a.on[1] \in Stages /\ a.on[2] = active[a.on[1]]
    BY VersionTypes DEF ValidOK
  <2> QED BY <1>5, <2>1
<1>7. MatchedOK'
  <2> SUFFICES ASSUME NEW a \in artifacts, Id(a) \notin invalidated',
                      a.stage = AssetMatching, a.on[1] = Script
               PROVE  a.on[2] = active'[Script]
    BY DEF MatchedOK, Id
  <2>1. Script \in Stages
    BY DEF Stages, Strategy, Script, Delivery
  <2>2. a.on[2] = active[Script]
    BY DEF MatchedOK
  <2> QED BY <1>5, <2>1, <2>2
<1> QED BY <1>1, <1>2, <1>3, <1>4, <1>6, <1>7

LEMMA ReopenKeepsHistory ==
    ASSUME HistoryInv, WorkflowInv', CarriedOK', LateTyped', NEW c, Sound(c),
           ReopenAssetMatching(c)
    PROVE  HistoryInv'
<1> USE DEF HistoryInv, BasisInv
<1>0. /\ AssetMatching \in Stages /\ Strategy \in Stages /\ Script \in Stages
      /\ AssetMatching = 3 /\ Strategy = 1 /\ Script = 2 /\ Storyboard = 4 /\ Stages = 1 .. 6
  BY DEF Stages, Strategy, Script, AssetMatching, Storyboard, Delivery
<1>1. PICK root : root = <<AssetMatching, active[AssetMatching]>>
  OBVIOUS
<1>2. PICK gone : gone = {root} \union Downstream(root)
  OBVIOUS
<1>3. /\ artifacts' = artifacts /\ revision' = revision + 1 /\ revision < MaxRevision
      /\ stage = Storyboard /\ stage' = AssetMatching /\ status' = "in_progress"
      /\ active[AssetMatching] # 0 /\ Selected(AssetMatching).on[1] = Script
      /\ active' = Deselect(active, gone) /\ assets' = 0
      /\ invalidated' = invalidated \union gone /\ reopened' = reopened \union gone
      /\ owner' = owner /\ transfers' = transfers
      /\ draft' = draft /\ script' = script /\ generated' = generated /\ pool' = pool
  BY <1>1, <1>2 DEF ReopenAssetMatching, OwnerOf, Current, Advance, MoveTo, ValidSelected,
                    ownership, contents
<1>4. PICK f \in artifacts : Id(f) = root /\ f.stage = AssetMatching /\ f.on[1] = Script
  <2>1. \E b \in artifacts : Id(b) = <<AssetMatching, active[AssetMatching]>>
    BY <1>0, <1>3 DEF WorkflowInv, SelectionOK
  <2>2. PICK b : b = Selected(AssetMatching)
    OBVIOUS
  <2>3. b \in artifacts /\ Id(b) = <<AssetMatching, active[AssetMatching]>>
    BY <2>1, <2>2 DEF Selected
  <2> QED BY <1>1, <1>3, <2>2, <2>3 DEF Id
<1>5. \A y \in gone : y[1] >= AssetMatching
  <2>1. f.stage >= AssetMatching /\ f.on[1] # Strategy
    BY <1>0, <1>4
  <2>2. \A y \in Downstream(Id(f)) : y[1] >= AssetMatching
    BY <2>1, FoundationsUntouched
  <2> QED BY <1>0, <1>1, <1>2, <1>4, <2>2
<1>6. /\ \A s \in Stages : <<s, active[s]>> \notin gone => active'[s] = active[s]
      /\ \A s \in Stages : <<s, active[s]>> \in gone => active'[s] = 0
      /\ \A s \in Stages : active'[s] \in {0, active[s]}
      /\ active' \in [Stages -> 0 .. MaxRevision]
  <2>1. active \in [Stages -> 0 .. MaxRevision] /\ 0 \in 0 .. MaxRevision
    BY BoundsAssumption DEF TypeOK
  <2> QED BY <1>3, <2>1 DEF Deselect
<1>7. active'[AssetMatching] = 0 /\ active'[Strategy] # 0 /\ active'[Script] # 0
  <2>1. active[Strategy] # 0 /\ active[Script] # 0
    BY <1>0, <1>3 DEF FoundedOK
  <2>2. <<Strategy, active[Strategy]>> \notin gone /\ <<Script, active[Script]>> \notin gone
    BY <1>0, <1>5
  <2> QED BY <1>0, <1>1, <1>2, <1>6, <2>1, <2>2
<1>8. TypeOK'
  <2>1. invalidated' \subseteq {Id(a) : a \in artifacts'} /\ reopened' \subseteq invalidated'
    <3>1. Downstream(root) \subseteq {Id(a) : a \in artifacts}
      BY <1>4, DownstreamIs DEF Valid
    <3> QED BY <1>2, <1>3, <1>4, <3>1 DEF TypeOK
  <2>2. revision' \in 1 .. MaxRevision
    BY <1>3, BoundsAssumption DEF TypeOK
  <2>3. /\ owner' \in Accounts /\ transfers' \in 0 .. MaxTransfers
        /\ draft' \in [content : Nat, status : {"none", "draft", "awaiting_confirmation"}]
        /\ script' \in Nat /\ generated' \in [Simulated -> Nat] /\ pool' \in 1 .. MaxPool
        /\ artifacts' \subseteq Artifacts
        /\ \A a, b \in artifacts' : Id(a) = Id(b) => a = b
    BY <1>3 DEF TypeOK
  <2> QED BY <1>0, <1>3, <1>6, <2>1, <2>2, <2>3 DEF TypeOK, LateTyped, Id
<1>9. Cut(f)
  BY <1>2, <1>3, <1>4, <1>6 DEF Cut
<1>10. /\ FormerOrder' = FormerOrder /\ IsFiniteSet(artifacts')
       /\ OrderOK' /\ FormerOK' /\ OlderOK' /\ SnapshotsOK' /\ ValidOK' /\ MatchedOK'
  BY <1>3, <1>9, CutKeepsValid
<1>11. SnapshotFollowsSelection'
  <2>1. \A a \in artifacts : Id(a) # <<AssetMatching, 0>>
    BY VersionTypes
  <2> QED BY <1>3, <1>7, <2>1 DEF SnapshotFollowsSelection, Id
<1>12. FoundedOK'
  BY <1>0, <1>3, <1>7 DEF FoundedOK
<1>13. ScriptedOK'
  BY <1>0, <1>3, <1>6 DEF ScriptedOK
<1>14. SelectedOK'
  BY <1>3, <1>6 DEF SelectedOK
<1>15. Chained'
  <2>1. (BasisInv /\ ValidOK /\ SelectedOK => Chained)'
    BY ChainedAlways, PTL
  <2> QED BY <1>8, <1>10, <1>11, <1>14, <2>1
<1>16. DoneOK'
  BY <1>0, <1>3, <1>7 DEF DoneOK, Done
<1>17. PlaceOK'
  <2> SUFFICES ASSUME NEW s \in Stages, active'[s] # 0, ~ (s < AssetMatching),
                      <<s, active'[s]>> \notin FormerOrder'
               PROVE  FALSE
    BY <1>3 DEF PlaceOK, Done
  <2>1. AssetMatching <= s
    BY <1>0
  <2> QED BY <1>0, <1>7, <1>15, <2>1 DEF Chained, Canonical
<1> QED BY <1>8, <1>10, <1>11, <1>12, <1>13, <1>14, <1>16, <1>17

\* Work goes on after the stage, at the end, or at the first stage not in place.
LEMMA ResumedIs ==
    ASSUME NEW selection, NEW r \in Stages, NEW gone
    PROVE  \/ /\ gone = {}
              /\ Resumed(selection, r, gone) = After(r)
           \/ /\ gone # {}
              /\ \A t \in Stages : InPlace(selection, t)
              /\ Resumed(selection, r, gone) = <<Delivery, "confirmed">>
           \/ /\ gone # {}
              /\ \E u \in Stages :
                    /\ ~ InPlace(selection, u)
                    /\ \A t \in Stages : t < u => InPlace(selection, t)
                    /\ Resumed(selection, r, gone) = <<u, "in_progress">>
<1>1. PICK U : U = {t \in Stages : ~ InPlace(selection, t)}
  OBVIOUS
<1>2. Resumed(selection, r, gone) =
        IF gone = {} THEN After(r) ELSE IF U = {} THEN After(Delivery)
        ELSE <<Min(U), "in_progress">>
  BY <1>1 DEF Resumed
<1>3. CASE gone = {}
  BY <1>2, <1>3
<1>4. CASE gone # {} /\ U = {}
  BY <1>1, <1>2, <1>4 DEF After
<1>5. CASE gone # {} /\ U # {}
  <2>1. U \in SUBSET Nat /\ U \subseteq Stages
    BY <1>1 DEF Stages, Strategy, Delivery
  <2>2. Min(U) \in U /\ \A x \in U : Min(U) <= x
    <3>1. \E m \in U : \A x \in U : m <= x
      <4>1. PICK m \in U : \A x \in U : ~ (<<x, m>> \in Less)
        BY <1>5, <2>1, NatLessThanWellFounded, WFMin DEF Less
      <4>2. \A x \in U : ~ (x < m)
        BY <2>1, <4>1 DEF Less, OpToRel
      <4>3. \A x \in U : x \in Nat
        BY <2>1
      <4> QED BY <4>2, <4>3
    <3> QED BY <3>1 DEF Min
  <2>3. \A t \in Stages : t < Min(U) => InPlace(selection, t)
    <3> SUFFICES ASSUME NEW t \in Stages, t < Min(U), ~ InPlace(selection, t) PROVE FALSE
      OBVIOUS
    <3>1. t \in U
      BY <1>1
    <3>2. Min(U) <= t /\ Min(U) \in Nat /\ t \in Nat
      BY <2>1, <2>2, <3>1
    <3> QED BY <3>2
  <2>4. Resumed(selection, r, gone) = <<Min(U), "in_progress">>
    BY <1>2, <1>5
  <2> QED BY <1>1, <1>5, <2>1, <2>2, <2>3, <2>4
<1> QED BY <1>3, <1>4, <1>5

LEMMA RollbackKeepsHistory ==
    ASSUME HistoryInv, WorkflowInv', CarriedOK', LateTyped', NEW c, Sound(c), RollbackStage(c)
    PROVE  HistoryInv'
<1> USE DEF HistoryInv, BasisInv
<1>0. /\ AssetMatching \in Stages /\ Strategy \in Stages /\ Script \in Stages
      /\ AssetMatching = 3 /\ Strategy = 1 /\ Script = 2 /\ Delivery = 6 /\ Stages = 1 .. 6
  BY DEF Stages, Strategy, Script, AssetMatching, Delivery
<1>v. PICK v : v = c.target
  OBVIOUS
<1>r. PICK r \in Stages : r = c.stage
  BY DEF Sound, CommandSet
<1>1. PICK from : from = <<r, active[r]>>
  OBVIOUS
<1>2. PICK gone : gone = Downstream(from)
  OBVIOUS
<1>3. PICK selection : selection = Deselect([active EXCEPT ![r] = v], gone)
  OBVIOUS
<1>4. /\ artifacts' = artifacts /\ revision' = revision + 1 /\ revision < MaxRevision
      /\ active[r] # 0 /\ from \notin invalidated
      /\ v \in Versions(r) /\ v # active[r] /\ <<r, v>> \notin invalidated
      /\ selection[r] = v
      /\ active' = selection /\ assets' = SnapshotOf(selection)
      /\ invalidated' = invalidated \union gone /\ reopened' = reopened
      /\ stage' = Resumed(selection, r, gone)[1]
      /\ status' = Resumed(selection, r, gone)[2]
      /\ owner' = owner /\ transfers' = transfers
      /\ draft' = draft /\ script' = script /\ generated' = generated /\ pool' = pool
  BY <1>v, <1>r, <1>1, <1>2, <1>3
     DEF RollbackStage, OwnerOf, Current, Advance, MoveTo, ValidSelected, Explained,
         ownership, contents
<1>5. PICK f \in artifacts : Id(f) = from /\ f.stage = r /\ f.version = active[r]
  BY <1>1, <1>4 DEF WorkflowInv, SelectionOK, Id
<1>6. PICK g \in artifacts : Id(g) = <<r, v>> /\ g.stage = r /\ g.version = v
  BY <1>4 DEF Versions, Id
<1>7. v \in 1 .. MaxRevision /\ v # 0 /\ active \in [Stages -> 0 .. MaxRevision]
  BY <1>6, VersionTypes DEF TypeOK
<1>8. r # Strategy
  BY <1>4, <1>5, <1>6 DEF OrderOK
<1>9. /\ <<r, v>> \notin gone
      /\ \A s \in Stages : s # r /\ <<s, active[s]>> \notin gone => selection[s] = active[s]
      /\ \A s \in Stages : s # r /\ <<s, active[s]>> \in gone => selection[s] = 0
      /\ \A s \in Stages : selection[s] # 0 => <<s, selection[s]>> \notin gone
      /\ \A s \in Stages : s # r => selection[s] \in {0, active[s]}
      /\ selection \in [Stages -> 0 .. MaxRevision]
  <2>1. PICK picked : picked = [active EXCEPT ![r] = v]
    OBVIOUS
  <2>2. picked \in [Stages -> 0 .. MaxRevision] /\ picked[r] = v
        /\ \A s \in Stages : s # r => picked[s] = active[s]
    BY <1>7, <2>1, BoundsAssumption
  <2>3. selection = [s \in Stages |-> IF <<s, picked[s]>> \in gone THEN 0 ELSE picked[s]]
    BY <1>3, <2>1 DEF Deselect
  <2>4. 0 \in 0 .. MaxRevision
    BY BoundsAssumption
  <2>5. <<r, v>> \notin gone
    BY <1>4, <1>7, <2>2, <2>3
  <2> QED BY <2>2, <2>3, <2>4, <2>5
<1>10. Cut(f)
  BY <1>1, <1>2, <1>4, <1>5, <1>9 DEF Cut
<1>11. /\ FormerOrder' = FormerOrder /\ IsFiniteSet(artifacts')
       /\ OrderOK' /\ FormerOK' /\ OlderOK' /\ SnapshotsOK' /\ ValidOK' /\ MatchedOK'
  BY <1>4, <1>10, CutKeepsValid
<1>12. selection[Strategy] # 0 /\ selection[Script] # 0 /\ active[Script] # 0
  <2>1. active[Strategy] # 0
    BY <1>0, <1>4, <1>8 DEF FoundedOK
  <2>2. selection[Strategy] # 0
    <3>1. \A y \in gone : y[1] # Strategy
      BY <1>2, <1>5, FoundationsUntouched
    <3>2. <<Strategy, active[Strategy]>> \notin gone
      BY <3>1
    <3> QED BY <1>0, <1>8, <1>9, <2>1, <3>2
  <2>3. CASE r = Script
    BY <1>4, <1>7, <2>2, <2>3
  <2>4. CASE r # Script
    <3>1. r >= AssetMatching
      BY <1>0, <1>8, <2>4
    <3>2. active[Script] # 0
      BY <1>0, <1>4, <3>1 DEF FoundedOK
    <3>3. <<Script, active[Script]>> \notin gone
      <4>1. CASE ~ (r = AssetMatching /\ f.on[1] = Strategy)
        <5>1. \A y \in gone : y[1] >= AssetMatching
          BY <1>2, <1>5, <3>1, <4>1, FoundationsUntouched
        <5>2. ~ (Script >= AssetMatching)
          BY <1>0
        <5> QED BY <5>1, <5>2
      <4>2. CASE r = AssetMatching /\ f.on[1] = Strategy
        <5> SUFFICES ASSUME <<Script, active[Script]>> \in gone PROVE FALSE
          OBVIOUS
        <5>1. g.on[1] = Script
          BY <1>4, <1>5, <1>6, <4>2 DEF OrderOK
        <5>2. g.on = <<Script, active[Script]>>
          <6>1. g.on[2] = active[Script]
            BY <1>4, <1>6, <4>2, <5>1 DEF MatchedOK
          <6> QED BY <5>1, <6>1, VersionTypes
        <5>3. g \in Valid
          BY <1>4, <1>6 DEF Valid
        <5>4. Id(g) = from \/ Id(g) \in gone
          BY <1>2, <1>5, <5>2, <5>3, DownstreamIs
        <5> QED BY <1>1, <1>4, <1>6, <1>9, <5>4
      <4> QED BY <4>1, <4>2
    <3> QED BY <1>0, <1>9, <2>2, <2>4, <3>2, <3>3
  <2>5. active[Script] # 0
    BY <1>0, <1>4, <1>8 DEF FoundedOK
  <2> QED BY <2>2, <2>3, <2>4, <2>5
<1>13. \A s \in Stages : selection[s] # 0 => \E a \in artifacts : Id(a) = <<s, selection[s]>>
  BY <1>4 DEF WorkflowInv, SelectionOK, Id
<1>14. assets' \in Nat /\ SnapshotFollowsSelection'
  <2>1. \A a \in artifacts : a.assets \in Nat /\ Id(a) # <<AssetMatching, 0>>
    BY VersionTypes
  <2>2. CASE selection[AssetMatching] = 0
    <3>1. assets' = 0
      BY <1>4, <2>2 DEF SnapshotOf
    <3> QED BY <1>4, <2>1, <2>2, <3>1 DEF SnapshotFollowsSelection, Id
  <2>3. CASE selection[AssetMatching] # 0
    <3>1. PICK b : b = CHOOSE a \in artifacts :
                          Id(a) = <<AssetMatching, selection[AssetMatching]>>
      OBVIOUS
    <3>2. b \in artifacts /\ Id(b) = <<AssetMatching, selection[AssetMatching]>>
      BY <1>0, <1>13, <2>3, <3>1
    <3>3. assets' = b.assets
      BY <1>4, <2>3, <3>1 DEF SnapshotOf
    <3>4. \A a \in artifacts : Id(a) = <<AssetMatching, selection[AssetMatching]>> => a = b
      BY <3>2 DEF TypeOK
    <3> QED BY <1>4, <2>1, <2>3, <3>2, <3>3, <3>4 DEF SnapshotFollowsSelection, Id
  <2> QED BY <2>2, <2>3
<1>15. \/ gone = {} /\ stage' = After(r)[1] /\ status' = After(r)[2]
       \/ /\ gone # {} /\ stage' = Delivery /\ status' = "confirmed"
          /\ \A t \in Stages : InPlace(selection, t)
       \/ /\ gone # {} /\ status' = "in_progress"
          /\ stage' \in Stages /\ ~ InPlace(selection, stage')
          /\ \A t \in Stages : t < stage' => InPlace(selection, t)
  <2>1. PICK state : state = Resumed(selection, r, gone)
    OBVIOUS
  <2>2. \/ gone = {} /\ state = After(r)
        \/ /\ gone # {} /\ state = <<Delivery, "confirmed">>
           /\ \A t \in Stages : InPlace(selection, t)
        \/ /\ gone # {}
           /\ \E u \in Stages :
                 /\ ~ InPlace(selection, u)
                 /\ \A t \in Stages : t < u => InPlace(selection, t)
                 /\ state = <<u, "in_progress">>
    BY <2>1, ResumedIs
  <2>3. stage' = state[1] /\ status' = state[2]
    BY <1>4, <2>1
  <2> QED BY <2>2, <2>3
<1>16. /\ After(r)[1] \in Stages /\ After(r)[2] \in {"in_progress", "confirmed"}
       /\ After(r)[1] # Strategy
       /\ After(r)[2] = "confirmed" => After(r)[1] = Delivery /\ r = Delivery
       /\ After(r)[2] # "confirmed" => After(r)[1] = r + 1
  BY AfterIs
<1>17. /\ stage' \in Stages /\ status' \in {"in_progress", "confirmed"}
       /\ status' = "confirmed" => stage' = Delivery
       /\ stage' # Strategy
  <2>1. InPlace(selection, Strategy)
    BY <1>0, <1>12, <1>13 DEF InPlace
  <2> QED BY <1>0, <1>15, <1>16, <2>1
<1>18. TypeOK'
  <2>1. invalidated' \subseteq {Id(a) : a \in artifacts'} /\ reopened' \subseteq invalidated'
    <3>1. gone \subseteq {Id(a) : a \in artifacts}
      BY <1>2, DownstreamIs DEF Valid
    <3> QED BY <1>4, <3>1 DEF TypeOK
  <2>2. revision' \in 1 .. MaxRevision
    BY <1>4, BoundsAssumption DEF TypeOK
  <2>3. /\ owner' \in Accounts /\ transfers' \in 0 .. MaxTransfers
        /\ draft' \in [content : Nat, status : {"none", "draft", "awaiting_confirmation"}]
        /\ script' \in Nat /\ generated' \in [Simulated -> Nat] /\ pool' \in 1 .. MaxPool
        /\ artifacts' \subseteq Artifacts
        /\ \A a, b \in artifacts' : Id(a) = Id(b) => a = b
    BY <1>4 DEF TypeOK
  <2> QED BY <1>4, <1>9, <1>14, <1>17, <2>1, <2>2, <2>3 DEF TypeOK, LateTyped, Id
<1>19. FoundedOK'
  BY <1>0, <1>4, <1>12, <1>17 DEF FoundedOK
<1>20. ScriptedOK'
  BY <1>4, <1>12, <1>17 DEF ScriptedOK
<1>21. SelectedOK'
  <2> SUFFICES ASSUME NEW s \in Stages, selection[s] # 0
               PROVE  <<s, selection[s]>> \notin invalidated \union gone
    BY <1>4 DEF SelectedOK
  <2>1. CASE s = r
    BY <1>4, <1>9, <2>1
  <2>2. CASE s # r
    BY <1>9, <2>2 DEF SelectedOK
  <2> QED BY <2>1, <2>2
<1>22. Chained /\ Chained'
  <2>1. (BasisInv /\ ValidOK /\ SelectedOK => Chained)'
    BY ChainedAlways, PTL
  <2> QED BY <1>11, <1>14, <1>18, <1>21, <2>1, ChainedAlways
<1>23. DoneOK'
  <2> SUFFICES ASSUME NEW s \in Stages, s < stage' \/ status' = "confirmed",
                      selection[s] = 0
               PROVE  /\ s >= AssetMatching
                      /\ \E t \in Stages : t > s /\ <<t, selection[t]>> \in FormerOrder'
    BY <1>4 DEF DoneOK, Done
  <2>1. ~ InPlace(selection, s)
    <3>1. \A a \in artifacts : Id(a) # <<s, 0>>
      BY VersionTypes
    <3> QED BY <3>1 DEF InPlace
  <2>2. gone = {} /\ s <= r
    BY <1>0, <1>15, <1>16, <2>1
  <2>3. s # r /\ s < r
    BY <1>0, <1>4, <1>7, <2>2
  <2>4. s >= AssetMatching
    BY <1>0, <1>12
  <2>5. <<r, selection[r]>> \in FormerOrder'
    <3> SUFFICES ASSUME <<r, selection[r]>> \notin FormerOrder' PROVE FALSE
      OBVIOUS
    <3>1. Canonical(r)'
      BY <1>4, <1>7 DEF Canonical
    <3>2. Canonical(s)'
      BY <1>22, <2>2, <3>1 DEF Chained
    <3> QED BY <1>4, <3>2 DEF Canonical
  <2> QED BY <1>0, <2>3, <2>4, <2>5
<1>24. PlaceOK'
  <2> SUFFICES ASSUME NEW s \in Stages, selection[s] # 0,
                      ~ (s < stage' \/ status' = "confirmed"),
                      <<s, selection[s]>> \notin FormerOrder'
               PROVE  FALSE
    BY <1>4 DEF PlaceOK, Done
  <2>1. Canonical(s)'
    BY <1>4 DEF Canonical
  <2>2. CASE gone = {}
    <3>1. s > r /\ s # r /\ r + 1 \in Stages /\ r + 1 <= s /\ r + 1 # Strategy
          /\ r + 1 # r /\ (r + 1) - 1 = r
      BY <1>0, <1>15, <1>16, <2>2
    <3>2. Canonical(s)
      BY <1>4, <1>9, <1>11, <2>1, <3>1 DEF Canonical
    <3>3. PICK a \in artifacts : /\ Id(a) = <<r + 1, active[r + 1]>>
                                 /\ a.on = <<(r + 1) - 1, active[(r + 1) - 1]>>
                                 /\ active[r + 1] # 0
      BY <1>22, <3>1, <3>2 DEF Chained, Canonical
    <3>4. a \in Valid
      BY <3>1, <3>3 DEF Valid, SelectedOK
    <3>5. a.on = from
      BY <1>1, <3>1, <3>3
    <3>6. Id(a) # from
      BY <1>1, <3>1, <3>3
    <3> QED BY <1>2, <1>5, <2>2, <3>4, <3>5, <3>6, DownstreamIs
  <2>3. CASE gone # {}
    <3>1. stage' <= s /\ stage' \in Stages /\ ~ InPlace(selection, stage')
      BY <1>0, <1>15, <2>3
    <3>2. PICK u : u = stage'
      OBVIOUS
    <3>3. \E a \in artifacts : Id(a) = <<u, selection[u]>> /\ a.on = <<u - 1, selection[u - 1]>>
      BY <1>4, <1>17, <1>22, <2>1, <3>1, <3>2 DEF Chained, Id
    <3> QED BY <3>1, <3>2, <3>3 DEF InPlace
  <2> QED BY <2>2, <2>3
<1> QED BY <1>11, <1>14, <1>18, <1>19, <1>20, <1>21, <1>23, <1>24

-----------------------------------------------------------------------------
(* Every step *)

LEMMA HandleKeepsHistory ==
    ASSUME HistoryInv, WorkflowInv', CarriedOK', LateTyped', NEW c, Sound(c), Handle(c)
    PROVE  HistoryInv'
<1>1. CASE Early(c) \/ GenerateSimulated(c)
  BY <1>1, QuietKeepsHistory
<1>2. CASE ConfirmStage(c)
  BY <1>2, ConfirmKeepsHistory
<1>3. CASE RollbackStage(c)
  BY <1>3, RollbackKeepsHistory
<1>4. CASE ReopenAssetMatching(c)
  BY <1>4, ReopenKeepsHistory
<1> QED BY <1>1, <1>2, <1>3, <1>4 DEF Handle, Early

\* What is on its way was offered.
LEMMA NextCarries ==
    ASSUME HistoryInv, [Next]_vars
    PROVE  CarriedOK' /\ LateTyped'
<1> USE DEF HistoryInv, BasisInv
<1>1. late' \in {late, NoCommand} \/ late' \in Offered(owner)
  BY DEF Next, Prompt, Send, Arrive, Drop, EditPool, vars
<1>2. CASE late' \in {late, NoCommand}
  BY <1>2 DEF CarriedOK, LateTyped, TypeOK, Sound
<1>3. CASE late' \in Offered(owner)
  <2>1. owner \in Accounts
    BY DEF TypeOK
  <2>2. PICK c \in Offered(owner) : late' = c
    BY <1>3
  <2>3. Sound(c)
    BY <2>1, <2>2, OfferedSound
  <2> QED BY <2>2, <2>3 DEF CarriedOK, LateTyped, Sound
<1> QED BY <1>1, <1>2, <1>3

LEMMA NextKeepsHistory == HistoryInv /\ [Next]_vars => HistoryInv'
<1> SUFFICES ASSUME HistoryInv, [Next]_vars PROVE HistoryInv'
  OBVIOUS
<1>1. WorkflowInv'
  BY NextKeeps DEF HistoryInv, BasisInv
<1>2. CarriedOK' /\ LateTyped'
  BY NextCarries
<1>3. ASSUME NEW u \in Accounts, NEW c \in Offered(u), Handle(c)
      PROVE  HistoryInv'
  <2>1. Sound(c)
    BY OfferedSound DEF HistoryInv, BasisInv
  <2> QED BY <1>1, <1>2, <1>3, <2>1, HandleKeepsHistory
<1>4. CASE Arrive
  <2>1. PICK c : c = late
    OBVIOUS
  <2>2. Sound(c) /\ Handle(c)
    BY <1>4, <2>1 DEF Arrive, HistoryInv, CarriedOK
  <2> QED BY <1>1, <1>2, <2>2, HandleKeepsHistory
<1>5. ASSUME UNCHANGED <<ownership, revision, workflow, history, contents>>,
             pool' \in 1 .. MaxPool
      PROVE  HistoryInv'
  <2>1. /\ owner' = owner /\ transfers' = transfers /\ revision' = revision
        /\ stage' = stage /\ status' = status /\ artifacts' = artifacts /\ active' = active
        /\ invalidated' = invalidated /\ reopened' = reopened /\ assets' = assets
        /\ draft' = draft /\ script' = script /\ generated' = generated
    BY <1>5 DEF ownership, workflow, history, contents
  <2>2. TypeOK'
    BY <1>2, <1>5, <2>1 DEF HistoryInv, BasisInv, TypeOK, LateTyped, Id
  <2>3. ScriptedOK'
    BY <2>1 DEF HistoryInv, ScriptedOK
  <2> QED BY <1>1, <1>2, <2>1, <2>2, <2>3, NothingMoved
<1>6. CASE Send \/ Drop \/ EditPool \/ UNCHANGED vars
  <2>1. pool' \in 1 .. MaxPool
    BY <1>6, BoundsAssumption DEF Send, Drop, EditPool, vars, HistoryInv, BasisInv, TypeOK
  <2> QED BY <1>5, <1>6, <2>1 DEF Send, Drop, EditPool, vars
<1> QED BY <1>3, <1>4, <1>6 DEF Next, Prompt

-----------------------------------------------------------------------------
(* A new task, and one of the former stage order *)

LEMMA CreatedHistory ==
    ASSUME Init, Created
    PROVE  HistoryInv
<1> USE DEF Init, Created, Stages, Simulated, Strategy, Script, AssetMatching, Storyboard, Delivery
<1>1. TypeOK
  <2>1. active \in [Stages -> 0 .. MaxRevision]
    BY BoundsAssumption
  <2>2. revision \in 1 .. MaxRevision /\ pool \in 1 .. MaxPool /\ transfers \in 0 .. MaxTransfers
    BY BoundsAssumption
  <2>3. /\ draft \in [content : Nat, status : {"none", "draft", "awaiting_confirmation"}]
        /\ script \in Nat /\ generated \in [Simulated -> Nat] /\ assets \in Nat
    BY DEF Supplied
  <2>4. /\ artifacts \subseteq Artifacts
        /\ \A a, b \in artifacts : Id(a) = Id(b) => a = b
        /\ invalidated \subseteq {Id(a) : a \in artifacts}
        /\ reopened \subseteq invalidated
    OBVIOUS
  <2>5. /\ stage \in Stages /\ owner \in Accounts /\ late \in CommandSet \union {NoCommand}
        /\ status = "in_progress"
    OBVIOUS
  <2> QED BY <2>1, <2>2, <2>3, <2>4, <2>5 DEF TypeOK
<1>2. IsFiniteSet(artifacts)
  BY FS_EmptySet
<1>3. OrderOK /\ FormerOK /\ OlderOK /\ SnapshotsOK /\ SnapshotFollowsSelection
  BY DEF OrderOK, FormerOK, OlderOK, SnapshotsOK, SnapshotFollowsSelection
<1>4. CarriedOK /\ FoundedOK /\ ScriptedOK /\ MatchedOK /\ ValidOK /\ SelectedOK
  BY DEF CarriedOK, FoundedOK, ScriptedOK, MatchedOK, ValidOK, SelectedOK
<1>5. DoneOK /\ PlaceOK
  BY DEF DoneOK, PlaceOK, Done
<1> QED BY <1>1, <1>2, <1>3, <1>4, <1>5, InitWorkflowInv DEF HistoryInv, BasisInv

LEMMA UpgradedHistory ==
    ASSUME Init, Upgraded
    PROVE  HistoryInv
<1> USE DEF Init, Upgraded, Stages, Simulated, Strategy, Script, AssetMatching, Storyboard, Delivery
<1> DEFINE A1 == Legacy(Strategy, NoUpstream, 0, 2)
           A2 == Legacy(AssetMatching, <<Strategy, 1>>, 1, 3)
           A3 == Legacy(Script, <<AssetMatching, 1>>, 1, 4)
<1>1. /\ A1.stage = 1 /\ A1.version = 1 /\ A1.at = 2 /\ A1.on = <<0, 0>> /\ A1.assets = 0
      /\ A2.stage = 3 /\ A2.version = 1 /\ A2.at = 3 /\ A2.on = <<1, 1>> /\ A2.assets = 1
      /\ A3.stage = 2 /\ A3.version = 1 /\ A3.at = 4 /\ A3.on = <<3, 1>> /\ A3.assets = 1
  BY DEF Legacy, NoUpstream
<1>2. artifacts = {A1, A2, A3}
  OBVIOUS
<1>3. A1 \in Artifacts /\ A2 \in Artifacts /\ A3 \in Artifacts
  BY BoundsAssumption DEF Artifacts, Legacy, Identities, NoUpstream
<1> HIDE DEF A1, A2, A3
<1>4. Id(A1) = <<1, 1>> /\ Id(A2) = <<3, 1>> /\ Id(A3) = <<2, 1>>
  BY <1>1 DEF Id
<1>5. TypeOK
  <2>1. artifacts \subseteq Artifacts /\ \A a, b \in artifacts : Id(a) = Id(b) => a = b
    BY <1>2, <1>3, <1>4
  <2>2. active \in [Stages -> 0 .. MaxRevision]
    BY BoundsAssumption
  <2>3. revision \in 1 .. MaxRevision /\ pool \in 1 .. MaxPool /\ transfers \in 0 .. MaxTransfers
    BY BoundsAssumption
  <2>4. /\ draft \in [content : Nat, status : {"none", "draft", "awaiting_confirmation"}]
        /\ script \in Nat /\ generated \in [Simulated -> Nat] /\ assets \in Nat
    BY DEF Supplied
  <2> QED BY <2>1, <2>2, <2>3, <2>4 DEF TypeOK
<1>6. IsFiniteSet(artifacts)
  <2>1. IsFiniteSet({})
    BY FS_EmptySet
  <2>2. IsFiniteSet({} \cup {A1})
    BY <2>1, FS_AddElement
  <2>3. IsFiniteSet(({} \cup {A1}) \cup {A2})
    BY <2>2, FS_AddElement
  <2>4. IsFiniteSet((({} \cup {A1}) \cup {A2}) \cup {A3})
    BY <2>3, FS_AddElement
  <2>5. artifacts = (({} \cup {A1}) \cup {A2}) \cup {A3}
    BY <1>2
  <2> QED BY <2>4, <2>5
<1>7. OrderOK /\ FormerOK /\ OlderOK /\ SnapshotsOK /\ SnapshotFollowsSelection
  <2>1. OrderOK
    BY <1>1, <1>2 DEF OrderOK, NoUpstream
  <2>2. FormerOK
    BY <1>1, <1>2, <1>4 DEF FormerOK
  <2>3. OlderOK
    BY <1>1, <1>2, <1>4 DEF OlderOK
  <2>4. SnapshotsOK
    BY <1>1, <1>2 DEF SnapshotsOK
  <2>5. SnapshotFollowsSelection
    BY <1>2, <1>4 DEF SnapshotFollowsSelection
  <2> QED BY <2>1, <2>2, <2>3, <2>4, <2>5
<1>8. CarriedOK /\ FoundedOK /\ ScriptedOK /\ MatchedOK /\ SelectedOK
  <2>1. CarriedOK /\ FoundedOK /\ ScriptedOK /\ SelectedOK
    BY <1>2 DEF CarriedOK, FoundedOK, ScriptedOK, SelectedOK
  <2>2. MatchedOK
    BY <1>1, <1>2 DEF MatchedOK
  <2> QED BY <2>1, <2>2
<1>9. ValidOK
  <2>1. Id(A2) \in FormerOrder /\ Id(A3) \in FormerOrder
    BY <1>1, <1>2, <1>6, FormerIs
  <2> QED BY <1>1, <1>2, <2>1 DEF ValidOK, NoUpstream
<1>10. DoneOK /\ PlaceOK
  BY DEF DoneOK, PlaceOK, Done
<1> QED BY <1>5, <1>6, <1>7, <1>8, <1>9, <1>10, InitWorkflowInv DEF HistoryInv, BasisInv

LEMMA History == Spec => []HistoryInv
<1>1. Init => HistoryInv
  BY CreatedHistory, UpgradedHistory DEF Init
<1> QED BY <1>1, NextKeepsHistory, PTL DEF Spec

-----------------------------------------------------------------------------
(* The theorems *)

\* confirm_stage: a version has the content its owner saw when the command was
\* sent, however late or often it arrives and whoever owns the task by then.
THEOREM HumanSawIt == Spec => []ConfirmedAsSeen
<1>1. WorkflowInv => ConfirmedAsSeen
  BY DEF WorkflowInv
<1> QED BY <1>1, Workflow, PTL

\* generate_simulated_stage_artifact and reopen_stage: a version of a simulated
\* stage holds a content generated after the version it rests on was confirmed.
THEOREM FreshContent == Spec => []ContentIsFresh
<1>1. WorkflowInv => ContentIsFresh
  BY DEF WorkflowInv
<1> QED BY <1>1, Workflow, PTL

\* rollback_stage and reopen_stage: whatever is confirmed, rolled back and
\* reopened, in whatever order, a version that is still valid rests on the
\* version its upstream stage has selected.
THEOREM RestsOnSelected == Spec => []ValidRestsOnSelected
<1>1. HistoryInv => ValidRestsOnSelected
  BY DEF HistoryInv, ValidOK, ValidRestsOnSelected
<1> QED BY <1>1, History, PTL

\* confirm_stage, rollback_stage and reopen_stage keep the record well typed and
\* the task where its selected versions say it is: the stages before the current
\* one have a valid version selected, the others none, but for what the former
\* stage order left, and the asset snapshot is the selected asset matching's.
THEOREM WorkAlwaysSelected == Spec => []WorkIsSelected
<1>1. HistoryInv => WorkIsSelected
  <2> SUFFICES ASSUME HistoryInv PROVE WorkIsSelected
    OBVIOUS
  <2>1. TypeOK /\ SnapshotFollowsSelection
    BY DEF HistoryInv, BasisInv
  <2>2. ASSUME NEW s \in Stages
        PROVE  /\ s < stage \/ status = "confirmed" =>
                    \/ active[s] # 0
                    \/ /\ s >= AssetMatching
                       /\ \E t \in Stages : t > s /\ <<t, active[t]>> \in FormerOrder
               /\ active[s] # 0 =>
                    /\ \E a \in artifacts : Id(a) = <<s, active[s]>>
                    /\ <<s, active[s]>> \notin invalidated
                    /\ \/ s < stage \/ status = "confirmed"
                       \/ <<s, active[s]>> \in FormerOrder
    BY DEF HistoryInv, BasisInv, WorkflowInv, SelectionOK, SelectedOK, DoneOK, PlaceOK, Done
  <2> QED BY <2>1, <2>2 DEF WorkIsSelected
<1> QED BY <1>1, History, PTL
=============================================================================

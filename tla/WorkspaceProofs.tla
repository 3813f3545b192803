-------------------------- MODULE WorkspaceProofs --------------------------
(***************************************************************************)
(* The administration of the workspace and the browser's page.             *)
(*                                                                         *)
(* The record of the administration stays valid, and no administrator      *)
(* overwrites what his page did not show, for any accounts, brands,        *)
(* vehicles and bounds.  Validity is inductive once the record is known to *)
(* be well formed.  For lost changes, the record is only ever replaced by  *)
(* a later one: whatever has kept its revision is the same, so that a page *)
(* with the current revision shows the current content.                    *)
(* Projects, which the wizards make beside the administrators, are made of *)
(* what is current, and each wizard makes one.                             *)
(*                                                                         *)
(* The panels of the page follow its selection, and it stays on the task   *)
(* of a run.  Whatever a section of the page does to the awaits under way, *)
(* it only lets them fade: an await loses its scope or is the newest no    *)
(* more.  So what fits each await goes on fitting it, and what is left to  *)
(* show of a section is what it does to the selection and to the flags: a  *)
(* flag is set as long as a flow that gives it back is under way, and as   *)
(* long as it is set the selection stays.                                  *)
(***************************************************************************)
EXTENDS ProjectCreation, WebClient, FiniteSetTheorems, TLAPS

RecordOK == admin \in State /\ Valid(admin)

\* A later record: nothing goes, and a part that changes takes a new revision.
Later(old, new) ==
    /\ \A b \in DOMAIN old.brands :
          /\ b \in DOMAIN new.brands
          /\ old.brands[b].revision <= new.brands[b].revision
          /\ old.brands[b].revision = new.brands[b].revision =>
                old.brands[b] = new.brands[b]
    /\ \A v \in VehicleIds :
          /\ Len(old.vehicles[v]) <= Len(new.vehicles[v])
          /\ \A i \in DOMAIN old.vehicles[v] :
                old.vehicles[v][i] = new.vehicles[v][i]
          /\ old.associations[v].revision <= new.associations[v].revision
          /\ old.associations[v].revision = new.associations[v].revision =>
                old.associations[v] = new.associations[v]
    /\ \A g \in DOMAIN old.grants :
          /\ g \in DOMAIN new.grants
          /\ old.grants[g].revision <= new.grants[g].revision
          /\ old.grants[g].revision = new.grants[g].revision =>
                old.grants[g] = new.grants[g]

\* What a page shows was the record once.
PagesAreFormer ==
    /\ page \in [Admins -> State]
    /\ \A m \in Admins : Later(page[m], admin)

\* What administrator m changes was on his page as it was.
Informed(m) ==
    /\ \A b \in DOMAIN admin.brands :
          admin'.brands[b] # admin.brands[b] => page[m].brands[b] = admin.brands[b]
    /\ \A v \in VehicleIds :
          /\ Exists(admin, v) /\ admin'.vehicles[v] # admin.vehicles[v] =>
                page[m].vehicles[v] = admin.vehicles[v]
          /\ admin'.associations[v] # admin.associations[v] =>
                page[m].associations[v] = admin.associations[v]
    /\ \A g \in DOMAIN admin.grants :
          admin'.grants[g] # admin.grants[g] => page[m].grants[g] = admin.grants[g]

IInv ==
    /\ RecordOK
    /\ PagesAreFormer
    /\ DOMAIN request = Admins

-----------------------------------------------------------------------------
(* Records.                                                                *)

\* The elements of a sequence
LEMMA Elements ==
    ASSUME NEW S, NEW s \in Seq(S)
    PROVE  /\ Len(s) \in Nat /\ DOMAIN s = 1 .. Len(s)
           /\ \A i \in DOMAIN s : s[i] \in S
  OBVIOUS

\* The parts of a record
LEMMA StateParts ==
    ASSUME NEW s \in State
    PROVE  /\ s.brands \in Seq(Brand)
           /\ s.vehicles \in [VehicleIds -> Seq(Vehicle)]
           /\ s.associations \in [VehicleIds -> Association]
           /\ s.grants \in Seq(Grant)
  BY DEF State

\* and what they are made of
LEMMA StateTypes ==
    ASSUME NEW s \in State
    PROVE  /\ \A b \in DOMAIN s.brands :
                 s.brands[b] \in Brand /\ s.brands[b].revision \in Nat
           /\ \A v \in VehicleIds :
                 /\ Len(s.vehicles[v]) \in Nat
                 /\ DOMAIN s.vehicles[v] = 1 .. Len(s.vehicles[v])
                 /\ \A i \in DOMAIN s.vehicles[v] : s.vehicles[v][i] \in Vehicle
                 /\ s.associations[v] \in Association
                 /\ s.associations[v].revision \in Nat
           /\ \A g \in DOMAIN s.grants :
                 s.grants[g] \in Grant /\ s.grants[g].revision \in Nat
<1>1. ASSUME NEW b \in DOMAIN s.brands
      PROVE  s.brands[b] \in Brand /\ s.brands[b].revision \in Nat
  <2>1. s.brands[b] \in Brand
    BY StateParts, Elements
  <2> QED BY <2>1 DEF Brand
<1>2. ASSUME NEW v \in VehicleIds
      PROVE  /\ Len(s.vehicles[v]) \in Nat
             /\ DOMAIN s.vehicles[v] = 1 .. Len(s.vehicles[v])
             /\ \A i \in DOMAIN s.vehicles[v] : s.vehicles[v][i] \in Vehicle
             /\ s.associations[v] \in Association
             /\ s.associations[v].revision \in Nat
  <2>1. s.vehicles[v] \in Seq(Vehicle) /\ s.associations[v] \in Association
    BY StateParts
  <2>2. s.associations[v].revision \in Nat
    BY <2>1 DEF Association
  <2> QED BY <2>1, <2>2, Elements
<1>3. ASSUME NEW g \in DOMAIN s.grants
      PROVE  s.grants[g] \in Grant /\ s.grants[g].revision \in Nat
  <2>1. s.grants[g] \in Grant
    BY StateParts, Elements
  <2> QED BY <2>1 DEF Grant
<1> QED BY <1>1, <1>2, <1>3

\* A record is later than itself,
LEMMA LaterReflexive ==
    ASSUME NEW s \in State
    PROVE  Later(s, s)
  BY StateTypes DEF Later

\* and what is later than a later one is later.
LEMMA LaterTransitive ==
    ASSUME NEW r \in State, NEW s \in State, NEW t \in State,
           Later(r, s), Later(s, t)
    PROVE  Later(r, t)
<1>1. ASSUME NEW b \in DOMAIN r.brands
      PROVE  /\ b \in DOMAIN t.brands
             /\ r.brands[b].revision <= t.brands[b].revision
             /\ r.brands[b].revision = t.brands[b].revision =>
                   r.brands[b] = t.brands[b]
  <2>1. b \in DOMAIN s.brands /\ b \in DOMAIN t.brands
    BY DEF Later
  <2>2. /\ r.brands[b].revision \in Nat /\ s.brands[b].revision \in Nat
        /\ t.brands[b].revision \in Nat
    BY <2>1, StateTypes
  <2> QED BY <2>1, <2>2 DEF Later
<1>2. ASSUME NEW v \in VehicleIds
      PROVE  /\ Len(r.vehicles[v]) <= Len(t.vehicles[v])
             /\ \A i \in DOMAIN r.vehicles[v] :
                   r.vehicles[v][i] = t.vehicles[v][i]
             /\ r.associations[v].revision <= t.associations[v].revision
             /\ r.associations[v].revision = t.associations[v].revision =>
                   r.associations[v] = t.associations[v]
  <2>1. /\ Len(r.vehicles[v]) \in Nat /\ Len(s.vehicles[v]) \in Nat
        /\ Len(t.vehicles[v]) \in Nat
        /\ DOMAIN r.vehicles[v] = 1 .. Len(r.vehicles[v])
        /\ DOMAIN s.vehicles[v] = 1 .. Len(s.vehicles[v])
        /\ r.associations[v].revision \in Nat
        /\ s.associations[v].revision \in Nat
        /\ t.associations[v].revision \in Nat
    BY StateTypes
  <2>2. /\ Len(r.vehicles[v]) <= Len(s.vehicles[v])
        /\ Len(s.vehicles[v]) <= Len(t.vehicles[v])
        /\ \A i \in DOMAIN r.vehicles[v] :
              r.vehicles[v][i] = s.vehicles[v][i]
        /\ \A i \in DOMAIN s.vehicles[v] :
              s.vehicles[v][i] = t.vehicles[v][i]
    BY DEF Later
  <2>3. \A i \in DOMAIN r.vehicles[v] : i \in DOMAIN s.vehicles[v]
    BY <2>1, <2>2
  <2>4. /\ r.associations[v].revision <= t.associations[v].revision
        /\ r.associations[v].revision = t.associations[v].revision =>
              r.associations[v] = t.associations[v]
    BY <2>1 DEF Later
  <2> QED BY SMTT(30), <2>1, <2>2, <2>3, <2>4
<1>3. ASSUME NEW g \in DOMAIN r.grants
      PROVE  /\ g \in DOMAIN t.grants
             /\ r.grants[g].revision <= t.grants[g].revision
             /\ r.grants[g].revision = t.grants[g].revision =>
                   r.grants[g] = t.grants[g]
  <2>1. g \in DOMAIN s.grants /\ g \in DOMAIN t.grants
    BY DEF Later
  <2>2. /\ r.grants[g].revision \in Nat /\ s.grants[g].revision \in Nat
        /\ t.grants[g].revision \in Nat
    BY <2>1, StateTypes
  <2> QED BY <2>1, <2>2 DEF Later
<1> QED BY <1>1, <1>2, <1>3 DEF Later

\* What a page shows with the current revision is current.
LEMMA ShownIsCurrent ==
    ASSUME RecordOK, PagesAreFormer, NEW m \in Admins
    PROVE  /\ \A b \in DOMAIN admin.brands :
                 BrandAsShown(m, b) => page[m].brands[b] = admin.brands[b]
           /\ \A v \in VehicleIds :
                 /\ Len(page[m].vehicles[v]) = Len(admin.vehicles[v]) =>
                       page[m].vehicles[v] = admin.vehicles[v]
                 /\ page[m].associations[v].revision = admin.associations[v].revision =>
                       page[m].associations[v] = admin.associations[v]
           /\ \A g \in DOMAIN admin.grants :
                 GrantAsShown(m, g) => page[m].grants[g] = admin.grants[g]
<1>1. page[m] \in State /\ admin \in State /\ Later(page[m], admin)
  BY DEF RecordOK, PagesAreFormer
<1>2. ASSUME NEW v \in VehicleIds,
             Len(page[m].vehicles[v]) = Len(admin.vehicles[v])
      PROVE  page[m].vehicles[v] = admin.vehicles[v]
  <2>1. page[m].vehicles[v] \in Seq(Vehicle) /\ admin.vehicles[v] \in Seq(Vehicle)
    BY <1>1, StateParts
  <2>2. \A i \in DOMAIN page[m].vehicles[v] :
          page[m].vehicles[v][i] = admin.vehicles[v][i]
    BY <1>1 DEF Later
  <2> QED BY <1>2, <2>1, <2>2
<1> QED BY <1>1, <1>2 DEF Later, BrandAsShown, GrantAsShown

-----------------------------------------------------------------------------
\* Appending to a sequence, and replacing an element of it
LEMMA Appended ==
    ASSUME NEW S, NEW s \in Seq(S), NEW x \in S
    PROVE  /\ Append(s, x) \in Seq(S)
           /\ Len(s) + 1 \notin DOMAIN s
           /\ DOMAIN Append(s, x) = DOMAIN s \cup {Len(s) + 1}
           /\ \A i \in DOMAIN s : Append(s, x)[i] = s[i]
           /\ Append(s, x)[Len(s) + 1] = x
  OBVIOUS

LEMMA Replaced ==
    ASSUME NEW S, NEW s \in Seq(S), NEW b \in DOMAIN s, NEW x \in S
    PROVE  /\ [s EXCEPT ![b] = x] \in Seq(S)
           /\ DOMAIN [s EXCEPT ![b] = x] = DOMAIN s
           /\ \A i \in DOMAIN s : [s EXCEPT ![b] = x][i] = IF i = b THEN x ELSE s[i]
  OBVIOUS

(* The operations: what each makes of the record.                          *)

\* Whoever creates a brand gets the first grant for it.
LEMMA CreateBrandKeeps ==
    ASSUME RecordOK, PagesAreFormer, NEW m \in Admins, NEW name \in BrandNames,
           CreateBrand(m, name)
    PROVE  RecordOK' /\ Later(admin, admin') /\ Informed(m)
<1> DEFINE n == Len(admin.brands) + 1
           x == [name |-> name, active |-> TRUE, revision |-> 1]
           y == NewGrant(m, n, Brandwide)
<1>1. admin \in State /\ Valid(admin) /\ NameIsFree(admin, name, 0)
  BY DEF RecordOK, CreateBrand
<1>2. /\ admin' = [admin EXCEPT !.brands = Append(admin.brands, x),
                               !.grants = Append(admin.grants, y)]
      /\ admin.brands \in Seq(Brand) /\ admin.grants \in Seq(Grant)
  BY <1>1, StateParts DEF CreateBrand, Commit
<1>3. x \in Brand /\ y \in Grant
  <2>1. n \in Nat
    BY <1>2, Elements
  <2> QED BY <2>1 DEF Brand, Grant, NewGrant, Accounts, Brandwide
<1>4. /\ admin' \in State
      /\ admin'.brands = Append(admin.brands, x)
      /\ admin'.grants = Append(admin.grants, y)
      /\ admin'.vehicles = admin.vehicles
      /\ admin'.associations = admin.associations
  <2>1. /\ Append(admin.brands, x) \in Seq(Brand)
        /\ Append(admin.grants, y) \in Seq(Grant)
    BY <1>2, <1>3, Appended
  <2> QED BY <1>1, <1>2, <2>1 DEF State
<1>5. /\ DOMAIN admin'.brands = DOMAIN admin.brands \cup {n}
      /\ n \notin DOMAIN admin.brands
      /\ \A b \in DOMAIN admin.brands : admin'.brands[b] = admin.brands[b]
      /\ admin'.brands[n] = x
  BY <1>2, <1>3, <1>4, Appended
<1> DEFINE k == Len(admin.grants) + 1
<1>6. /\ DOMAIN admin'.grants = DOMAIN admin.grants \cup {k}
      /\ k \notin DOMAIN admin.grants
      /\ \A g \in DOMAIN admin.grants : admin'.grants[g] = admin.grants[g]
      /\ admin'.grants[k] = y
  BY <1>2, <1>3, <1>4, Appended
<1>7. 0 \notin DOMAIN admin.brands
  BY <1>2, Elements
<1>8. NamesDiffer(admin')
  BY <1>1, <1>4, <1>5, <1>7 DEF Valid, NamesDiffer, NameIsFree, KeyIsFree, Exists, Latest
<1>9. VehiclesKeepTheirBrand(admin')
  BY <1>1, <1>4, <1>5 DEF Valid, VehiclesKeepTheirBrand, Exists
<1>10. GrantsAreInScope(admin')
  <2>1. y.brand = n /\ y.vehicle = Brandwide
    BY DEF NewGrant
  <2> HIDE DEF k, y
  <2> QED BY SMTT(30), <1>1, <1>4, <1>5, <1>6, <2>1 DEF Valid, GrantsAreInScope, Exists
<1>11. GrantsDiffer(admin')
  <2>1. y.brand = n /\ \A g \in DOMAIN admin.grants : admin.grants[g].brand # n
    BY <1>1, <1>5 DEF NewGrant, Valid, GrantsAreInScope
  <2> HIDE DEF k, y, n
  <2> QED BY <1>1, <1>6, <2>1 DEF Valid, GrantsDiffer
<1>12. Later(admin, admin')
  BY <1>1, <1>4, <1>5, <1>6, StateTypes DEF Later
<1>13. Informed(m)
  BY <1>4, <1>5, <1>6 DEF Informed
<1> QED BY <1>4, <1>8, <1>9, <1>10, <1>11, <1>12, <1>13 DEF RecordOK, Valid

\* A brand keeps its place, under a name no other brand has.
LEMMA UpdateBrandKeeps ==
    ASSUME RecordOK, PagesAreFormer, NEW m \in Admins, NEW b \in DOMAIN admin.brands,
           NEW name \in BrandNames, NEW active \in BOOLEAN,
           UpdateBrand(m, b, name, active)
    PROVE  RecordOK' /\ Later(admin, admin') /\ Informed(m)
<1> DEFINE x == [name |-> name, active |-> active,
                 revision |-> admin.brands[b].revision + 1]
<1>1. admin \in State /\ Valid(admin) /\ NameIsFree(admin, name, b)
  BY DEF RecordOK, UpdateBrand
<1>2. /\ admin' = [admin EXCEPT !.brands = [admin.brands EXCEPT ![b] = x]]
      /\ admin.brands \in Seq(Brand) /\ admin.brands[b].revision \in Nat
  BY <1>1, StateParts, StateTypes DEF UpdateBrand, Commit, State
<1>3. x \in Brand
  BY <1>2 DEF Brand
<1>4. /\ admin' \in State
      /\ admin'.brands = [admin.brands EXCEPT ![b] = x]
      /\ admin'.grants = admin.grants
      /\ admin'.vehicles = admin.vehicles
      /\ admin'.associations = admin.associations
  <2>1. [admin.brands EXCEPT ![b] = x] \in Seq(Brand)
    BY <1>2, <1>3, Replaced
  <2> QED BY <1>1, <1>2, <2>1 DEF State
<1>5. /\ DOMAIN admin'.brands = DOMAIN admin.brands
      /\ \A i \in DOMAIN admin.brands :
            admin'.brands[i] = IF i = b THEN x ELSE admin.brands[i]
  BY <1>2, <1>3, <1>4, Replaced
<1>6. NamesDiffer(admin')
  BY <1>1, <1>4, <1>5 DEF Valid, NamesDiffer, NameIsFree, KeyIsFree, Exists, Latest
<1>7. VehiclesKeepTheirBrand(admin') /\ GrantsAreInScope(admin') /\ GrantsDiffer(admin')
  BY SMTT(30), <1>1, <1>4, <1>5
     DEF Valid, VehiclesKeepTheirBrand, GrantsAreInScope, GrantsDiffer, Exists
<1>8. Later(admin, admin')
  BY <1>1, <1>2, <1>4, <1>5, StateTypes DEF Later
<1>9. Informed(m)
  BY <1>4, <1>5, ShownIsCurrent DEF Informed, UpdateBrand
<1> QED BY <1>4, <1>6, <1>7, <1>8, <1>9 DEF RecordOK, Valid

\* A vehicle is made where there is none, and nothing refers to it yet.
LEMMA CreateVehicleKeeps ==
    ASSUME RecordOK, PagesAreFormer, NEW m \in Admins, NEW v \in VehicleIds,
           NEW b \in DOMAIN admin.brands, NEW key \in VehicleKeys,
           NEW active \in BOOLEAN, CreateVehicle(m, v, b, key, active)
    PROVE  RecordOK' /\ Later(admin, admin') /\ Informed(m)
<1> DEFINE x == [brand |-> b, key |-> key, active |-> active]
<1>1. /\ admin \in State /\ Valid(admin)
      /\ ~Exists(admin, v) /\ KeyIsFree(admin, b, key, v)
  BY DEF RecordOK, CreateVehicle
<1>2. admin' = [admin EXCEPT !.vehicles = [admin.vehicles EXCEPT ![v] = <<x>>]]
  BY <1>1, StateParts DEF CreateVehicle, Commit, State
<1>3. x \in Vehicle /\ <<x>> \in Seq(Vehicle)
  <2>1. b \in Nat
    BY <1>1, StateParts, Elements
  <2> QED BY <2>1 DEF Vehicle
<1>4. /\ admin' \in State
      /\ admin'.vehicles = [admin.vehicles EXCEPT ![v] = <<x>>]
      /\ admin'.brands = admin.brands /\ admin'.grants = admin.grants
      /\ admin'.associations = admin.associations
  BY <1>1, <1>2, <1>3, StateParts DEF State
<1>5. /\ \A o \in VehicleIds \ {v} : admin'.vehicles[o] = admin.vehicles[o]
      /\ admin'.vehicles[v] = <<x>>
      /\ Len(<<x>>) = 1 /\ DOMAIN <<x>> = {1} /\ <<x>>[1] = x
  BY <1>1, <1>4, StateParts
<1>6. Len(admin.vehicles[v]) = 0 /\ DOMAIN admin.vehicles[v] = {}
  BY <1>1, StateTypes DEF Exists
<1> HIDE DEF x
<1>7. NamesDiffer(admin')
  <2>1. \A o \in VehicleIds \ {v} :
          /\ Exists(admin', o) <=> Exists(admin, o)
          /\ Latest(admin', o) = Latest(admin, o)
    BY <1>5 DEF Exists, Latest
  <2>2. Latest(admin', v) = x /\ x.brand = b /\ x.key = key
    BY <1>5 DEF Latest, x
  <2>3. ASSUME NEW o \in VehicleIds, Exists(admin', o)
        PROVE  KeyIsFree(admin', Latest(admin', o).brand, Latest(admin', o).key, o)
    BY <1>1, <2>1, <2>2, <2>3 DEF Valid, NamesDiffer, KeyIsFree
  <2> QED BY <1>1, <1>4, <2>3 DEF Valid, NamesDiffer, NameIsFree
<1>8. VehiclesKeepTheirBrand(admin')
  <2>1. x.brand \in DOMAIN admin'.brands
    BY <1>4 DEF x
  <2>2. ~(admin'.associations[v].revision > 0)
    BY <1>1, <1>4 DEF Valid, VehiclesKeepTheirBrand
  <2> QED BY <1>1, <1>4, <1>5, <2>1, <2>2
          DEF Valid, VehiclesKeepTheirBrand, Exists
<1>9. GrantsAreInScope(admin') /\ GrantsDiffer(admin')
  BY <1>1, <1>4, <1>5 DEF Valid, GrantsAreInScope, GrantsDiffer, Exists
<1>10. Later(admin, admin')
  BY <1>1, <1>4, <1>5, <1>6, StateTypes DEF Later
<1>11. Informed(m)
  BY <1>1, <1>4, <1>5 DEF Informed
<1> QED BY <1>4, <1>7, <1>8, <1>9, <1>10, <1>11 DEF RecordOK, Valid

\* A vehicle goes on under another name, in its brand.
LEMMA CreateVehicleFactVersionKeeps ==
    ASSUME RecordOK, PagesAreFormer, NEW m \in Admins, NEW v \in VehicleIds,
           NEW key \in VehicleKeys, NEW active \in BOOLEAN,
           CreateVehicleFactVersion(m, v, key, active)
    PROVE  RecordOK' /\ Later(admin, admin') /\ Informed(m)
<1> DEFINE b == Latest(admin, v).brand
           x == [brand |-> b, key |-> key, active |-> active]
           n == Len(admin.vehicles[v])
<1>1. /\ admin \in State /\ Valid(admin)
      /\ Exists(admin, v) /\ KeyIsFree(admin, b, key, v)
      /\ admin.vehicles[v] \in Seq(Vehicle)
  BY StateParts DEF RecordOK, CreateVehicleFactVersion
<1>2. admin' = [admin EXCEPT !.vehicles =
                  [admin.vehicles EXCEPT ![v] = Append(admin.vehicles[v], x)]]
  BY <1>1, StateParts DEF CreateVehicleFactVersion, Commit, State
<1>3. /\ n \in Nat /\ n > 0 /\ DOMAIN admin.vehicles[v] = 1 .. n
      /\ b \in DOMAIN admin.brands /\ b = admin.vehicles[v][1].brand
  <2>1. n \in Nat /\ n > 0 /\ DOMAIN admin.vehicles[v] = 1 .. n
    BY <1>1, Elements DEF Exists
  <2> QED BY <1>1, <2>1 DEF Valid, VehiclesKeepTheirBrand, Latest
<1>4. x \in Vehicle
  <2>1. b \in Nat
    BY <1>1, <1>3, StateParts, Elements
  <2> QED BY <2>1 DEF Vehicle
<1>5. /\ admin' \in State
      /\ admin'.vehicles =
            [admin.vehicles EXCEPT ![v] = Append(admin.vehicles[v], x)]
      /\ admin'.brands = admin.brands /\ admin'.grants = admin.grants
      /\ admin'.associations = admin.associations
  <2>1. Append(admin.vehicles[v], x) \in Seq(Vehicle)
    BY <1>1, <1>4, Appended
  <2> QED BY <1>1, <1>2, <2>1, StateParts DEF State
<1>6. /\ \A o \in VehicleIds \ {v} : admin'.vehicles[o] = admin.vehicles[o]
      /\ Len(admin'.vehicles[v]) = n + 1
      /\ DOMAIN admin'.vehicles[v] = (1 .. n) \cup {n + 1}
      /\ \A i \in 1 .. n : admin'.vehicles[v][i] = admin.vehicles[v][i]
      /\ admin'.vehicles[v][n + 1] = x
  <2>1. /\ \A o \in VehicleIds \ {v} : admin'.vehicles[o] = admin.vehicles[o]
        /\ admin'.vehicles[v] = Append(admin.vehicles[v], x)
    BY <1>1, <1>5, StateParts
  <2>2. Len(Append(admin.vehicles[v], x)) = n + 1
    BY <1>1, <1>4
  <2> QED BY <1>1, <1>3, <1>4, <2>1, <2>2, Appended
<1>7. x.brand = b /\ x.key = key
  OBVIOUS
<1> HIDE DEF x, n
<1>8. NamesDiffer(admin')
  <2>1. \A o \in VehicleIds \ {v} :
          /\ Exists(admin', o) <=> Exists(admin, o)
          /\ Latest(admin', o) = Latest(admin, o)
    BY <1>6 DEF Exists, Latest
  <2>2. Latest(admin', v) = x
    BY <1>6 DEF Latest
  <2>3. ASSUME NEW o \in VehicleIds, Exists(admin', o)
        PROVE  KeyIsFree(admin', Latest(admin', o).brand, Latest(admin', o).key, o)
    BY <1>1, <1>7, <2>1, <2>2, <2>3 DEF Valid, NamesDiffer, KeyIsFree
  <2> QED BY <1>1, <1>5, <2>3 DEF Valid, NamesDiffer, NameIsFree
<1>9. VehiclesKeepTheirBrand(admin')
  <2>1. \A o \in VehicleIds : Exists(admin, o) => Exists(admin', o)
    BY <1>3, <1>6 DEF Exists
  <2>2. ASSUME NEW o \in VehicleIds \ {v}
        PROVE  /\ \A i \in DOMAIN admin'.vehicles[o] :
                    /\ admin'.vehicles[o][i].brand \in DOMAIN admin'.brands
                    /\ admin'.vehicles[o][i].brand = admin'.vehicles[o][1].brand
               /\ admin'.associations[o].revision > 0 =>
                    admin'.associations[o].brand = admin'.vehicles[o][1].brand
    BY <1>1, <1>5, <1>6 DEF Valid, VehiclesKeepTheirBrand
  <2>3. /\ \A i \in DOMAIN admin'.vehicles[v] :
             /\ admin'.vehicles[v][i].brand \in DOMAIN admin'.brands
             /\ admin'.vehicles[v][i].brand = admin'.vehicles[v][1].brand
        /\ admin'.associations[v].revision > 0 =>
             admin'.associations[v].brand = admin'.vehicles[v][1].brand
    <3>1. admin'.vehicles[v][1].brand = b
      BY <1>3, <1>6
    <3>2. \A i \in 1 .. n : admin.vehicles[v][i].brand = b
      BY <1>1, <1>3 DEF Valid, VehiclesKeepTheirBrand
    <3>3. admin.associations[v].revision > 0 => admin.associations[v].brand = b
      BY <1>1, <1>3 DEF Valid, VehiclesKeepTheirBrand
    <3> QED BY <1>3, <1>5, <1>6, <1>7, <3>1, <3>2, <3>3
  <2>4. \A o \in VehicleIds :
          admin'.associations[o].revision > 0 => Exists(admin', o)
    BY <1>1, <1>5, <2>1 DEF Valid, VehiclesKeepTheirBrand
  <2> QED BY <2>2, <2>3, <2>4 DEF VehiclesKeepTheirBrand
<1>10. GrantsAreInScope(admin') /\ GrantsDiffer(admin')
  <2>1. \A o \in VehicleIds : Exists(admin, o) =>
          Exists(admin', o) /\ admin'.vehicles[o][1] = admin.vehicles[o][1]
    BY <1>3, <1>6 DEF Exists
  <2>2. \A g \in DOMAIN admin.grants :
          admin.grants[g].vehicle \in VehicleIds \cup {Brandwide}
    BY <1>1, StateTypes DEF Grant
  <2> QED BY <1>1, <1>5, <2>1, <2>2 DEF Valid, GrantsAreInScope, GrantsDiffer
<1>11. Later(admin, admin')
  BY <1>1, <1>3, <1>5, <1>6, StateTypes DEF Later
<1>12. Informed(m)
  BY <1>5, <1>6, ShownIsCurrent DEF Informed, CreateVehicleFactVersion
<1> QED BY <1>5, <1>8, <1>9, <1>10, <1>11, <1>12 DEF RecordOK, Valid

\* A package is of the brand of its vehicle.
LEMMA ReplaceVehicleAssetAssociationsKeeps ==
    ASSUME RecordOK, PagesAreFormer, NEW m \in Admins, NEW v \in VehicleIds,
           ReplaceVehicleAssetAssociations(m, v)
    PROVE  RecordOK' /\ Later(admin, admin') /\ Informed(m)
<1> DEFINE b == Latest(admin, v).brand
           x == [brand |-> b, revision |-> admin.associations[v].revision + 1]
<1>1. /\ admin \in State /\ Valid(admin) /\ Exists(admin, v)
      /\ admin.associations[v].revision \in Nat
  BY StateTypes DEF RecordOK, ReplaceVehicleAssetAssociations
<1>2. admin' = [admin EXCEPT !.associations = [admin.associations EXCEPT ![v] = x]]
  BY <1>1, StateParts DEF ReplaceVehicleAssetAssociations, Commit, State
<1>3. b \in DOMAIN admin.brands /\ b = admin.vehicles[v][1].brand
  BY <1>1, StateTypes DEF Valid, VehiclesKeepTheirBrand, Latest, Exists
<1>4. x \in Association
  <2>1. b \in Nat
    BY <1>1, <1>3, StateParts, Elements
  <2> QED BY <1>1, <2>1 DEF Association
<1>5. /\ admin' \in State
      /\ admin'.associations = [admin.associations EXCEPT ![v] = x]
      /\ admin'.brands = admin.brands /\ admin'.grants = admin.grants
      /\ admin'.vehicles = admin.vehicles
  BY <1>1, <1>2, <1>4, StateParts DEF State
<1>6. \A o \in VehicleIds :
        admin'.associations[o] = IF o = v THEN x ELSE admin.associations[o]
  BY <1>1, <1>5, StateParts
<1>7. NamesDiffer(admin') /\ GrantsAreInScope(admin') /\ GrantsDiffer(admin')
  <2>1. NamesDiffer(admin')
    <3>1. NamesDiffer(admin)
      BY <1>1 DEF Valid
    <3>2. \A o \in VehicleIds : /\ Exists(admin', o) <=> Exists(admin, o)
                                /\ Latest(admin', o) = Latest(admin, o)
      BY <1>5 DEF Exists, Latest
    <3>3. \A bb \in DOMAIN admin'.brands : NameIsFree(admin', admin'.brands[bb].name, bb)
      BY <1>5, <3>1 DEF NamesDiffer, NameIsFree
    <3>4. ASSUME NEW o \in VehicleIds, Exists(admin, o)
          PROVE  KeyIsFree(admin', Latest(admin, o).brand, Latest(admin, o).key, o)
      <4>1. KeyIsFree(admin, Latest(admin, o).brand, Latest(admin, o).key, o)
        BY <3>1, <3>4 DEF NamesDiffer
      <4> QED BY <3>2, <4>1 DEF KeyIsFree
    <3> QED BY <3>2, <3>3, <3>4 DEF NamesDiffer
  <2>2. GrantsAreInScope(admin')
    BY <1>1, <1>5 DEF Valid, GrantsAreInScope, Exists, Latest
  <2>3. GrantsDiffer(admin')
    BY <1>1, <1>5 DEF Valid, GrantsDiffer, Latest
  <2> QED BY <2>1, <2>2, <2>3
<1>8. VehiclesKeepTheirBrand(admin')
  BY <1>1, <1>3, <1>5, <1>6 DEF Valid, VehiclesKeepTheirBrand, Exists
<1>9. Later(admin, admin')
  BY <1>1, <1>5, <1>6, StateTypes DEF Later
<1>10. Informed(m)
  BY <1>5, <1>6, ShownIsCurrent DEF Informed, ReplaceVehicleAssetAssociations
<1> QED BY <1>5, <1>7, <1>8, <1>9, <1>10 DEF RecordOK, Valid

\* A grant is in the scope of its brand when it is given, and no active one
\* gives the account the same.
LEMMA CreateAccessGrantKeeps ==
    ASSUME RecordOK, PagesAreFormer, NEW m \in Admins, NEW account \in Accounts,
           NEW b \in DOMAIN admin.brands, NEW v \in VehicleIds \cup {Brandwide},
           CreateAccessGrant(m, account, b, v)
    PROVE  RecordOK' /\ Later(admin, admin') /\ Informed(m)
<1> DEFINE k == Len(admin.grants) + 1
           y == NewGrant(account, b, v)
<1>1. /\ admin \in State /\ Valid(admin)
      /\ v # Brandwide => account \in Creators /\ v \in VehicleIds
      /\ InUse(admin, b, v) /\ ~Holds(admin, account, b, v)
  BY DEF RecordOK, CreateAccessGrant
<1>2. /\ admin' = [admin EXCEPT !.grants = Append(admin.grants, y)]
      /\ admin.grants \in Seq(Grant)
  BY <1>1, StateParts DEF CreateAccessGrant, Commit
<1>3. y \in Grant
  <2>1. b \in Nat
    BY <1>1, StateParts, Elements
  <2> QED BY <2>1 DEF Grant, NewGrant
<1>4. /\ admin' \in State
      /\ admin'.grants = Append(admin.grants, y)
      /\ admin'.brands = admin.brands /\ admin'.vehicles = admin.vehicles
      /\ admin'.associations = admin.associations
  <2>1. Append(admin.grants, y) \in Seq(Grant)
    BY <1>2, <1>3, Appended
  <2> QED BY <1>1, <1>2, <2>1 DEF State
<1>5. /\ DOMAIN admin'.grants = DOMAIN admin.grants \cup {k}
      /\ k \notin DOMAIN admin.grants
      /\ \A g \in DOMAIN admin.grants : admin'.grants[g] = admin.grants[g]
      /\ admin'.grants[k] = y
  BY <1>2, <1>3, <1>4, Appended
<1>6. y.account = account /\ y.brand = b /\ y.vehicle = v
  BY DEF NewGrant
<1>7. v # Brandwide => Exists(admin, v) /\ admin.vehicles[v][1].brand = b
  BY <1>1, StateTypes DEF InUse, Valid, VehiclesKeepTheirBrand, Latest, Exists
<1> HIDE DEF k, y
<1>8. NamesDiffer(admin') /\ VehiclesKeepTheirBrand(admin')
  BY <1>1, <1>4 DEF Valid, NamesDiffer, NameIsFree, KeyIsFree,
                    VehiclesKeepTheirBrand, Exists, Latest
<1>9. GrantsAreInScope(admin')
  BY <1>1, <1>4, <1>5, <1>6, <1>7 DEF Valid, GrantsAreInScope, Exists
<1>10. GrantsDiffer(admin')
  BY <1>1, <1>5, <1>6 DEF Valid, GrantsDiffer, Holds
<1>11. Later(admin, admin')
  BY <1>1, <1>4, <1>5, StateTypes DEF Later
<1>12. Informed(m)
  BY <1>4, <1>5 DEF Informed
<1> QED BY <1>4, <1>8, <1>9, <1>10, <1>11, <1>12 DEF RecordOK, Valid

\* A grant keeps its scope, and comes back only if no other gives the same.
LEMMA UpdateAccessGrantKeeps ==
    ASSUME RecordOK, PagesAreFormer, NEW m \in Admins, NEW g \in DOMAIN admin.grants,
           NEW active \in BOOLEAN, UpdateAccessGrant(m, g, active)
    PROVE  RecordOK' /\ Later(admin, admin') /\ Informed(m)
<1> DEFINE old == admin.grants[g]
           x == [account |-> old.account, brand |-> old.brand, vehicle |-> old.vehicle,
                 active |-> active, revision |-> old.revision + 1]
<1>1. /\ admin \in State /\ Valid(admin) /\ (active => ~Doubled(g))
      /\ admin.grants \in Seq(Grant) /\ admin.grants[g] \in Grant
  BY StateParts, StateTypes DEF RecordOK, UpdateAccessGrant
<1>2. /\ x \in Grant /\ x.account = admin.grants[g].account
      /\ x.brand = admin.grants[g].brand /\ x.vehicle = admin.grants[g].vehicle
      /\ x.active = active /\ x.revision = admin.grants[g].revision + 1
  BY <1>1 DEF Grant
<1>3. admin' = [admin EXCEPT !.grants = [admin.grants EXCEPT ![g] = x]]
  BY <1>1 DEF UpdateAccessGrant, Commit, State
<1> HIDE DEF x
<1>4. /\ admin' \in State
      /\ admin'.grants = [admin.grants EXCEPT ![g] = x]
      /\ admin'.brands = admin.brands /\ admin'.vehicles = admin.vehicles
      /\ admin'.associations = admin.associations
  <2>1. [admin.grants EXCEPT ![g] = x] \in Seq(Grant)
    BY <1>1, <1>2, Replaced
  <2> QED BY <1>1, <1>3, <2>1 DEF State
<1>5. /\ DOMAIN admin'.grants = DOMAIN admin.grants
      /\ \A o \in DOMAIN admin.grants :
            admin'.grants[o] = IF o = g THEN x ELSE admin.grants[o]
  BY <1>1, <1>2, <1>4, Replaced
<1>6. NamesDiffer(admin') /\ VehiclesKeepTheirBrand(admin')
  BY <1>1, <1>4 DEF Valid, NamesDiffer, NameIsFree, KeyIsFree,
                    VehiclesKeepTheirBrand, Exists, Latest
<1>7. GrantsAreInScope(admin')
  BY SMTT(30), <1>1, <1>2, <1>4, <1>5 DEF Valid, GrantsAreInScope, Exists
<1>8. GrantsDiffer(admin')
  BY <1>1, <1>2, <1>5 DEF Valid, GrantsDiffer, Doubled
<1>9. Later(admin, admin')
  BY <1>1, <1>2, <1>4, <1>5, StateTypes DEF Later
<1>10. Informed(m)
  BY <1>4, <1>5, ShownIsCurrent DEF Informed, UpdateAccessGrant
<1> QED BY <1>4, <1>6, <1>7, <1>8, <1>9, <1>10 DEF RecordOK, Valid

-----------------------------------------------------------------------------
(* The steps.                                                              *)

LEMMA AdministerKeeps ==
    ASSUME RecordOK, PagesAreFormer, NEW m \in Admins, Administer(m)
    PROVE  RecordOK' /\ Later(admin, admin') /\ Informed(m)
  BY CreateBrandKeeps, UpdateBrandKeeps, CreateVehicleKeeps,
     CreateVehicleFactVersionKeeps, ReplaceVehicleAssetAssociationsKeeps,
     CreateAccessGrantKeeps, UpdateAccessGrantKeeps DEF Administer

\* What an operation of an administrator does to the requests and the pages
LEMMA AdministerLocals ==
    ASSUME NEW m \in Admins, Administer(m)
    PROVE  /\ UNCHANGED page /\ request[m] # NoRequest
           /\ request' = [request EXCEPT ![m] = NoRequest]
  BY DEF Administer, Commit, CreateBrand, UpdateBrand, CreateVehicle,
         CreateVehicleFactVersion, ReplaceVehicleAssetAssociations,
         CreateAccessGrant, UpdateAccessGrant

\* Only they change the record.
LEMMA StepParts ==
    ASSUME [Next]_vars
    PROVE  \/ \E m \in Admins : Administer(m)
           \/ /\ UNCHANGED admin
              /\ \/ UNCHANGED <<page, request>>
                 \/ \E m \in Admins : LoadPage(m) \/ Admit(m) \/ Refuse(m)
<1>1. CASE AccessNext
  BY <1>1 DEF AccessNext, SignIn, EndSession, Switch, FinishSwitch, LoadPage,
              Admit, Refuse
<1>2. CASE \E c \in Creators : Open(c)
  BY <1>2 DEF Open
<1>3. CASE UNCHANGED accessVars
  BY <1>3 DEF accessVars
<1> QED BY <1>1, <1>2, <1>3 DEF Next, vars

\* A tenant begins with a record of its own, on every page.
LEMMA InitIInv == Init => IInv
<1> SUFFICES ASSUME Init PROVE IInv
  OBVIOUS
<1>1. admin \in State /\ Valid(admin)
  BY SeedsAssumption DEF Init, AccessInit
<1> QED BY <1>1, LaterReflexive
        DEF Init, AccessInit, IInv, RecordOK, PagesAreFormer

LEMMA NextIInv == IInv /\ [Next]_vars => IInv'
<1> SUFFICES ASSUME IInv, [Next]_vars PROVE IInv'
  OBVIOUS
<1>1. CASE \E m \in Admins : Administer(m)
  <2>1. RecordOK' /\ Later(admin, admin') /\ UNCHANGED page
        /\ DOMAIN request' = DOMAIN request
    BY <1>1, AdministerKeeps, AdministerLocals DEF IInv
  <2>2. PagesAreFormer'
    BY <2>1, LaterTransitive DEF IInv, PagesAreFormer, RecordOK
  <2> QED BY <2>1, <2>2 DEF IInv
<1>2. CASE UNCHANGED <<admin, page, request>>
  BY <1>2 DEF IInv, RecordOK, PagesAreFormer
<1>3. ASSUME NEW m \in Admins, UNCHANGED admin, LoadPage(m)
      PROVE  IInv'
  <2>1. page' = [page EXCEPT ![m] = admin] /\ UNCHANGED request
    BY <1>3 DEF LoadPage
  <2>2. admin \in State /\ Later(admin, admin)
    BY LaterReflexive DEF IInv, RecordOK
  <2>3. PagesAreFormer'
    BY <1>3, <2>1, <2>2 DEF IInv, PagesAreFormer
  <2> QED BY <1>3, <2>1, <2>3 DEF IInv, RecordOK
<1>4. ASSUME NEW m \in Admins, UNCHANGED admin, Admit(m) \/ Refuse(m)
      PROVE  IInv'
  BY <1>4 DEF Admit, Refuse, IInv, RecordOK, PagesAreFormer
<1> QED BY <1>1, <1>2, <1>3, <1>4, StepParts

\* Whatever the administrators of a tenant do with pages and sessions that are
\* out of date, what the store is given is a record that
\* validateWorkspaceAdminState accepts.
THEOREM AlwaysValid == Spec => []AdministrationIsValid
<1>1. IInv => AdministrationIsValid
  BY DEF IInv, RecordOK, AdministrationIsValid
<1> QED BY <1>1, InitIInv, NextIInv, PTL DEF Spec

\* Whatever pages the administrators keep open, an operation overwrites a
\* brand, a vehicle, a package or a grant only for who was shown what it
\* overwrites: the expected revisions of a request are enough.
THEOREM NothingIsLost == Spec => NoChangeIsLost
<1> DEFINE Kept == \A m \in Admins :
               request[m] # NoRequest /\ request'[m] = NoRequest => Informed(m)
<1>1. ASSUME IInv, [Next]_vars, NEW m \in Admins,
             request[m] # NoRequest, request'[m] = NoRequest
      PROVE  Informed(m)
  <2>1. CASE \E o \in Admins : Administer(o)
    <3>1. PICK o \in Admins : Administer(o)
      BY <2>1
    <3>2. request' = [request EXCEPT ![o] = NoRequest]
      BY <3>1, AdministerLocals
    <3>3. o = m
      BY <1>1, <3>2 DEF IInv
    <3> QED BY <1>1, <3>1, <3>3, AdministerKeeps DEF IInv
  <2>2. CASE UNCHANGED admin
    BY <2>2 DEF Informed
  <2> QED BY <1>1, <2>1, <2>2, StepParts
<1>2. IInv /\ [Next]_vars => [Kept]_accessVars
  BY <1>1
<1>3. Spec => [][Kept]_accessVars
  BY <1>2, InitIInv, NextIInv, PTL DEF Spec
<1>4. NoChangeIsLost <=> [][Kept]_accessVars
  BY DEF NoChangeIsLost, Informed
<1> QED BY <1>3, <1>4

-----------------------------------------------------------------------------
(* The creation of projects.  A wizard shows vehicles as they were; what   *)
(* it posts is compared with what it shows by revision and version, and    *)
(* the brand of a vehicle never changes.  A call a wizard waits for is the *)
(* one it posted, about the vehicle it still has chosen.                   *)

Fields == {"step", "options", "vehicle", "batch", "package", "configuration",
           "project", "awaits"}

Projects ==
    [creator: Creators, request: Nat, vehicle: VehicleIds, basis: Configurations,
     batch: BatchNames \cup {Unnamed},
     name: BrandNames \X VehicleKeys \X (BatchNames \cup {Unnamed})]

FirstTasks == [creator: Creators, request: Nat, project: Nat, form: Forms \cup {Unnamed}]

\* s shows vehicle v as it was at some time: of the brand it belongs to.
Describes(s, v, record) ==
    /\ s \in Shows
    /\ v \in VehicleIds
    /\ Exists(record, v)
    /\ s.brand = record.vehicles[v][1].brand

\* Project p is what the wizard w of creator c asked for and showed.
IsOf(p, c, asked, w) ==
    /\ p.creator = c /\ p.request = asked
    /\ p.vehicle \in DOMAIN w.options
    /\ p.basis.shown = w.options[p.vehicle]

WizardOK(w, record) ==
    /\ DOMAIN w = Fields
    /\ w.step \in {"closed", "loading", "ready", "reading", "posted", "next"}
    /\ \A v \in DOMAIN w.options : Describes(w.options[v], v, record)
    /\ w.step \in {"closed", "loading", "reading"} => w.project = 0
    /\ w.step \in {"ready", "reading", "posted", "next"} => w.vehicle \in DOMAIN w.options
    /\ w.step = "next" => w.project # 0
    /\ w.batch \in BatchNames \cup {Unnamed}
    /\ w.configuration # Unread =>
          /\ w.step = "reading"
          /\ w.configuration \in Configurations
          /\ Describes(w.configuration.shown, w.vehicle, record)
    /\ w.awaits \in Calls \cup {Nobody}
    /\ w.awaits # Nobody => w.step = "posted"

\* The call wizard w of creator c waits for
Awaited(call, c, asked, w) ==
    /\ call \in Call
    /\ call.creator = c /\ call.request = asked
    /\ call.kind = "project" =>
          call.vehicle = w.vehicle /\ call.basis.shown = w.options[w.vehicle]

CallsOK ==
    /\ calls \in [Calls -> Call \cup {Nobody}]
    /\ \A k \in Calls : calls[k] # Nobody =>
          /\ calls[k].kind = "project" => calls[k].basis \in Configurations
          /\ calls[k].kind = "task" =>
                /\ calls[k].project \in DOMAIN projects
                /\ projects[calls[k].project].creator = calls[k].creator
                /\ projects[calls[k].project].request = calls[k].request

WizardsOK ==
    /\ DOMAIN wizard = Creators
    /\ opened \in [Creators -> Nat]
    /\ \A c \in Creators :
          /\ WizardOK(wizard[c], admin)
          /\ wizard[c].awaits # Nobody =>
                Awaited(calls[wizard[c].awaits], c, opened[c], wizard[c])
          /\ wizard[c].project # 0 =>
                /\ wizard[c].project \in DOMAIN projects
                /\ IsOf(projects[wizard[c].project], c, opened[c], wizard[c])

MadeOK ==
    /\ projects \in Seq(Projects)
    /\ tasks \in Seq(FirstTasks)
    /\ \A p, o \in DOMAIN projects :
          projects[p].creator = projects[o].creator /\ projects[p].request = projects[o].request
             => p = o
    /\ \A t \in DOMAIN tasks :
          /\ tasks[t].project \in DOMAIN projects
          /\ projects[tasks[t].project].creator = tasks[t].creator
          /\ projects[tasks[t].project].request = tasks[t].request
    /\ \A t, o \in DOMAIN tasks :
          tasks[t].creator = tasks[o].creator /\ tasks[t].request = tasks[o].request => t = o

AccountsOK ==
    /\ signedIn \subseteq Accounts
    /\ switching \in Accounts \cup {NoSwitch}
    /\ request \in [Admins -> {NoRequest} \cup
                        [granted: SUBSET Nat, usable: SUBSET VehicleIds]]
    /\ changes \in 0 .. MaxChanges
    /\ lost \in 0 .. MaxLost

CInv == IInv /\ AccountsOK /\ MadeOK /\ CallsOK /\ WizardsOK

-----------------------------------------------------------------------------
(* How the wizards and the calls may change.                               *)

\* A wizard describes its vehicles whatever the administrators do.
LEMMA LaterDescribes ==
    ASSUME NEW old \in State, NEW new \in State, Later(old, new), NEW w, WizardOK(w, old)
    PROVE  WizardOK(w, new)
<1>1. ASSUME NEW s, NEW v, Describes(s, v, old)
      PROVE  Describes(s, v, new)
  <2>1. v \in VehicleIds /\ Len(old.vehicles[v]) > 0
    BY <1>1 DEF Describes, Exists
  <2>2. /\ Len(old.vehicles[v]) \in Nat /\ Len(new.vehicles[v]) \in Nat
        /\ DOMAIN old.vehicles[v] = 1 .. Len(old.vehicles[v])
    BY <2>1, StateTypes
  <2>3. /\ Len(new.vehicles[v]) >= Len(old.vehicles[v])
        /\ 1 \in DOMAIN old.vehicles[v]
    BY <2>1, <2>2 DEF Later
  <2>4. old.vehicles[v][1] = new.vehicles[v][1]
    BY <2>1, <2>3 DEF Later
  <2> QED BY <1>1, <2>1, <2>2, <2>3, <2>4 DEF Describes, Exists
<1> QED BY <1>1 DEF WizardOK

\* The wizard w of creator c shows the project it goes on with, among made.
GoesOnWith(w, c, asked, made) ==
    w.project # 0 => w.project \in DOMAIN made /\ IsOf(made[w.project], c, asked, w)

\* A wizard goes on by itself.
LEMMA WizardMoves ==
    ASSUME CInv, UNCHANGED <<admin, opened, calls, projects, tasks>>,
           NEW c \in Creators, NEW w, Set(c, w),
           WizardOK(w, admin), w.awaits = Nobody, GoesOnWith(w, c, opened[c], projects)
    PROVE  MadeOK' /\ CallsOK' /\ WizardsOK'
<1>1. MadeOK' /\ CallsOK'
  BY DEF CInv, MadeOK, CallsOK
<1>2. /\ DOMAIN wizard' = Creators
      /\ \A o \in Creators : wizard'[o] = IF o = c THEN w ELSE wizard[o]
  BY DEF CInv, WizardsOK, Set
<1>3. WizardsOK'
  BY <1>2 DEF CInv, WizardsOK, GoesOnWith
<1> QED BY <1>1, <1>3

\* A wizard sends a call, and waits for it.
LEMMA WizardPosts ==
    ASSUME CInv, UNCHANGED <<admin, opened, projects, tasks>>,
           NEW c \in Creators, NEW k \in Calls, calls[k] = Nobody,
           NEW w, Set(c, w), NEW r \in Call, calls' = [calls EXCEPT ![k] = r],
           WizardOK(w, admin), w.awaits = k, GoesOnWith(w, c, opened[c], projects),
           Awaited(r, c, opened[c], w),
           r.kind = "project" => r.basis \in Configurations,
           r.kind = "task" =>
              /\ r.project \in DOMAIN projects
              /\ projects[r.project].creator = r.creator
              /\ projects[r.project].request = r.request
    PROVE  MadeOK' /\ CallsOK' /\ WizardsOK'
<1>1. MadeOK'
  BY DEF CInv, MadeOK
<1>2. \A n \in Calls : calls'[n] = IF n = k THEN r ELSE calls[n]
  BY DEF CInv, CallsOK
<1>3. CallsOK'
  BY <1>2 DEF CInv, CallsOK
<1>4. /\ DOMAIN wizard' = Creators
      /\ \A o \in Creators : wizard'[o] = IF o = c THEN w ELSE wizard[o]
  BY DEF CInv, WizardsOK, Set
<1>5. \A o \in Creators : o # c => wizard[o].awaits # k
  BY CreationAssumption DEF CInv, WizardsOK, Awaited
<1>6. \A o \in Creators : wizard[o].awaits # Nobody => wizard[o].awaits \in Calls
  BY DEF CInv, WizardsOK, WizardOK
<1>7. WizardsOK'
  <2>1. ASSUME NEW o \in Creators, o # c
        PROVE  /\ WizardOK(wizard'[o], admin)
               /\ wizard'[o].awaits # Nobody =>
                     Awaited(calls'[wizard'[o].awaits], o, opened[o], wizard'[o])
               /\ wizard'[o].project # 0 =>
                     /\ wizard'[o].project \in DOMAIN projects
                     /\ IsOf(projects[wizard'[o].project], o, opened[o], wizard'[o])
    <3>1. wizard'[o] = wizard[o]
      BY <1>4, <2>1
    <3>2. wizard[o].awaits # Nobody => calls'[wizard[o].awaits] = calls[wizard[o].awaits]
      BY <1>2, <1>5, <1>6, <2>1
    <3> QED BY <3>1, <3>2 DEF CInv, WizardsOK
  <2>2. /\ WizardOK(wizard'[c], admin)
        /\ Awaited(calls'[wizard'[c].awaits], c, opened[c], wizard'[c])
        /\ wizard'[c].project # 0 =>
              /\ wizard'[c].project \in DOMAIN projects
              /\ IsOf(projects[wizard'[c].project], c, opened[c], wizard'[c])
    BY <1>2, <1>4 DEF GoesOnWith
  <2> QED BY <1>4, <2>1, <2>2 DEF CInv, WizardsOK
<1> QED BY <1>1, <1>3, <1>7

\* A call is answered; it may have made a project or a task.
LEMMA CallAnswered ==
    ASSUME CInv, UNCHANGED <<admin, opened>>, NEW k \in Calls, calls[k] # Nobody,
           NEW w, Answer(k, w), MadeOK',
           \A p \in DOMAIN projects : p \in DOMAIN projects' /\ projects'[p] = projects[p],
           wizard[calls[k].creator].awaits = k =>
              /\ WizardOK(w, admin) /\ w.awaits = Nobody
              /\ GoesOnWith(w, calls[k].creator, opened[calls[k].creator], projects')
    PROVE  MadeOK' /\ CallsOK' /\ WizardsOK'
<1>1. /\ \A n \in Calls : calls'[n] = IF n = k THEN Nobody ELSE calls[n]
      /\ calls' \in [Calls -> Call \cup {Nobody}]
  BY DEF CInv, CallsOK, Answer
<1>2. CallsOK'
  BY <1>1 DEF CInv, CallsOK
<1>3. /\ DOMAIN wizard' = Creators
      /\ \A o \in Creators :
            wizard'[o] = IF wizard[o].awaits = k THEN w ELSE wizard[o]
  BY DEF Answer
<1>4. k # Nobody
  BY CreationAssumption
<1>5. ASSUME NEW o \in Creators, wizard[o].awaits = k
      PROVE  o = calls[k].creator
  BY <1>4, <1>5 DEF CInv, WizardsOK, Awaited
<1>6. ASSUME NEW o \in Creators
      PROVE  /\ WizardOK(wizard'[o], admin)
             /\ wizard'[o].awaits # Nobody =>
                   Awaited(calls'[wizard'[o].awaits], o, opened[o], wizard'[o])
             /\ wizard'[o].project # 0 =>
                   /\ wizard'[o].project \in DOMAIN projects'
                   /\ IsOf(projects'[wizard'[o].project], o, opened[o], wizard'[o])
  <2>1. CASE wizard[o].awaits = k
    BY <1>3, <1>5, <2>1 DEF GoesOnWith
  <2>2. CASE wizard[o].awaits # k
    <3>1. wizard'[o] = wizard[o]
      BY <1>3, <2>2
    <3>2. /\ WizardOK(wizard[o], admin)
          /\ wizard[o].awaits # Nobody =>
                /\ wizard[o].awaits \in Calls
                /\ Awaited(calls[wizard[o].awaits], o, opened[o], wizard[o])
          /\ wizard[o].project # 0 =>
                /\ wizard[o].project \in DOMAIN projects
                /\ IsOf(projects[wizard[o].project], o, opened[o], wizard[o])
      BY DEF CInv, WizardsOK, WizardOK
    <3>3. wizard[o].awaits # Nobody => calls'[wizard[o].awaits] = calls[wizard[o].awaits]
      BY <1>1, <2>2, <3>2
    <3> QED BY <3>1, <3>2, <3>3
  <2> QED BY <2>1, <2>2
<1>7. WizardsOK'
  BY <1>3, <1>6 DEF CInv, WizardsOK
<1> QED BY <1>2, <1>7

-----------------------------------------------------------------------------
(* The steps of the wizards.                                               *)

\* What the server tells of a vehicle describes it.
LEMMA ToldOfVehicle ==
    ASSUME RecordOK, NEW v \in VehicleIds, Exists(admin, v)
    PROVE  /\ Describes(Shown(v), v, admin)
           /\ Configuration(v) \in Configurations
           /\ Configuration(v).shown = Shown(v)
<1>1. /\ admin \in State /\ VehiclesKeepTheirBrand(admin)
      /\ Len(admin.vehicles[v]) \in Nat
      /\ DOMAIN admin.vehicles[v] = 1 .. Len(admin.vehicles[v])
      /\ admin.associations[v].revision \in Nat
  BY StateTypes DEF RecordOK, Valid
<1>2. /\ Latest(admin, v).brand \in DOMAIN admin.brands
      /\ Latest(admin, v).brand = admin.vehicles[v][1].brand
  BY <1>1 DEF Exists, Latest, VehiclesKeepTheirBrand
<1>3. /\ admin.brands[Latest(admin, v).brand].revision \in Nat
      /\ Latest(admin, v).brand \in Nat
  BY <1>1, <1>2, StateTypes, StateParts, Elements
<1>4. Shown(v) \in Shows /\ Shown(v).brand = Latest(admin, v).brand
  BY <1>1, <1>3 DEF Shows, Shown
<1> QED BY <1>1, <1>2, <1>4 DEF Describes, Configuration, Configurations

\* A closed wizard shows nothing.
LEMMA ClosedOK ==
    /\ WizardOK(Closed, admin) /\ Closed.awaits = Nobody /\ Closed.project = 0
    /\ WizardOK([Closed EXCEPT !.step = "loading"], admin)
    /\ [Closed EXCEPT !.step = "loading"].awaits = Nobody
    /\ [Closed EXCEPT !.step = "loading"].project = 0
  BY DEF Closed, WizardOK, Fields

\* What is known of a wizard
LEMMA WizardKnown ==
    ASSUME CInv, NEW c \in Creators
    PROVE  /\ WizardOK(wizard[c], admin) /\ DOMAIN wizard[c] = Fields
           /\ GoesOnWith(wizard[c], c, opened[c], projects)
           /\ opened[c] \in Nat
           /\ \A v \in DOMAIN wizard[c].options :
                 v \in VehicleIds /\ Describes(wizard[c].options[v], v, admin)
  BY DEF CInv, WizardsOK, WizardOK, GoesOnWith, Describes

LEMMA OpenKeeps ==
    ASSUME CInv, NEW c \in Creators, Open(c)
    PROVE  MadeOK' /\ CallsOK' /\ WizardsOK'
<1> DEFINE w == [Closed EXCEPT !.step = "loading"]
<1>1. /\ UNCHANGED <<admin, calls, projects, tasks>>
      /\ opened' = [opened EXCEPT ![c] = @ + 1]
      /\ wizard' = [wizard EXCEPT ![c] = w]
  BY DEF Open, Set
<1>2. MadeOK' /\ CallsOK'
  BY <1>1 DEF CInv, MadeOK, CallsOK
<1>3. /\ opened' \in [Creators -> Nat] /\ DOMAIN wizard' = Creators
      /\ wizard'[c] = w
      /\ \A o \in Creators : o # c => wizard'[o] = wizard[o] /\ opened'[o] = opened[o]
  BY <1>1 DEF CInv, WizardsOK
<1>4. WizardOK(w, admin) /\ w.awaits = Nobody /\ w.project = 0
  BY ClosedOK
<1> HIDE DEF w
<1>5. WizardsOK'
  BY <1>1, <1>3, <1>4 DEF CInv, WizardsOK
<1> QED BY <1>2, <1>5

LEMMA LoadOptionsKeeps ==
    ASSUME CInv, UNCHANGED accessVars, NEW c \in Creators, LoadOptions(c)
    PROVE  MadeOK' /\ CallsOK' /\ WizardsOK'
<1> DEFINE offered == {v \in VehicleIds : Selectable(c, v)}
           options == [o \in offered |-> Shown(o)]
<1>1. PICK v \in offered :
        Set(c, [wizard[c] EXCEPT !.step = "ready", !.vehicle = v, !.options = options])
  BY DEF LoadOptions
<1>2. \A o \in DOMAIN options : Describes(options[o], o, admin)
  BY ToldOfVehicle DEF CInv, IInv, Selectable
<1>3. v \in DOMAIN options
  OBVIOUS
<1> HIDE DEF options
<1> DEFINE w == [wizard[c] EXCEPT !.step = "ready", !.vehicle = v, !.options = options]
<1>4. /\ wizard[c].step = "loading" /\ wizard[c].project = 0
      /\ wizard[c].awaits = Nobody /\ wizard[c].configuration = Unread
      /\ wizard[c].batch \in BatchNames \cup {Unnamed}
      /\ DOMAIN wizard[c] = Fields
  BY WizardKnown DEF LoadOptions, WizardOK
<1>5. /\ DOMAIN w = Fields /\ w.step = "ready" /\ w.vehicle = v /\ w.options = options
      /\ w.project = 0 /\ w.awaits = Nobody /\ w.configuration = Unread
      /\ w.batch = wizard[c].batch
  BY <1>4 DEF Fields
<1> HIDE DEF w
<1>6. WizardOK(w, admin) /\ GoesOnWith(w, c, opened[c], projects)
  BY <1>2, <1>3, <1>4, <1>5 DEF WizardOK, GoesOnWith
<1> QED BY <1>1, <1>5, <1>6, WizardMoves DEF LoadOptions, accessVars, w

LEMMA ChooseKeeps ==
    ASSUME CInv, UNCHANGED accessVars, NEW c \in Creators, NEW v \in VehicleIds, Choose(c, v)
    PROVE  MadeOK' /\ CallsOK' /\ WizardsOK'
<1> DEFINE w == [wizard[c] EXCEPT !.vehicle = v]
<1>1. /\ WizardOK(wizard[c], admin) /\ GoesOnWith(wizard[c], c, opened[c], projects)
      /\ wizard[c].step = "ready" /\ v \in DOMAIN wizard[c].options
      /\ DOMAIN wizard[c] = Fields
  BY WizardKnown DEF Choose
<1>2. /\ DOMAIN w = Fields /\ w.step = "ready" /\ w.vehicle = v
      /\ w.options = wizard[c].options /\ w.project = wizard[c].project
      /\ w.awaits = wizard[c].awaits /\ w.configuration = wizard[c].configuration
      /\ w.batch = wizard[c].batch
  BY <1>1 DEF Fields
<1> HIDE DEF w
<1>3. /\ WizardOK(w, admin) /\ w.awaits = Nobody
      /\ GoesOnWith(w, c, opened[c], projects)
  BY <1>1, <1>2 DEF WizardOK, GoesOnWith, IsOf
<1> QED BY <1>3, WizardMoves DEF Choose, accessVars, w

LEMMA SubmitKeeps ==
    ASSUME CInv, UNCHANGED accessVars, NEW c \in Creators, NEW batch \in BatchNames,
           Submit(c, batch)
    PROVE  MadeOK' /\ CallsOK' /\ WizardsOK'
<1> DEFINE step == IF wizard[c].project = 0 THEN "reading" ELSE "next"
           w == [wizard[c] EXCEPT !.step = step, !.batch = batch]
<1>1. /\ WizardOK(wizard[c], admin) /\ GoesOnWith(wizard[c], c, opened[c], projects)
      /\ wizard[c].step = "ready" /\ DOMAIN wizard[c] = Fields
  BY WizardKnown DEF Submit
<1>2. /\ DOMAIN w = Fields /\ w.step = step /\ w.vehicle = wizard[c].vehicle
      /\ w.options = wizard[c].options /\ w.project = wizard[c].project
      /\ w.awaits = wizard[c].awaits /\ w.configuration = wizard[c].configuration
      /\ w.batch = batch
  BY <1>1 DEF Fields
<1> HIDE DEF w
<1>3. /\ WizardOK(w, admin) /\ w.awaits = Nobody
      /\ GoesOnWith(w, c, opened[c], projects)
  BY <1>1, <1>2 DEF WizardOK, GoesOnWith, IsOf
<1> QED BY <1>3, WizardMoves DEF Submit, accessVars, w

LEMMA ReadPackageKeeps ==
    ASSUME CInv, UNCHANGED accessVars, NEW c \in Creators, ReadPackage(c)
    PROVE  MadeOK' /\ CallsOK' /\ WizardsOK'
<1> DEFINE package == [brand       |-> Shown(wizard[c].vehicle).brand,
                       association |-> Configuration(wizard[c].vehicle).association]
           w == [wizard[c] EXCEPT !.package = package]
<1>1. /\ WizardOK(wizard[c], admin) /\ GoesOnWith(wizard[c], c, opened[c], projects)
      /\ wizard[c].step = "reading" /\ DOMAIN wizard[c] = Fields
  BY WizardKnown DEF ReadPackage, Reads
<1> HIDE DEF package
<1>2. /\ DOMAIN w = Fields /\ w.step = "reading" /\ w.vehicle = wizard[c].vehicle
      /\ w.options = wizard[c].options /\ w.project = wizard[c].project
      /\ w.awaits = wizard[c].awaits /\ w.configuration = wizard[c].configuration
      /\ w.batch = wizard[c].batch
  BY <1>1 DEF Fields
<1> HIDE DEF w
<1>3. /\ WizardOK(w, admin) /\ w.awaits = Nobody
      /\ GoesOnWith(w, c, opened[c], projects)
  BY <1>1, <1>2 DEF WizardOK, GoesOnWith, IsOf
<1>4. Set(c, w)
  BY DEF ReadPackage, w, package
<1> QED BY <1>3, <1>4, WizardMoves DEF ReadPackage, accessVars

LEMMA ReadConfigurationKeeps ==
    ASSUME CInv, UNCHANGED accessVars, NEW c \in Creators, ReadConfiguration(c)
    PROVE  MadeOK' /\ CallsOK' /\ WizardsOK'
<1> DEFINE told == Configuration(wizard[c].vehicle)
           w == [wizard[c] EXCEPT !.configuration = told]
<1>1. /\ WizardOK(wizard[c], admin) /\ GoesOnWith(wizard[c], c, opened[c], projects)
      /\ wizard[c].step = "reading" /\ DOMAIN wizard[c] = Fields
      /\ wizard[c].vehicle \in VehicleIds
  BY WizardKnown DEF ReadConfiguration, Reads, WizardOK
<1>2. told \in Configurations /\ Describes(told.shown, wizard[c].vehicle, admin)
  BY <1>1, ToldOfVehicle DEF CInv, IInv, ReadConfiguration, Reads, Packaged, Selectable
<1>3. Set(c, w)
  BY DEF ReadConfiguration
<1> HIDE DEF told
<1>4. /\ DOMAIN w = Fields /\ w.step = "reading" /\ w.vehicle = wizard[c].vehicle
      /\ w.options = wizard[c].options /\ w.project = wizard[c].project
      /\ w.awaits = wizard[c].awaits /\ w.configuration = told
      /\ w.batch = wizard[c].batch
  BY <1>1 DEF Fields
<1> HIDE DEF w
<1>5. /\ WizardOK(w, admin) /\ w.awaits = Nobody
      /\ GoesOnWith(w, c, opened[c], projects)
  BY <1>1, <1>2, <1>4 DEF WizardOK, GoesOnWith, IsOf
<1> QED BY <1>3, <1>5, WizardMoves DEF ReadConfiguration, accessVars

\* A wizard that has failed is ready again, and has forgotten what it read.
LEMMA BackToReady ==
    ASSUME CInv, NEW c \in Creators, NEW w,
           wizard[c].step \in {"reading", "posted", "next"},
           w.step = "ready" /\ DOMAIN w = Fields /\ w.awaits = Nobody,
           w.vehicle = wizard[c].vehicle, w.options = wizard[c].options,
           w.project = wizard[c].project, w.batch = wizard[c].batch,
           w.configuration = Unread
    PROVE  WizardOK(w, admin) /\ GoesOnWith(w, c, opened[c], projects)
<1>1. WizardOK(wizard[c], admin) /\ GoesOnWith(wizard[c], c, opened[c], projects)
  BY WizardKnown
<1> QED BY <1>1 DEF WizardOK, GoesOnWith, IsOf

LEMMA FailKeeps ==
    ASSUME CInv, UNCHANGED accessVars, NEW c \in Creators, Fail(c)
    PROVE  MadeOK' /\ CallsOK' /\ WizardsOK'
<1> DEFINE w == [wizard[c] EXCEPT !.step = "ready", !.package = Unread,
                                  !.configuration = Unread]
<1>1. /\ wizard[c].step = "reading" /\ wizard[c].awaits = Nobody
      /\ DOMAIN wizard[c] = Fields
  BY WizardKnown DEF Fail, WizardOK
<1>2. /\ w.step = "ready" /\ DOMAIN w = Fields /\ w.awaits = Nobody
      /\ w.vehicle = wizard[c].vehicle /\ w.options = wizard[c].options
      /\ w.project = wizard[c].project /\ w.batch = wizard[c].batch
      /\ w.configuration = Unread
  BY <1>1 DEF Fields
<1>3. Set(c, w)
  BY DEF Fail
<1> HIDE DEF w
<1>4. WizardOK(w, admin) /\ GoesOnWith(w, c, opened[c], projects)
  BY <1>1, <1>2, BackToReady
<1> QED BY <1>2, <1>3, <1>4, WizardMoves DEF Fail, accessVars

LEMMA LoseAnswerKeeps ==
    ASSUME CInv, UNCHANGED accessVars, NEW c \in Creators, LoseAnswer(c)
    PROVE  MadeOK' /\ CallsOK' /\ WizardsOK'
<1> DEFINE w == [wizard[c] EXCEPT !.step = "ready", !.awaits = Nobody]
<1>1. /\ wizard[c].step \in {"posted", "next"} /\ wizard[c].configuration = Unread
      /\ DOMAIN wizard[c] = Fields
  BY WizardKnown DEF LoseAnswer, WizardOK
<1>2. /\ w.step = "ready" /\ DOMAIN w = Fields /\ w.awaits = Nobody
      /\ w.vehicle = wizard[c].vehicle /\ w.options = wizard[c].options
      /\ w.project = wizard[c].project /\ w.batch = wizard[c].batch
      /\ w.configuration = Unread
  BY <1>1 DEF Fields
<1>3. Set(c, w)
  BY DEF LoseAnswer
<1> HIDE DEF w
<1>4. WizardOK(w, admin) /\ GoesOnWith(w, c, opened[c], projects)
  BY <1>1, <1>2, BackToReady
<1> QED BY <1>2, <1>3, <1>4, WizardMoves DEF LoseAnswer, accessVars

LEMMA CloseKeeps ==
    ASSUME CInv, UNCHANGED accessVars, NEW c \in Creators,
           Close(c) \/ ResetForAccount(c)
    PROVE  MadeOK' /\ CallsOK' /\ WizardsOK'
<1>1. /\ Set(c, Closed) /\ UNCHANGED <<opened, calls, projects, tasks>>
  BY DEF Close, ResetForAccount
<1> QED BY <1>1, ClosedOK, WizardMoves DEF accessVars, GoesOnWith

\* What a wizard posts is what it shows: what it read has the revision and
\* the version of what it shows, and both describe one vehicle.
LEMMA PostsWhatItShows ==
    ASSUME CInv, NEW c \in Creators, wizard[c].step = "reading",
           wizard[c].configuration # Unread, Agrees(wizard[c])
    PROVE  wizard[c].configuration.shown = wizard[c].options[wizard[c].vehicle]
<1> DEFINE s == wizard[c].configuration.shown
           o == wizard[c].options[wizard[c].vehicle]
<1>1. WizardOK(wizard[c], admin)
  BY WizardKnown
<1>2. Describes(s, wizard[c].vehicle, admin) /\ Describes(o, wizard[c].vehicle, admin)
  BY <1>1 DEF WizardOK
<1>3. s.revision = o.revision /\ s.version = o.version
  BY DEF Agrees
<1> QED BY <1>2, <1>3 DEF Describes, Shows

LEMMA PostProjectKeeps ==
    ASSUME CInv, UNCHANGED accessVars, NEW c \in Creators, NEW k \in Calls,
           PostProject(c, k)
    PROVE  MadeOK' /\ CallsOK' /\ WizardsOK'
<1> DEFINE w == [wizard[c] EXCEPT !.step = "posted", !.awaits = k,
                                  !.package = Unread, !.configuration = Unread]
           r == [kind |-> "project", creator |-> c, request |-> opened[c],
                 stage |-> "arrived", vehicle |-> wizard[c].vehicle,
                 basis |-> wizard[c].configuration, batch |-> wizard[c].batch,
                 form |-> Unnamed, project |-> wizard[c].project]
<1>1. /\ WizardOK(wizard[c], admin) /\ DOMAIN wizard[c] = Fields
      /\ wizard[c].step = "reading" /\ wizard[c].configuration # Unread
      /\ opened[c] \in Nat /\ wizard[c].project = 0
  BY WizardKnown DEF PostProject, WizardOK
<1>2. wizard[c].vehicle \in VehicleIds /\ wizard[c].configuration \in Configurations
  BY <1>1, WizardKnown DEF WizardOK
<1>3. wizard[c].configuration.shown = wizard[c].options[wizard[c].vehicle]
  BY <1>1, PostsWhatItShows DEF PostProject
<1>4. /\ DOMAIN w = Fields /\ w.step = "posted" /\ w.vehicle = wizard[c].vehicle
      /\ w.options = wizard[c].options /\ w.project = 0
      /\ w.awaits = k /\ w.configuration = Unread
      /\ w.batch = wizard[c].batch
  BY <1>1 DEF Fields
<1>5. Set(c, w) /\ calls[k] = Nobody /\ calls' = [calls EXCEPT ![k] = r]
      /\ UNCHANGED <<opened, projects, tasks>>
  BY DEF PostProject, Send
<1>6. r \in Call
  BY <1>1, <1>2 DEF Call, WizardOK
<1>7. /\ r.kind = "project" /\ r.basis \in Configurations
      /\ r.creator = c /\ r.request = opened[c] /\ r.vehicle = wizard[c].vehicle
      /\ r.basis.shown = wizard[c].options[wizard[c].vehicle]
  BY <1>2, <1>3
<1> HIDE DEF w, r
<1>8. WizardOK(w, admin) /\ GoesOnWith(w, c, opened[c], projects)
  BY <1>1, <1>4 DEF WizardOK, GoesOnWith
<1>9. Awaited(r, c, opened[c], w)
  BY <1>4, <1>6, <1>7 DEF Awaited
<1> QED BY <1>4, <1>5, <1>6, <1>7, <1>8, <1>9, WizardPosts DEF accessVars

LEMMA PostTaskKeeps ==
    ASSUME CInv, UNCHANGED accessVars, NEW c \in Creators, NEW k \in Calls,
           NEW form \in Forms, PostTask(c, k, form)
    PROVE  MadeOK' /\ CallsOK' /\ WizardsOK'
<1> DEFINE w == [wizard[c] EXCEPT !.step = "posted", !.awaits = k]
           r == [kind |-> "task", creator |-> c, request |-> opened[c],
                 stage |-> "arrived", vehicle |-> wizard[c].vehicle,
                 basis |-> wizard[c].configuration, batch |-> wizard[c].batch,
                 form |-> form, project |-> wizard[c].project]
<1>1. /\ WizardOK(wizard[c], admin) /\ DOMAIN wizard[c] = Fields
      /\ wizard[c].step = "next" /\ wizard[c].configuration = Unread
      /\ opened[c] \in Nat /\ wizard[c].project # 0
      /\ GoesOnWith(wizard[c], c, opened[c], projects)
  BY WizardKnown DEF PostTask, WizardOK
<1>2. wizard[c].vehicle \in VehicleIds
  BY <1>1, WizardKnown DEF WizardOK
<1>3. /\ wizard[c].project \in DOMAIN projects
      /\ IsOf(projects[wizard[c].project], c, opened[c], wizard[c])
  BY <1>1 DEF GoesOnWith
<1>4. wizard[c].project \in Nat
  BY <1>3, Elements DEF CInv, MadeOK
<1>5. /\ DOMAIN w = Fields /\ w.step = "posted" /\ w.vehicle = wizard[c].vehicle
      /\ w.options = wizard[c].options /\ w.project = wizard[c].project
      /\ w.awaits = k /\ w.configuration = Unread
      /\ w.batch = wizard[c].batch
  BY <1>1 DEF Fields
<1>6. Set(c, w) /\ calls[k] = Nobody /\ calls' = [calls EXCEPT ![k] = r]
      /\ UNCHANGED <<opened, projects, tasks>>
  BY DEF PostTask, Send
<1>7. r \in Call
  BY <1>1, <1>2, <1>4 DEF Call, WizardOK
<1>8. /\ r.kind = "task" /\ r.creator = c /\ r.request = opened[c]
      /\ r.project = wizard[c].project
  OBVIOUS
<1> HIDE DEF w, r
<1>9. WizardOK(w, admin) /\ GoesOnWith(w, c, opened[c], projects)
  BY <1>1, <1>5 DEF WizardOK, GoesOnWith, IsOf
<1>10. Awaited(r, c, opened[c], w)
  BY <1>7, <1>8 DEF Awaited
<1> QED BY <1>3, <1>5, <1>6, <1>7, <1>8, <1>9, <1>10, WizardPosts DEF accessVars, IsOf

-----------------------------------------------------------------------------
(* The steps of the calls.                                                 *)

\* A wizard that waits for call k posted it.
LEMMA WhoWaits ==
    ASSUME CInv, NEW k \in Calls, calls[k] # Nobody
    PROVE  /\ calls[k] \in Call /\ calls[k].creator \in Creators
           /\ wizard[calls[k].creator].awaits = k =>
                 /\ wizard[calls[k].creator].step = "posted"
                 /\ wizard[calls[k].creator].configuration = Unread
                 /\ Awaited(calls[k], calls[k].creator, opened[calls[k].creator],
                            wizard[calls[k].creator])
<1>1. calls[k] \in Call
  BY DEF CInv, CallsOK
<1>2. calls[k].creator \in Creators
  BY <1>1 DEF Call
<1>3. k # Nobody
  BY CreationAssumption
<1> QED BY <1>1, <1>2, <1>3 DEF CInv, WizardsOK, WizardOK

\* It is ready again after a refusal,
LEMMA ResumedOK ==
    ASSUME CInv, NEW k \in Calls, calls[k] # Nobody,
           wizard[calls[k].creator].awaits = k
    PROVE  /\ WizardOK(Resumed(k), admin) /\ Resumed(k).awaits = Nobody
           /\ GoesOnWith(Resumed(k), calls[k].creator, opened[calls[k].creator], projects)
<1> DEFINE c == calls[k].creator
<1>1. c \in Creators /\ wizard[c].step = "posted" /\ wizard[c].configuration = Unread
  BY WhoWaits
<1>2. DOMAIN wizard[c] = Fields
  BY <1>1, WizardKnown
<1>3. /\ Resumed(k).step = "ready" /\ DOMAIN Resumed(k) = Fields
      /\ Resumed(k).awaits = Nobody
      /\ Resumed(k).vehicle = wizard[c].vehicle /\ Resumed(k).options = wizard[c].options
      /\ Resumed(k).project = wizard[c].project /\ Resumed(k).batch = wizard[c].batch
      /\ Resumed(k).configuration = Unread
  BY <1>1, <1>2 DEF Resumed, Fields
<1> HIDE DEF c
<1>4. WizardOK(Resumed(k), admin) /\ GoesOnWith(Resumed(k), c, opened[c], projects)
  BY <1>1, <1>3, BackToReady
<1> QED BY <1>3, <1>4 DEF c

\* and goes on with a project of its request, made as the call asked.
LEMMA CreatedOK ==
    ASSUME CInv, NEW k \in Calls, calls[k] # Nobody, calls[k].kind = "project",
           wizard[calls[k].creator].awaits = k,
           NEW made \in Seq(Projects), NEW p \in DOMAIN made,
           made[p].creator = calls[k].creator, made[p].request = calls[k].request,
           made[p].vehicle = calls[k].vehicle, made[p].basis = calls[k].basis
    PROVE  /\ WizardOK(Created(k, p), admin) /\ Created(k, p).awaits = Nobody
           /\ GoesOnWith(Created(k, p), calls[k].creator, opened[calls[k].creator], made)
<1> DEFINE c == calls[k].creator
           w == Created(k, p)
<1>1. /\ c \in Creators /\ wizard[c].step = "posted" /\ wizard[c].configuration = Unread
      /\ Awaited(calls[k], c, opened[c], wizard[c])
  BY WhoWaits
<1>2. DOMAIN wizard[c] = Fields /\ WizardOK(wizard[c], admin)
  BY <1>1, WizardKnown
<1>3. DOMAIN w = Fields /\ w.step = "next" /\ w.awaits = Nobody /\ w.project = p
      /\ w.vehicle = wizard[c].vehicle /\ w.options = wizard[c].options
      /\ w.batch = wizard[c].batch /\ w.configuration = Unread
  BY <1>1, <1>2 DEF Created, Resumed, Fields
<1>4. p # 0
  BY Elements
<1> HIDE DEF c, w
<1>5. WizardOK(w, admin)
  BY <1>2, <1>1, <1>3, <1>4 DEF WizardOK
<1>6. IsOf(made[p], c, opened[c], w)
  BY <1>1, <1>2, <1>3 DEF IsOf, Awaited, WizardOK, c
<1> QED BY <1>3, <1>5, <1>6 DEF GoesOnWith, c, w

LEMMA RefuseCallKeeps ==
    ASSUME CInv, UNCHANGED accessVars, NEW k \in Calls, calls[k] # Nobody,
           Answer(k, Resumed(k)), UNCHANGED <<opened, projects, tasks>>
    PROVE  MadeOK' /\ CallsOK' /\ WizardsOK'
<1>1. MadeOK'
  BY DEF CInv, MadeOK
<1> QED BY <1>1, ResumedOK, CallAnswered DEF accessVars

\* A call goes on in the server.
LEMMA StageMoves ==
    ASSUME CInv, UNCHANGED accessVars, UNCHANGED <<wizard, opened, projects, tasks>>,
           NEW k \in Calls, calls[k] # Nobody, NEW stage \in {"new", "selected"},
           calls' = [calls EXCEPT ![k].stage = stage]
    PROVE  MadeOK' /\ CallsOK' /\ WizardsOK'
<1> DEFINE r == [calls[k] EXCEPT !.stage = stage]
<1>1. calls[k] \in Call
  BY WhoWaits
<1>2. /\ r \in Call /\ r.kind = calls[k].kind /\ r.creator = calls[k].creator
      /\ r.request = calls[k].request /\ r.vehicle = calls[k].vehicle
      /\ r.basis = calls[k].basis /\ r.project = calls[k].project
  BY <1>1 DEF Call
<1>3. \A n \in Calls : calls'[n] = IF n = k THEN r ELSE calls[n]
  BY DEF CInv, CallsOK
<1>4. calls' \in [Calls -> Call \cup {Nobody}]
  BY <1>2 DEF CInv, CallsOK
<1> HIDE DEF r
<1>5. CallsOK'
  BY <1>2, <1>3, <1>4 DEF CInv, CallsOK
<1>6. ASSUME NEW c \in Creators, wizard[c].awaits # Nobody
      PROVE  Awaited(calls'[wizard[c].awaits], c, opened[c], wizard[c])
  <2>1. /\ wizard[c].awaits \in Calls
        /\ Awaited(calls[wizard[c].awaits], c, opened[c], wizard[c])
    BY <1>6 DEF CInv, WizardsOK, WizardOK
  <2> QED BY <1>2, <1>3, <2>1 DEF Awaited
<1>7. MadeOK' /\ WizardsOK'
  BY <1>6 DEF CInv, MadeOK, WizardsOK, accessVars
<1> QED BY <1>5, <1>7

LEMMA LookUpReplayKeeps ==
    ASSUME CInv, UNCHANGED accessVars, NEW k \in Calls, LookUpReplay(k)
    PROVE  MadeOK' /\ CallsOK' /\ WizardsOK'
<1>1. /\ calls[k] # Nobody /\ calls[k].kind = "project"
      /\ UNCHANGED <<opened, projects, tasks>>
  BY DEF LookUpReplay, IsAt
<1>2. CASE UNCHANGED wizard /\ calls' = [calls EXCEPT ![k].stage = "new"]
  BY <1>1, <1>2, StageMoves
<1>3. ASSUME NEW p \in Replays(k, projects), SamePayload(k, p), Answer(k, Created(k, p))
      PROVE  MadeOK' /\ CallsOK' /\ WizardsOK'
  <2>1. /\ p \in DOMAIN projects /\ projects \in Seq(Projects)
        /\ projects[p].creator = calls[k].creator /\ projects[p].request = calls[k].request
        /\ projects[p].vehicle = calls[k].vehicle /\ projects[p].basis = calls[k].basis
    BY <1>3 DEF Replays, SamePayload, CInv, MadeOK
  <2>2. MadeOK'
    BY <1>1 DEF CInv, MadeOK
  <2> QED BY <1>1, <1>3, <2>1, <2>2, CreatedOK, CallAnswered DEF accessVars
<1>4. CASE Answer(k, Resumed(k))
  BY <1>1, <1>4, RefuseCallKeeps
<1> QED BY <1>2, <1>3, <1>4 DEF LookUpReplay

\* The project a call makes is what the call asked for.
LEMMA ProjectMade ==
    ASSUME CInv, NEW k \in Calls, IsAt(k, "project", "selected"), AsExpected(k)
    PROVE  /\ Project(k) \in Projects
           /\ Project(k).creator = calls[k].creator
           /\ Project(k).request = calls[k].request
           /\ Project(k).vehicle = calls[k].vehicle
           /\ Project(k).basis = calls[k].basis
<1> DEFINE v == calls[k].vehicle
<1>1. /\ calls[k] \in Call /\ calls[k].basis \in Configurations
      /\ calls[k].creator \in Creators
  BY WhoWaits DEF IsAt, CInv, CallsOK
<1>2. /\ admin \in State /\ v \in VehicleIds /\ Exists(admin, v)
      /\ VehiclesKeepTheirBrand(admin)
  BY <1>1 DEF CInv, IInv, RecordOK, Valid, AsExpected, Packaged, Selectable, Call
<1>3. Latest(admin, v) \in Vehicle /\ Latest(admin, v).brand \in DOMAIN admin.brands
  <2>1. Len(admin.vehicles[v]) \in DOMAIN admin.vehicles[v]
    BY <1>2, StateTypes DEF Exists
  <2> QED BY <1>2, <2>1, StateTypes DEF Latest, VehiclesKeepTheirBrand
<1>4. admin.brands[Latest(admin, v).brand].name \in BrandNames /\ Latest(admin, v).key \in VehicleKeys
  BY <1>2, <1>3, StateTypes DEF Brand, Vehicle
<1> QED BY <1>1, <1>2, <1>4 DEF Project, Projects, Call

LEMMA CreateKeeps ==
    ASSUME CInv, UNCHANGED accessVars, NEW k \in Calls, Create(k)
    PROVE  MadeOK' /\ CallsOK' /\ WizardsOK'
<1>1. /\ calls[k] # Nobody /\ calls[k].kind = "project"
      /\ UNCHANGED <<opened, tasks>> /\ projects \in Seq(Projects)
  BY DEF Create, IsAt, CInv, MadeOK
<1>2. ASSUME NEW p \in Replays(k, projects), SamePayload(k, p), Answer(k, Created(k, p)),
             UNCHANGED projects
      PROVE  MadeOK' /\ CallsOK' /\ WizardsOK'
  <2>1. /\ p \in DOMAIN projects
        /\ projects[p].creator = calls[k].creator /\ projects[p].request = calls[k].request
        /\ projects[p].vehicle = calls[k].vehicle /\ projects[p].basis = calls[k].basis
    BY <1>2 DEF Replays, SamePayload
  <2>2. MadeOK'
    BY <1>1, <1>2 DEF CInv, MadeOK
  <2> QED BY <1>1, <1>2, <2>1, <2>2, CreatedOK, CallAnswered DEF accessVars
<1>3. CASE Answer(k, Resumed(k)) /\ UNCHANGED projects
  BY <1>1, <1>3, RefuseCallKeeps
<1>4. CASE /\ Replays(k, projects) = {}
           /\ projects' = Append(projects, Project(k))
           /\ Answer(k, Created(k, Len(projects) + 1))
  <2> DEFINE p == Len(projects) + 1
  <2>1. /\ Project(k) \in Projects
        /\ Project(k).creator = calls[k].creator /\ Project(k).request = calls[k].request
        /\ Project(k).vehicle = calls[k].vehicle /\ Project(k).basis = calls[k].basis
    BY ProjectMade DEF Create
  <2>2. /\ projects' \in Seq(Projects) /\ p \notin DOMAIN projects
        /\ DOMAIN projects' = DOMAIN projects \cup {p}
        /\ \A o \in DOMAIN projects : projects'[o] = projects[o]
        /\ projects'[p] = Project(k)
    BY <1>1, <1>4, <2>1, Appended
  <2> HIDE DEF p
  <2>3. \A o \in DOMAIN projects :
          ~(projects[o].creator = calls[k].creator /\ projects[o].request = calls[k].request)
    BY <1>4 DEF Replays
  <2>4. MadeOK'
    BY SMTT(30), <1>1, <2>1, <2>2, <2>3 DEF CInv, MadeOK
  <2>5. wizard[calls[k].creator].awaits = k =>
          /\ WizardOK(Created(k, p), admin) /\ Created(k, p).awaits = Nobody
          /\ GoesOnWith(Created(k, p), calls[k].creator, opened[calls[k].creator], projects')
    <3>1. /\ p \in DOMAIN projects'
          /\ projects'[p].creator = calls[k].creator
          /\ projects'[p].request = calls[k].request
          /\ projects'[p].vehicle = calls[k].vehicle /\ projects'[p].basis = calls[k].basis
      BY <2>1, <2>2
    <3> QED BY <1>1, <2>2, <3>1, CreatedOK
  <2>6. Answer(k, Created(k, p))
    BY <1>4 DEF p
  <2> QED BY <1>1, <2>2, <2>4, <2>5, <2>6, CallAnswered DEF accessVars
<1> QED BY <1>2, <1>3, <1>4 DEF Create

\* A task is made of a request once: the requests of one wizard are about one
\* project.
LEMMA CreateTaskKeeps ==
    ASSUME CInv, UNCHANGED accessVars, NEW k \in Calls, CreateTask(k)
    PROVE  MadeOK' /\ CallsOK' /\ WizardsOK'
<1> DEFINE mine == {t \in Replays(k, tasks) : tasks[t].project = calls[k].project}
           new == [creator |-> calls[k].creator, request |-> calls[k].request,
                   project |-> calls[k].project, form |-> calls[k].form]
<1>1. /\ calls[k] # Nobody /\ calls[k].kind = "task" /\ calls[k] \in Call
      /\ UNCHANGED <<opened, projects>>
      /\ tasks \in Seq(FirstTasks)
  BY WhoWaits DEF CreateTask, IsAt, CInv, MadeOK
<1>2. /\ calls[k].project \in DOMAIN projects
      /\ projects[calls[k].project].creator = calls[k].creator
      /\ projects[calls[k].project].request = calls[k].request
  BY <1>1 DEF CInv, CallsOK
<1>3. \A w : (w = Closed \/ w = Resumed(k)) /\ Answer(k, w) /\ MadeOK'
                => MadeOK' /\ CallsOK' /\ WizardsOK'
  <2>1. SUFFICES ASSUME NEW w, w = Closed \/ w = Resumed(k), Answer(k, w), MadeOK'
                 PROVE  MadeOK' /\ CallsOK' /\ WizardsOK'
    OBVIOUS
  <2>2. wizard[calls[k].creator].awaits = k =>
          /\ WizardOK(w, admin) /\ w.awaits = Nobody
          /\ GoesOnWith(w, calls[k].creator, opened[calls[k].creator], projects')
    BY <1>1, <2>1, ResumedOK, ClosedOK DEF GoesOnWith
  <2> QED BY <1>1, <2>1, <2>2, CallAnswered DEF accessVars
<1>4. CASE UNCHANGED tasks /\ (Answer(k, Closed) \/ Answer(k, Resumed(k)))
  <2>1. MadeOK'
    BY <1>1, <1>4 DEF CInv, MadeOK
  <2> QED BY <1>3, <1>4, <2>1
<1>5. CASE mine = {} /\ tasks' = Append(tasks, new) /\ Answer(k, Closed)
  <2>1. new \in FirstTasks
    BY <1>1 DEF FirstTasks, Call
  <2> DEFINE i == Len(tasks) + 1
  <2>2. /\ tasks' \in Seq(FirstTasks) /\ i \notin DOMAIN tasks
        /\ DOMAIN tasks' = DOMAIN tasks \cup {i}
        /\ \A t \in DOMAIN tasks : tasks'[t] = tasks[t]
        /\ tasks'[i] = new
    BY <1>1, <1>5, <2>1, Appended
  <2>3. ASSUME NEW t \in DOMAIN tasks, tasks[t].creator = calls[k].creator,
               tasks[t].request = calls[k].request
        PROVE  FALSE
    <3>1. tasks[t].project = calls[k].project
      BY <1>2, <2>3 DEF CInv, MadeOK
    <3> QED BY <1>5, <2>3, <3>1 DEF Replays
  <2>4. new.creator = calls[k].creator /\ new.request = calls[k].request
        /\ new.project = calls[k].project
    OBVIOUS
  <2> HIDE DEF i, new, mine
  <2>5. MadeOK'
    BY <1>1, <1>2, <2>2, <2>3, <2>4 DEF CInv, MadeOK
  <2> QED BY <1>3, <1>5, <2>5
<1> QED BY <1>4, <1>5 DEF CreateTask

LEMMA RestartKeeps ==
    ASSUME CInv, UNCHANGED accessVars, Restart
    PROVE  MadeOK' /\ CallsOK' /\ WizardsOK'
<1>1. /\ UNCHANGED <<opened, projects, tasks>>
      /\ calls' = [k \in Calls |-> Nobody]
      /\ wizard' = [c \in Creators |->
             IF wizard[c].awaits = Nobody THEN wizard[c]
             ELSE [wizard[c] EXCEPT !.step = "ready", !.awaits = Nobody]]
  BY DEF Restart
<1>2. MadeOK' /\ CallsOK'
  BY <1>1 DEF CInv, MadeOK, CallsOK
<1>3. ASSUME NEW c \in Creators
      PROVE  /\ WizardOK(wizard'[c], admin) /\ wizard'[c].awaits = Nobody
             /\ GoesOnWith(wizard'[c], c, opened[c], projects)
  <2>1. CASE wizard[c].awaits = Nobody
    BY <1>1, <2>1, WizardKnown
  <2>2. CASE wizard[c].awaits # Nobody
    <3> DEFINE w == [wizard[c] EXCEPT !.step = "ready", !.awaits = Nobody]
    <3>1. /\ wizard[c].step = "posted" /\ wizard[c].configuration = Unread
          /\ DOMAIN wizard[c] = Fields
      BY <2>2, WizardKnown DEF WizardOK
    <3>2. /\ w.step = "ready" /\ DOMAIN w = Fields /\ w.awaits = Nobody
          /\ w.vehicle = wizard[c].vehicle /\ w.options = wizard[c].options
          /\ w.project = wizard[c].project /\ w.batch = wizard[c].batch
          /\ w.configuration = Unread
      BY <3>1 DEF Fields
    <3>3. wizard'[c] = w
      BY <1>1, <2>2
    <3> HIDE DEF w
    <3> QED BY <3>1, <3>2, <3>3, BackToReady
  <2> QED BY <2>1, <2>2
<1>4. WizardsOK'
  BY <1>1, <1>3 DEF CInv, WizardsOK, GoesOnWith, accessVars
<1> QED BY <1>2, <1>4

-----------------------------------------------------------------------------
(* All steps together.                                                     *)

\* A session and a request are of the accounts there are.
LEMMA AccountsKeep == CInv /\ [Next]_vars => AccountsOK'
<1> SUFFICES ASSUME CInv, [Next]_vars PROVE AccountsOK'
  OBVIOUS
<1> USE AccessAssumption, CreationAssumption
<1>1. ASSUME NEW m \in Admins, Administer(m)
      PROVE  /\ changes' \in 0 .. MaxChanges
             /\ UNCHANGED <<signedIn, switching>>
             /\ request' = [request EXCEPT ![m] = NoRequest]
  <2>1. /\ changes < MaxChanges /\ changes' = changes + 1
        /\ UNCHANGED <<signedIn, switching>>
    BY <1>1 DEF Administer, Commit, CreateBrand, UpdateBrand, CreateVehicle,
                CreateVehicleFactVersion, ReplaceVehicleAssetAssociations,
                CreateAccessGrant, UpdateAccessGrant
  <2> QED BY <1>1, <2>1, AdministerLocals DEF CInv, AccountsOK
<1>2. ASSUME NEW m \in Admins, Admit(m)
      PROVE  request' \in [Admins -> {NoRequest} \cup
                              [granted: SUBSET Nat, usable: SUBSET VehicleIds]]
  <2>1. ManagedBrands(admin, m) \subseteq Nat
    BY StateParts, Elements DEF CInv, IInv, RecordOK, ManagedBrands
  <2> QED BY <1>2, <2>1 DEF Admit, CInv, AccountsOK
<1>3. CASE AccessNext /\ UNCHANGED creationVars
  <2>1. UNCHANGED lost
    BY <1>3 DEF creationVars
  <2>2. ASSUME NEW account \in Accounts, SignIn(account) \/ EndSession(account)
        PROVE  AccountsOK'
    BY <2>1, <2>2 DEF SignIn, EndSession, CInv, AccountsOK
  <2>3. ASSUME NEW account \in Accounts, NEW other \in Accounts, Switch(account, other)
        PROVE  AccountsOK'
    BY <2>1, <2>3 DEF Switch, CInv, AccountsOK
  <2>4. CASE FinishSwitch
    BY <2>1, <2>4 DEF FinishSwitch, CInv, AccountsOK
  <2>5. ASSUME NEW m \in Admins, LoadPage(m) \/ Refuse(m)
        PROVE  AccountsOK'
    BY <2>1, <2>5 DEF LoadPage, Refuse, CInv, AccountsOK
  <2>6. ASSUME NEW m \in Admins, Admit(m)
        PROVE  AccountsOK'
    BY <1>2, <2>1, <2>6 DEF Admit, CInv, AccountsOK
  <2>7. ASSUME NEW m \in Admins, Administer(m)
        PROVE  AccountsOK'
    BY <1>1, <2>1, <2>7 DEF CInv, AccountsOK
  <2> QED BY <1>3, <2>2, <2>3, <2>4, <2>5, <2>6, <2>7 DEF AccessNext
<1>4. ASSUME NEW c \in Creators, Open(c)
      PROVE  AccountsOK'
  BY <1>4 DEF Open, CInv, AccountsOK
<1>5. CASE Produce /\ UNCHANGED accessVars
  <2>1. lost' = lost \/ (lost < MaxLost /\ lost' = lost + 1)
    BY ZenonT(30), <1>5 DEF Produce, LoadOptions, Close, ResetForAccount, Choose, Submit, ReadPackage,
                ReadConfiguration, Fail, LoseAnswer, PostProject, PostTask, Send,
                LookUpReplay, Select, Reject, RefuseCall, Create, CreateTask, RefuseTask,
                Restart
  <2> QED BY <1>5, <2>1 DEF accessVars, CInv, AccountsOK
<1>6. CASE UNCHANGED vars
  BY <1>6 DEF vars, accessVars, creationVars, CInv, AccountsOK
<1> QED BY <1>3, <1>4, <1>5, <1>6 DEF Next

LEMMA InitCInv == Init => CInv
<1> SUFFICES ASSUME Init PROVE CInv
  OBVIOUS
<1>1. IInv
  BY InitIInv
<1>2. AccountsOK
  BY AccessAssumption, CreationAssumption DEF Init, AccessInit, AccountsOK
<1>3. MadeOK
  BY DEF Init, MadeOK
<1>4. CallsOK
  BY DEF Init, CallsOK
<1>5. WizardsOK
  BY ClosedOK DEF Init, WizardsOK
<1> QED BY <1>1, <1>2, <1>3, <1>4, <1>5 DEF CInv

\* A step of a wizard or of one of its calls
LEMMA ProduceKeeps ==
    ASSUME CInv, UNCHANGED accessVars, Produce
    PROVE  MadeOK' /\ CallsOK' /\ WizardsOK'
<1>1. ASSUME NEW k \in Calls, Select(k) \/ Reject(k) \/ RefuseTask(k)
      PROVE  MadeOK' /\ CallsOK' /\ WizardsOK'
  <2>1. calls[k] # Nobody
    BY <1>1 DEF Select, Reject, RefuseTask, IsAt
  <2>2. CASE Select(k)
    BY <2>1, <2>2, StageMoves DEF Select
  <2>3. CASE RefuseCall(k)
    BY <2>1, <2>3, RefuseCallKeeps DEF RefuseCall
  <2> QED BY <1>1, <2>2, <2>3 DEF Reject, RefuseTask
<1> QED BY <1>1, LoadOptionsKeeps, CloseKeeps, ChooseKeeps, SubmitKeeps,
           ReadPackageKeeps, ReadConfigurationKeeps, FailKeeps, LoseAnswerKeeps,
           PostProjectKeeps, PostTaskKeeps, LookUpReplayKeeps, CreateKeeps,
           CreateTaskKeeps, RestartKeeps DEF Produce

LEMMA NextCInv == CInv /\ [Next]_vars => CInv'
<1> SUFFICES ASSUME CInv, [Next]_vars PROVE CInv'
  OBVIOUS
<1>1. IInv' /\ AccountsOK'
  BY NextIInv, AccountsKeep DEF CInv
<1>2. CASE (AccessNext /\ UNCHANGED creationVars) \/ UNCHANGED vars
  <2>1. UNCHANGED creationVars
    BY <1>2 DEF vars
  <2>2. MadeOK' /\ CallsOK'
    BY <2>1 DEF creationVars, CInv, MadeOK, CallsOK
  <2>3. Later(admin, admin')
    <3>1. CASE \E m \in Admins : Administer(m)
      BY <3>1, AdministerKeeps DEF CInv, IInv
    <3>2. CASE UNCHANGED admin
      BY <3>2, LaterReflexive DEF CInv, IInv, RecordOK
    <3> QED BY <3>1, <3>2, StepParts
  <2>4. \A c \in Creators : WizardOK(wizard[c], admin')
    BY <1>1, <2>3, LaterDescribes DEF CInv, IInv, RecordOK, WizardsOK
  <2>5. WizardsOK'
    BY <2>1, <2>4 DEF creationVars, CInv, WizardsOK
  <2> QED BY <1>1, <2>2, <2>5 DEF CInv
<1>3. CASE \E c \in Creators : Open(c)
  BY <1>1, <1>3, OpenKeeps DEF CInv
<1>4. CASE Produce /\ UNCHANGED accessVars
  BY <1>1, <1>4, ProduceKeeps DEF CInv
<1> QED BY <1>2, <1>3, <1>4 DEF Next

\* Whatever a wizard shows and submits again, over lost answers, calls that
\* overtake each other and a server that stops, it makes one project and one
\* task, and goes on with a project of the vehicle version, brand revision
\* and brand it showed, although it posts no brand.
THEOREM OnePerWizard == Spec => []OneProjectAsShown
<1>1. CInv => OneProjectAsShown
  <2> SUFFICES ASSUME CInv PROVE OneProjectAsShown
    OBVIOUS
  <2>1. TypeOK
    BY DEF CInv, IInv, RecordOK, PagesAreFormer, AccountsOK, TypeOK
  <2>2. ASSUME NEW c \in Creators
        PROVE  /\ wizard[c].step \in {"closed", "loading", "ready", "reading", "posted", "next"}
               /\ wizard[c].project \in {0} \cup DOMAIN projects
               /\ wizard[c].awaits \in Calls \cup {Nobody}
               /\ wizard[c].project # 0 =>
                     IsOf(projects[wizard[c].project], c, opened[c], wizard[c])
    BY DEF CInv, WizardsOK, WizardOK
  <2>3. CreationTypeOK
    BY <2>1, <2>2 DEF CreationTypeOK, CInv, AccountsOK, WizardsOK, CallsOK, MadeOK
  <2> QED BY <2>2, <2>3 DEF OneProjectAsShown, IsOf, CInv, MadeOK
<1> QED BY <1>1, InitCInv, NextCInv, PTL DEF Spec

\* What a project is made of is current when it is written, whatever changed
\* after the wizard, or the call, had read it.
THEOREM OnlyFromCurrent == Spec => CreatedFromCurrent
<1> DEFINE Current == \A p \in DOMAIN projects' \ DOMAIN projects :
        LET new == projects'[p] IN
            /\ new.basis = Configuration(new.vehicle)
            /\ admin.brands[new.basis.shown.brand].active
            /\ Latest(admin, new.vehicle).active
            /\ \E g \in DOMAIN admin.grants :
                  /\ admin.grants[g].account = new.creator
                  /\ admin.grants[g].vehicle = new.vehicle
                  /\ admin.grants[g].active
<1>1. ASSUME CInv, [Next]_vars
      PROVE  \/ UNCHANGED projects
             \/ \E k \in Calls : Create(k) /\ projects' = Append(projects, Project(k))
  <2>1. ASSUME NEW c \in Creators,
               \/ Open(c) \/ LoadOptions(c) \/ Close(c) \/ ResetForAccount(c)
               \/ ReadPackage(c) \/ ReadConfiguration(c) \/ Fail(c) \/ LoseAnswer(c)
        PROVE  UNCHANGED projects
    BY <2>1 DEF creationVars, Open, LoadOptions, Close, ResetForAccount,
                ReadPackage, ReadConfiguration, Fail, LoseAnswer
  <2>2. ASSUME NEW c \in Creators, NEW v \in VehicleIds, Choose(c, v)
        PROVE  UNCHANGED projects
    BY <2>2 DEF Choose
  <2>3. ASSUME NEW c \in Creators, NEW batch \in BatchNames, Submit(c, batch)
        PROVE  UNCHANGED projects
    BY <2>3 DEF Submit
  <2>4. ASSUME NEW c \in Creators, NEW k \in Calls,
               PostProject(c, k) \/ \E form \in Forms : PostTask(c, k, form)
        PROVE  UNCHANGED projects
    BY <2>4 DEF PostProject, PostTask, Send
  <2>5. ASSUME NEW k \in Calls,
               \/ LookUpReplay(k) \/ Select(k) \/ Reject(k)
               \/ CreateTask(k) \/ RefuseTask(k)
        PROVE  UNCHANGED projects
    BY <2>5 DEF LookUpReplay, Select, Reject, RefuseCall, CreateTask, RefuseTask
  <2>6. ASSUME NEW k \in Calls, Create(k)
        PROVE  UNCHANGED projects \/ projects' = Append(projects, Project(k))
    BY <2>6 DEF Create
  <2>7. CASE Restart
    BY <2>7 DEF Restart
  <2>8. CASE (AccessNext /\ UNCHANGED creationVars) \/ UNCHANGED vars
    BY <2>8 DEF vars, creationVars
  <2> QED BY <1>1, <2>1, <2>2, <2>3, <2>4, <2>5, <2>6, <2>7, <2>8 DEF Next, Produce
<1>2. ASSUME CInv, NEW k \in Calls, Create(k), projects' = Append(projects, Project(k))
      PROVE  Current
  <2>1. /\ Project(k) \in Projects /\ projects \in Seq(Projects)
        /\ Project(k).creator = calls[k].creator
        /\ Project(k).vehicle = calls[k].vehicle /\ Project(k).basis = calls[k].basis
    BY <1>2, ProjectMade DEF Create, CInv, MadeOK
  <2>2. \A p \in DOMAIN projects' \ DOMAIN projects : projects'[p] = Project(k)
    BY <1>2, <2>1, Appended
  <2>3. /\ calls[k].basis = Configuration(calls[k].vehicle)
        /\ Selectable(calls[k].creator, calls[k].vehicle)
    BY <1>2 DEF Create, AsExpected, Packaged
  <2>4. calls[k].basis.shown.brand = Latest(admin, calls[k].vehicle).brand
    BY <2>3 DEF Configuration, Shown
  <2> HIDE DEF Configuration
  <2> QED BY <2>1, <2>2, <2>3, <2>4 DEF Selectable, Holds
<1>3. CInv /\ [Next]_vars => [Current]_vars
  BY <1>1, <1>2
<1>4. Spec => [][Current]_vars
  BY <1>3, InitCInv, NextCInv, PTL DEF Spec
<1>5. CreatedFromCurrent <=> [][Current]_vars
  BY DEF CreatedFromCurrent
<1> QED BY <1>4, <1>5

-----------------------------------------------------------------------------
(* The browser's page. *)

Chosen == Tasks \cup {None}
Views == {"closed", "overview", "assets", "planning"}
Listings == [Tasks -> 0 .. MaxRevision]
AgentSessions == [account : DevAccounts, task : Tasks, id : 1 .. MaxSessions]
StageViews == [account : DevAccounts, task : Tasks]

Flows == {"restore", "select", "reset", "send", "execute", "refresh",
          "library"} \cup PageFlows

Steps == {"list", "get", "create", "transcript", "reset", "run", "command",
          "task", "load", "reload", "switch", "session", "brands", "confirm",
          "reopen", "upload", "view", "mutate", "video"}

AwaitRecords ==
    [flow : Flows, step : Steps, account : DevAccounts, task : Chosen,
     session : AgentSessions \cup {None}, revision : Nat,
     scope : BOOLEAN, newest : BOOLEAN]

SwitchRecords ==
    [flow : {"switch"}, step : Steps, account : DevAccounts,
     to : DevAccounts, listed : Listings, scope : BOOLEAN, newest : BOOLEAN]

AwaitSet == AwaitRecords \cup SwitchRecords

LibraryPart == [tasks : Listings, loading : BOOLEAN]
FramePart == [task : Chosen, view : Views, listed : Listings]
AgentPart == [task : Chosen, session : AgentSessions \cup {None},
              revision : Nat]
AssetsPart == [key : {<<>>} \cup (Tasks \X Nat), task : Chosen,
               busy : BOOLEAN, shows : StageViews \cup {None}]
StagesPart == [account : DevAccounts \cup {None}, task : Chosen,
               revision : Nat, visible : BOOLEAN, busy : BOOLEAN,
               shows : StageViews \cup {None}]

\* The states of the page
Pages ==
    [account : DevAccounts, busy : BOOLEAN, workflow : BOOLEAN,
     hydrating : BOOLEAN, entry : BOOLEAN, center : BOOLEAN,
     library : LibraryPart, frame : FramePart, agent : AgentPart,
     card : Nat, escaped : BOOLEAN, assets : AssetsPart,
     stages : StagesPart, calls : SUBSET AwaitSet]

\* The flows that hold a flag of the page until they end: those the agent
\* panel starts, a restoration that is still current, and an account switch.
Held(c) == c.flow \in {"select", "reset", "send", "execute"}
Restores(c) == c.flow = "restore" /\ c.newest /\ c.scope
Switches(c) ==
    c.flow = "switch" \/ (c.flow = "library" /\ c.step = "switch" /\ c.scope)

OfStages(c) == c.flow \in {"stages", "stage work"}
HasTask(c) ==
    c.flow \in {"restore", "select", "reset", "send", "execute", "refresh"}
               \cup PageFlows
HasSession(c) ==
    \/ c.flow \in {"reset", "send", "execute", "refresh"}
    \/ c.flow \in {"restore", "select"} /\ c.step = "get"

AwaitFits(w, c) ==
    /\ HasTask(c) => c.task \in Tasks
    /\ HasSession(c) => c.session \in AgentSessions
    /\ c.scope /\ c.flow \notin PageFlows => c.account = w.account
    /\ c.scope /\ OfStages(c) =>
          c.account = w.account /\ c.task = w.stages.task
    /\ c.flow # "switch" /\ c.session # None =>
          /\ c.session.task = c.task
          /\ ~w.escaped => c.session.account = c.account

\* A flag is set as long as a flow that gives it back is under way, and no two
\* flows give back the same one.
FlowsFit(w) ==
    /\ \A c \in w.calls : Held(c) =>
          /\ w.agent.task = c.task /\ c.account = w.account
          /\ IF c.flow = "execute" THEN w.workflow ELSE w.busy
    /\ \A c \in w.calls : Restores(c) => w.busy
    /\ \A c \in w.calls : Switches(c) => w.workflow
    /\ \A c, d \in w.calls : Held(c) /\ Held(d) => c = d
    /\ \A c, d \in w.calls : Restores(c) /\ Restores(d) => c = d
    /\ \A c, d \in w.calls : Switches(c) /\ Switches(d) => c = d
    /\ \A c, d \in w.calls : Held(c) => ~Restores(d) /\ ~Switches(d)
    /\ \A c, d \in w.calls : Switches(c) /\ c.scope => ~Restores(d)

ShowsFit(w) ==
    /\ w.agent.session # None =>
          /\ w.agent.session.task = w.agent.task
          /\ ~w.escaped => w.agent.session.account = w.account
    /\ w.stages.shows # None =>
          w.stages.shows = [account |-> w.account, task |-> w.stages.task]

PageFits(w) ==
    /\ w \in Pages
    /\ ShowsFit(w)
    /\ \A c \in w.calls : AwaitFits(w, c)
    /\ ~w.escaped => FlowsFit(w)

FrameFits(w) ==
    /\ w.frame.view = "closed" => w.frame.task = None
    /\ w.frame.view # "closed" =>
          w.frame.task = w.agent.task /\ w.stages.task = w.frame.task
    /\ ~w.escaped => \A c \in w.calls : Held(c) => w.frame.view # "closed"

WebInv ==
    /\ PageFits(web)
    /\ FrameFits(web)
    /\ revision \in [Tasks -> 1 .. MaxRevision]
    /\ sessions \subseteq AgentSessions
    /\ IsFiniteSet(sessions)

-----------------------------------------------------------------------------
(* Awaits lose their scope or are not the newest any more, nothing else. *)

Fades(c, d) ==
    \E s, n \in BOOLEAN :
        /\ s => c.scope
        /\ n => c.newest
        /\ d = [c EXCEPT !.scope = s, !.newest = n]

LEMMA AwaitKinds ==
    ASSUME NEW c \in AwaitSet
    PROVE  /\ c.flow = "switch" => c \in SwitchRecords
           /\ c.flow # "switch" => c \in AwaitRecords
           /\ c.scope \in BOOLEAN /\ c.newest \in BOOLEAN
           /\ c.account \in DevAccounts
           /\ c.step \in Steps
BY DEF AwaitSet, AwaitRecords, SwitchRecords, Flows, PageFlows

LEMMA FadedFields ==
    ASSUME NEW c \in AwaitSet, NEW d, Fades(c, d)
    PROVE  /\ d \in AwaitSet
           /\ d.flow = c.flow /\ d.step = c.step /\ d.account = c.account
           /\ d.scope => c.scope
           /\ d.newest => c.newest
           /\ c.flow # "switch" =>
                 /\ d.task = c.task /\ d.session = c.session
                 /\ d.revision = c.revision
           /\ c.flow = "switch" => d.to = c.to /\ d.listed = c.listed
<1>1. PICK s \in BOOLEAN, n \in BOOLEAN :
          /\ s => c.scope
          /\ n => c.newest
          /\ d = [c EXCEPT !.scope = s, !.newest = n]
  BY DEF Fades
<1>2. ASSUME c \in AwaitRecords
      PROVE  /\ d \in AwaitRecords
             /\ d.flow = c.flow /\ d.step = c.step /\ d.account = c.account
             /\ d.scope = s /\ d.newest = n
             /\ d.task = c.task /\ d.session = c.session
             /\ d.revision = c.revision
             /\ c.flow # "switch"
  BY <1>1, <1>2 DEF AwaitRecords, Flows, PageFlows
<1>3. ASSUME c \in SwitchRecords
      PROVE  /\ d \in SwitchRecords
             /\ d.flow = c.flow /\ d.step = c.step /\ d.account = c.account
             /\ d.scope = s /\ d.newest = n
             /\ d.to = c.to /\ d.listed = c.listed
             /\ c.flow = "switch"
  BY <1>1, <1>3 DEF SwitchRecords
<1> QED BY <1>1, <1>2, <1>3 DEF AwaitSet

LEMMA SelfFades ==
    ASSUME NEW c \in AwaitSet
    PROVE  Fades(c, c)
<1>1. c.scope \in BOOLEAN /\ c.newest \in BOOLEAN BY AwaitKinds
<1>2. c = [c EXCEPT !.scope = c.scope, !.newest = c.newest]
  <2>1. CASE c \in AwaitRecords BY <2>1 DEF AwaitRecords
  <2>2. CASE c \in SwitchRecords BY <2>2 DEF SwitchRecords
  <2> QED BY <2>1, <2>2 DEF AwaitSet
<1> QED BY <1>1, <1>2 DEF Fades

LEMMA ScopeFades ==
    ASSUME NEW c \in AwaitSet
    PROVE  Fades(c, [c EXCEPT !.scope = FALSE])
<1>1. c.scope \in BOOLEAN /\ c.newest \in BOOLEAN BY AwaitKinds
<1>2. [c EXCEPT !.scope = FALSE]
          = [c EXCEPT !.scope = FALSE, !.newest = c.newest]
  <2>1. CASE c \in AwaitRecords BY <2>1 DEF AwaitRecords
  <2>2. CASE c \in SwitchRecords BY <2>2 DEF SwitchRecords
  <2> QED BY <2>1, <2>2 DEF AwaitSet
<1> QED BY <1>1, <1>2 DEF Fades

LEMMA NewestFades ==
    ASSUME NEW c \in AwaitSet
    PROVE  /\ Fades(c, [c EXCEPT !.newest = FALSE])
           /\ ~[c EXCEPT !.newest = FALSE].newest
<1>1. c.scope \in BOOLEAN /\ c.newest \in BOOLEAN BY AwaitKinds
<1>2. [c EXCEPT !.newest = FALSE]
          = [c EXCEPT !.scope = c.scope, !.newest = FALSE]
  <2>1. CASE c \in AwaitRecords BY <2>1 DEF AwaitRecords
  <2>2. CASE c \in SwitchRecords BY <2>2 DEF SwitchRecords
  <2> QED BY <2>1, <2>2 DEF AwaitSet
<1>3. ~[c EXCEPT !.newest = FALSE].newest
  <2>1. CASE c \in AwaitRecords BY <2>1 DEF AwaitRecords
  <2>2. CASE c \in SwitchRecords BY <2>2 DEF SwitchRecords
  <2> QED BY <2>1, <2>2 DEF AwaitSet
<1> QED BY <1>1, <1>2, <1>3 DEF Fades

\* The awaits of v are some of those of w, each as it was or faded.
Carried(v, w) ==
    \E f \in [w.calls -> AwaitSet] :
        /\ \A c \in w.calls : Fades(c, f[c])
        /\ v.calls \subseteq {f[c] : c \in w.calls}

\* What the awaits are compared with is the same.
Alike(v, w) ==
    /\ v.account = w.account /\ v.escaped = w.escaped
    /\ v.busy = w.busy /\ v.workflow = w.workflow
    /\ v.agent = w.agent
    /\ v.stages.task = w.stages.task /\ v.stages.shows = w.stages.shows

LEMMA FadedFits ==
    ASSUME NEW w, NEW v, NEW c \in AwaitSet, NEW d, Fades(c, d),
           v.account = w.account, v.escaped = w.escaped,
           v.stages.task = w.stages.task, AwaitFits(w, c)
    PROVE  AwaitFits(v, d)
<1>1. /\ d.flow = c.flow /\ d.step = c.step /\ d.account = c.account
      /\ d.scope => c.scope
      /\ c.flow # "switch" => d.task = c.task /\ d.session = c.session
  BY FadedFields
<1>2. CASE c.flow = "switch"
  <2>1. c.scope => c.account = w.account
    BY <1>2 DEF AwaitFits, PageFlows
  <2> QED BY <1>1, <1>2, <2>1
          DEF AwaitFits, HasTask, HasSession, OfStages, PageFlows
<1>3. CASE c.flow # "switch"
  <2>1. d.task = c.task /\ d.session = c.session BY <1>1, <1>3
  <2>2. HasTask(d) = HasTask(c) /\ HasSession(d) = HasSession(c)
           /\ OfStages(d) = OfStages(c)
    BY <1>1 DEF HasTask, HasSession, OfStages
  <2> QED BY <1>1, <2>1, <2>2 DEF AwaitFits
<1> QED BY <1>2, <1>3

LEMMA FadedOwners ==
    ASSUME NEW c \in AwaitSet, NEW d, Fades(c, d)
    PROVE  /\ Held(d) <=> Held(c)
           /\ Restores(d) => Restores(c)
           /\ Switches(d) => Switches(c)
BY FadedFields DEF Held, Restores, Switches

LEMMA CarriedFits ==
    ASSUME NEW w, PageFits(w), NEW v \in Pages, Alike(v, w), Carried(v, w)
    PROVE  PageFits(v)
<1>1. PICK f \in [w.calls -> AwaitSet] :
          /\ \A c \in w.calls : Fades(c, f[c])
          /\ v.calls \subseteq {f[c] : c \in w.calls}
  BY DEF Carried
<1>2. \A c \in w.calls : c \in AwaitSet
  BY DEF PageFits, Pages
<1>3. ShowsFit(v)
  BY DEF PageFits, ShowsFit, Alike
<1>4. ASSUME NEW d \in v.calls
      PROVE  \E c \in w.calls : d = f[c] /\ Fades(c, d)
  BY <1>1
<1>5. ASSUME NEW d \in v.calls PROVE AwaitFits(v, d)
  <2>1. PICK c \in w.calls : Fades(c, d) BY <1>4
  <2>2. AwaitFits(w, c) BY DEF PageFits
  <2> QED BY <2>1, <2>2, <1>2, FadedFits DEF Alike
<1>6. ASSUME ~v.escaped PROVE FlowsFit(v)
  <2>1. FlowsFit(w) BY <1>6 DEF PageFits, Alike
  <2>2. ASSUME NEW d \in v.calls, Held(d)
        PROVE  /\ v.agent.task = d.task /\ d.account = v.account
               /\ IF d.flow = "execute" THEN v.workflow ELSE v.busy
    <3>1. PICK c \in w.calls : Fades(c, d) BY <1>4
    <3>2. Held(c) BY <3>1, <2>2, <1>2, FadedOwners
    <3>3. d.flow = c.flow /\ d.account = c.account /\ d.task = c.task
      BY <3>1, <3>2, <1>2, FadedFields DEF Held
    <3> QED BY <2>1, <3>2, <3>3 DEF FlowsFit, Alike
  <2>3. ASSUME NEW d \in v.calls PROVE Restores(d) => v.busy
    BY <1>4, <1>2, FadedOwners, <2>1 DEF FlowsFit, Alike
  <2>4. ASSUME NEW d \in v.calls PROVE Switches(d) => v.workflow
    BY <1>4, <1>2, FadedOwners, <2>1 DEF FlowsFit, Alike
  <2>5. ASSUME NEW d \in v.calls, NEW e \in v.calls
        PROVE  /\ Held(d) /\ Held(e) => d = e
               /\ Restores(d) /\ Restores(e) => d = e
               /\ Switches(d) /\ Switches(e) => d = e
               /\ Held(d) => ~Restores(e) /\ ~Switches(e)
               /\ Switches(d) /\ d.scope => ~Restores(e)
    <3>1. PICK c \in w.calls : d = f[c] /\ Fades(c, d) BY <1>4
    <3>2. PICK b \in w.calls : e = f[b] /\ Fades(b, e) BY <1>4
    <3>3. /\ Held(d) => Held(c)
          /\ Restores(d) => Restores(c)
          /\ Switches(d) => Switches(c)
          /\ d.scope => c.scope
      BY <3>1, <1>2, FadedOwners, FadedFields
    <3>4. /\ Held(e) => Held(b)
          /\ Restores(e) => Restores(b)
          /\ Switches(e) => Switches(b)
      BY <3>2, <1>2, FadedOwners
    <3>5. /\ Held(c) /\ Held(b) => c = b
          /\ Restores(c) /\ Restores(b) => c = b
          /\ Switches(c) /\ Switches(b) => c = b
          /\ Held(c) => ~Restores(b) /\ ~Switches(b)
          /\ Switches(c) /\ c.scope => ~Restores(b)
      BY <2>1 DEF FlowsFit
    <3> QED BY <3>1, <3>2, <3>3, <3>4, <3>5
  <2> QED BY <2>2, <2>3, <2>4, <2>5 DEF FlowsFit
<1> QED BY <1>3, <1>5, <1>6 DEF PageFits

LEMMA CarriedHeld ==
    ASSUME NEW w, w.calls \subseteq AwaitSet, NEW v, Carried(v, w),
           NEW d \in v.calls, Held(d)
    PROVE  \E c \in w.calls : Held(c) /\ c.task = d.task
<1>1. PICK c \in w.calls : Fades(c, d) BY DEF Carried
<1>2. Held(c) BY <1>1, FadedOwners
<1>3. c.task = d.task BY <1>1, <1>2, FadedFields DEF Held
<1> QED BY <1>2, <1>3

LEMMA CarriedFrame ==
    ASSUME NEW w, w.calls \subseteq AwaitSet, FrameFits(w),
           NEW v, Carried(v, w), v.frame = w.frame, v.escaped = w.escaped,
           v.agent.task = w.agent.task, v.stages.task = w.stages.task
    PROVE  FrameFits(v)
BY CarriedHeld DEF FrameFits

-----------------------------------------------------------------------------
(* What changes the awaits alone. *)

HeldStays(v, w) == \A c \in w.calls : Held(c) => c \in v.calls

SamePage(v, w) ==
    /\ v.account = w.account /\ v.busy = w.busy /\ v.workflow = w.workflow
    /\ v.hydrating = w.hydrating /\ v.entry = w.entry
    /\ v.center = w.center /\ v.library = w.library /\ v.frame = w.frame
    /\ v.agent = w.agent /\ v.card = w.card /\ v.escaped = w.escaped
    /\ v.assets = w.assets /\ v.stages = w.stages

LEMMA WithCalls ==
    ASSUME NEW w \in Pages, NEW S \in SUBSET AwaitSet
    PROVE  /\ [w EXCEPT !.calls = S] \in Pages
           /\ SamePage([w EXCEPT !.calls = S], w)
           /\ [w EXCEPT !.calls = S].calls = S
BY DEF Pages, SamePage

LEMMA SamePageFits ==
    ASSUME NEW w, PageFits(w), NEW v \in Pages, SamePage(v, w), Carried(v, w)
    PROVE  /\ PageFits(v)
           /\ FrameFits(w) => FrameFits(v)
<1>1. Alike(v, w) BY DEF SamePage, Alike
<1>2. w.calls \subseteq AwaitSet BY DEF PageFits, Pages
<1>3. FrameFits(w) => FrameFits(v)
  BY <1>2, CarriedFrame DEF SamePage
<1> QED BY <1>1, <1>3, CarriedFits

LEMMA MappedCarried ==
    ASSUME NEW w \in Pages, NEW f, NEW S,
           f = [c \in w.calls |-> f[c]],
           \A c \in w.calls : Fades(c, f[c]),
           S = {f[c] : c \in w.calls}
    PROVE  /\ S \in SUBSET AwaitSet
           /\ Carried([w EXCEPT !.calls = S], w)
<1>1. \A c \in w.calls : c \in AwaitSet BY DEF Pages
<1>2. \A c \in w.calls : f[c] \in AwaitSet BY <1>1, FadedFields
<1>3. f \in [w.calls -> AwaitSet] BY <1>2
<1>4. S \in SUBSET AwaitSet BY <1>2
<1>5. [w EXCEPT !.calls = S].calls = S BY <1>4, WithCalls
<1> QED BY <1>3, <1>4, <1>5 DEF Carried

LEMMA NewScopeIs ==
    ASSUME NEW w \in Pages
    PROVE  /\ NewScope(w) \in Pages
           /\ SamePage(NewScope(w), w)
           /\ Carried(NewScope(w), w)
           /\ \A d \in NewScope(w).calls : d.flow \notin PageFlows => ~d.scope
<1> DEFINE f == [c \in w.calls |-> IF c.flow \in PageFlows THEN c
                                   ELSE [c EXCEPT !.scope = FALSE]]
           S == {f[c] : c \in w.calls}
<1>1. \A c \in w.calls : c \in AwaitSet BY DEF Pages
<1>2. \A c \in w.calls : Fades(c, f[c]) BY <1>1, SelfFades, ScopeFades
<1>3. S = {IF c.flow \in PageFlows THEN c
           ELSE [c EXCEPT !.scope = FALSE] : c \in w.calls}
  OBVIOUS
<1>4. NewScope(w) = [w EXCEPT !.calls = S] BY <1>3 DEF NewScope
<1>5. ASSUME NEW c \in w.calls, f[c].flow \notin PageFlows
      PROVE  ~f[c].scope
  <2>1. c \in AwaitSet /\ Fades(c, f[c]) BY <1>1, <1>2
  <2>5. f[c].flow = c.flow BY <2>1, FadedFields
  <2>2. f[c] = [c EXCEPT !.scope = FALSE] BY <2>5, <1>5
  <2>3. CASE c \in AwaitRecords BY <2>2, <2>3 DEF AwaitRecords
  <2>4. CASE c \in SwitchRecords BY <2>2, <2>4 DEF SwitchRecords
  <2> QED BY <1>1, <2>3, <2>4 DEF AwaitSet
<1>6. f = [c \in w.calls |-> f[c]] OBVIOUS
<1> HIDE DEF f
<1>7. S \in SUBSET AwaitSet /\ Carried([w EXCEPT !.calls = S], w)
  BY <1>2, <1>6, MappedCarried
<1>8. /\ [w EXCEPT !.calls = S] \in Pages
      /\ SamePage([w EXCEPT !.calls = S], w)
      /\ [w EXCEPT !.calls = S].calls = S
  BY <1>7, WithCalls
<1> QED BY <1>4, <1>5, <1>7, <1>8

LEMMA NewStageContextIs ==
    ASSUME NEW w \in Pages
    PROVE  /\ NewStageContext(w) \in Pages
           /\ SamePage(NewStageContext(w), w)
           /\ Carried(NewStageContext(w), w)
           /\ \A d \in NewStageContext(w).calls : OfStages(d) => ~d.scope
           /\ HeldStays(NewStageContext(w), w)
<1> DEFINE f == [c \in w.calls |-> IF c.flow \in {"stages", "stage work"}
                                   THEN [c EXCEPT !.scope = FALSE] ELSE c]
           S == {f[c] : c \in w.calls}
<1>1. \A c \in w.calls : c \in AwaitSet BY DEF Pages
<1>2. \A c \in w.calls : Fades(c, f[c]) BY <1>1, SelfFades, ScopeFades
<1>3. S = {IF c.flow \in {"stages", "stage work"}
           THEN [c EXCEPT !.scope = FALSE] ELSE c : c \in w.calls}
  OBVIOUS
<1>4. NewStageContext(w) = [w EXCEPT !.calls = S]
  BY <1>3 DEF NewStageContext
<1>5. ASSUME NEW c \in w.calls, OfStages(f[c])
      PROVE  ~f[c].scope
  <2>1. c \in AwaitSet /\ Fades(c, f[c]) BY <1>1, <1>2
  <2>5. f[c].flow = c.flow BY <2>1, FadedFields
  <2>2. f[c] = [c EXCEPT !.scope = FALSE] BY <2>5, <1>5 DEF OfStages
  <2>3. CASE c \in AwaitRecords BY <2>2, <2>3 DEF AwaitRecords
  <2>4. CASE c \in SwitchRecords BY <2>2, <2>4 DEF SwitchRecords
  <2> QED BY <1>1, <2>3, <2>4 DEF AwaitSet
<1>6. f = [c \in w.calls |-> f[c]] OBVIOUS
<1>9. \A c \in w.calls : Held(c) => c = f[c] BY DEF Held
<1> HIDE DEF f
<1>7. S \in SUBSET AwaitSet /\ Carried([w EXCEPT !.calls = S], w)
  BY <1>2, <1>6, MappedCarried
<1>8. /\ [w EXCEPT !.calls = S] \in Pages
      /\ SamePage([w EXCEPT !.calls = S], w)
      /\ [w EXCEPT !.calls = S].calls = S
  BY <1>7, WithCalls
<1>10. \A c \in w.calls : Held(c) => c \in S BY <1>9
<1> QED BY <1>4, <1>5, <1>7, <1>8, <1>10 DEF HeldStays

LEMMA SupersededIs ==
    ASSUME NEW w \in Pages, NEW flow
    PROVE  /\ Superseded(w, flow) \in Pages
           /\ SamePage(Superseded(w, flow), w)
           /\ Carried(Superseded(w, flow), w)
           /\ \A d \in Superseded(w, flow).calls : d.flow = flow => ~d.newest
           /\ flow \in {"restore", "library"} \cup PageFlows =>
                  HeldStays(Superseded(w, flow), w)
<1> DEFINE f == [c \in w.calls |-> IF c.flow # flow THEN c
                                   ELSE [c EXCEPT !.newest = FALSE]]
           S == {f[c] : c \in w.calls}
<1>1. \A c \in w.calls : c \in AwaitSet BY DEF Pages
<1>2. \A c \in w.calls : Fades(c, f[c]) BY <1>1, SelfFades, NewestFades
<1>3. S = {IF c.flow # flow THEN c
           ELSE [c EXCEPT !.newest = FALSE] : c \in w.calls}
  OBVIOUS
<1>4. Superseded(w, flow) = [w EXCEPT !.calls = S] BY <1>3 DEF Superseded
<1>5. ASSUME NEW c \in w.calls, f[c].flow = flow
      PROVE  ~f[c].newest
  <2>1. f[c].flow = c.flow BY <1>1, <1>2, FadedFields
  <2>2. f[c] = [c EXCEPT !.newest = FALSE] BY <2>1, <1>5
  <2> QED BY <1>1, <2>2, NewestFades
<1>9. flow \in {"restore", "library"} \cup PageFlows =>
          \A c \in w.calls : Held(c) => c = f[c]
  BY DEF Held, PageFlows
<1>6. f = [c \in w.calls |-> f[c]] OBVIOUS
<1> HIDE DEF f
<1>7. S \in SUBSET AwaitSet /\ Carried([w EXCEPT !.calls = S], w)
  BY <1>2, <1>6, MappedCarried
<1>8. /\ [w EXCEPT !.calls = S] \in Pages
      /\ SamePage([w EXCEPT !.calls = S], w)
      /\ [w EXCEPT !.calls = S].calls = S
  BY <1>7, WithCalls
<1>10. ASSUME flow \in {"restore", "library"} \cup PageFlows
       PROVE  \A c \in w.calls : Held(c) => c \in S
  BY <1>9, <1>10
<1> QED BY <1>4, <1>5, <1>7, <1>8, <1>10 DEF HeldStays

LEMMA FewerCarried ==
    ASSUME NEW w \in Pages, NEW v, v.calls \subseteq w.calls
    PROVE  Carried(v, w)
<1> DEFINE f == [c \in w.calls |-> c]
<1>1. \A c \in w.calls : c \in AwaitSet BY DEF Pages
<1>2. f \in [w.calls -> AwaitSet] BY <1>1
<1>3. \A c \in w.calls : Fades(c, f[c]) BY <1>1, SelfFades
<1>4. w.calls \subseteq {f[c] : c \in w.calls} OBVIOUS
<1> QED BY <1>2, <1>3, <1>4 DEF Carried

LEMMA AnsweredIs ==
    ASSUME NEW w \in Pages, NEW c
    PROVE  /\ Answered(w, c) \in Pages
           /\ SamePage(Answered(w, c), w)
           /\ Carried(Answered(w, c), w)
           /\ Answered(w, c).calls = w.calls \ {c}
<1> DEFINE S == w.calls \ {c}
<1>1. S \in SUBSET AwaitSet BY DEF Pages
<1>2. Answered(w, c) = [w EXCEPT !.calls = S] BY DEF Answered
<1> HIDE DEF S
<1>3. /\ Answered(w, c) \in Pages
      /\ SamePage(Answered(w, c), w)
      /\ Answered(w, c).calls = S
  BY <1>1, <1>2, WithCalls
<1> USE DEF S
<1> QED BY <1>3, FewerCarried

LEMMA CallingIs ==
    ASSUME NEW w \in Pages, NEW c \in AwaitSet
    PROVE  /\ Calling(w, c) \in Pages
           /\ SamePage(Calling(w, c), w)
           /\ Calling(w, c).calls = w.calls \cup {c}
<1> DEFINE S == w.calls \cup {c}
<1>1. S \in SUBSET AwaitSet BY DEF Pages
<1>2. Calling(w, c) = [w EXCEPT !.calls = S] BY DEF Calling
<1> HIDE DEF S
<1>3. /\ Calling(w, c) \in Pages
      /\ SamePage(Calling(w, c), w)
      /\ Calling(w, c).calls = S
  BY <1>1, <1>2, WithCalls
<1> QED BY <1>3 DEF S

\* An await that holds no flag can be added any time.
LEMMA CallingFits ==
    ASSUME NEW w, PageFits(w), NEW c \in AwaitSet, AwaitFits(w, c),
           ~Held(c), ~Restores(c), ~Switches(c)
    PROVE  /\ PageFits(Calling(w, c))
           /\ FrameFits(w) => FrameFits(Calling(w, c))
<1>1. w \in Pages BY DEF PageFits
<1>2. /\ Calling(w, c) \in Pages
      /\ SamePage(Calling(w, c), w)
      /\ Calling(w, c).calls = w.calls \cup {c}
  BY <1>1, CallingIs
<1>3. PICK v : v = Calling(w, c) OBVIOUS
<1>4. /\ v \in Pages /\ SamePage(v, w) /\ v.calls = w.calls \cup {c}
  BY <1>2, <1>3
<1>5. ShowsFit(v) BY <1>4 DEF ShowsFit, PageFits, SamePage
<1>6. \A d \in v.calls : AwaitFits(v, d)
  BY <1>4 DEF AwaitFits, PageFits, SamePage
<1>7. ~v.escaped => FlowsFit(v)
  BY <1>4 DEF FlowsFit, PageFits, SamePage
<1>8. FrameFits(w) => FrameFits(v) BY <1>4 DEF FrameFits, SamePage
<1> QED BY <1>3, <1>4, <1>5, <1>6, <1>7, <1>8 DEF PageFits

-----------------------------------------------------------------------------
(* The panels of the page. *)

\* What the lock and the selection depend on, the stage page apart.
Steady(v, w) ==
    /\ v.account = w.account /\ v.busy = w.busy /\ v.workflow = w.workflow
    /\ v.escaped = w.escaped /\ v.agent = w.agent /\ v.frame = w.frame
    /\ v.library = w.library

LEMMA SteadyFits ==
    ASSUME NEW w, PageFits(w), NEW v \in Pages, Steady(v, w), Carried(v, w),
           v.stages.task = w.stages.task, v.stages.shows = w.stages.shows
    PROVE  /\ PageFits(v)
           /\ FrameFits(w) => FrameFits(v)
<1>1. Alike(v, w) BY DEF Steady, Alike
<1>2. w.calls \subseteq AwaitSet BY DEF PageFits, Pages
<1>3. FrameFits(w) => FrameFits(v)
  BY <1>2, CarriedFrame DEF Steady
<1> QED BY <1>1, <1>3, CarriedFits

LEMMA AwaitIs ==
    ASSUME NEW w, NEW flow, NEW step, NEW t, NEW s, NEW rev,
           w \in Pages, flow \in Flows, step \in Steps, t \in Chosen,
           s \in AgentSessions \cup {None}, rev \in Nat
    PROVE  Await(w, flow, step, t, s, rev) \in AwaitSet
<1>1. w.account \in DevAccounts BY DEF Pages
<1> QED BY <1>1 DEF Await, AwaitSet, AwaitRecords

LEMMA AccountRenderedIs ==
    ASSUME NEW w \in Pages
    PROVE  /\ AccountRendered(w) \in Pages
           /\ Steady(AccountRendered(w), w)
           /\ AccountRendered(w).stages = w.stages
           /\ AccountRendered(w).assets = w.assets
           /\ AccountRendered(w).calls = w.calls
           /\ AccountRendered(w).card = w.card
           /\ AccountRendered(w).center = w.center
           /\ AccountRendered(w).hydrating = w.hydrating
<1>1. PICK b \in BOOLEAN :
          b = (w.account \in DevAdmins /\ ~Locked(w) /\ ~w.hydrating)
  OBVIOUS
<1>2. AccountRendered(w) = [w EXCEPT !.entry = b]
  BY <1>1 DEF AccountRendered
<1> QED BY <1>2 DEF Pages, Steady

LEMMA PanelBusyIs ==
    ASSUME NEW w \in Pages, NEW b \in BOOLEAN
    PROVE  /\ PanelBusy(w, b) \in Pages
           /\ Steady(PanelBusy(w, b), w)
           /\ PanelBusy(w, b).stages = [w.stages EXCEPT !.busy = b]
           /\ PanelBusy(w, b).assets = w.assets
           /\ PanelBusy(w, b).calls = w.calls
<1>1. w.stages \in StagesPart BY DEF Pages
<1>2. CASE w.stages.busy = b
  <2>1. PanelBusy(w, b) = w BY <1>2 DEF PanelBusy
  <2>2. w.stages = [w.stages EXCEPT !.busy = b]
    BY <1>1, <1>2 DEF StagesPart
  <2> QED BY <2>1, <2>2 DEF Steady
<1>3. CASE w.stages.busy # b
  <2>1. PICK u : u = [w EXCEPT !.stages.busy = b] OBVIOUS
  <2>2. [w.stages EXCEPT !.busy = b] \in StagesPart
    BY <1>1 DEF StagesPart
  <2>3. u \in Pages BY <2>1, <2>2 DEF Pages
  <2>4. /\ Steady(u, w) /\ u.stages = [w.stages EXCEPT !.busy = b]
        /\ u.assets = w.assets /\ u.calls = w.calls
    BY <2>1 DEF Steady, Pages
  <2>5. PanelBusy(w, b) = AccountRendered(u) BY <2>1, <1>3 DEF PanelBusy
  <2> QED BY <2>3, <2>4, <2>5, AccountRenderedIs DEF Steady
<1> QED BY <1>2, <1>3

LEMMA StageFields ==
    ASSUME NEW s \in StagesPart, NEW b \in BOOLEAN
    PROVE  /\ [s EXCEPT !.busy = b].task = s.task
           /\ [s EXCEPT !.busy = b].shows = s.shows
           /\ [s EXCEPT !.busy = b].account = s.account
           /\ [s EXCEPT !.busy = b].revision = s.revision
           /\ [s EXCEPT !.busy = b].visible = s.visible
BY DEF StagesPart

LEMMA PanelBusyFits ==
    ASSUME NEW w, PageFits(w), NEW b \in BOOLEAN
    PROVE  /\ PageFits(PanelBusy(w, b))
           /\ FrameFits(w) => FrameFits(PanelBusy(w, b))
           /\ PanelBusy(w, b).stages.task = w.stages.task
           /\ PanelBusy(w, b).stages.shows = w.stages.shows
<1>1. w \in Pages /\ w.stages \in StagesPart BY DEF PageFits, Pages
<1>2. PICK v : v = PanelBusy(w, b) OBVIOUS
<1>3. /\ v \in Pages /\ Steady(v, w) /\ v.calls = w.calls
      /\ v.stages = [w.stages EXCEPT !.busy = b]
  BY <1>1, <1>2, PanelBusyIs
<1>4. v.stages.task = w.stages.task /\ v.stages.shows = w.stages.shows
  BY <1>1, <1>3, StageFields
<1>5. Carried(v, w) BY <1>1, <1>3, FewerCarried
<1> QED BY <1>2, <1>3, <1>4, <1>5, SteadyFits

LEMMA AssetLoadFits ==
    ASSUME NEW w, PageFits(w), NEW step \in Steps
    PROVE  /\ PageFits(AssetLoad(w, step))
           /\ FrameFits(w) => FrameFits(AssetLoad(w, step))
           /\ Steady(AssetLoad(w, step), w)
           /\ AssetLoad(w, step).stages = w.stages
           /\ HeldStays(AssetLoad(w, step), w)
<1>1. w \in Pages BY DEF PageFits
<1>2. PICK u : u = Superseded(w, "assets") OBVIOUS
<1>3. u \in Pages /\ SamePage(u, w) /\ Carried(u, w) /\ HeldStays(u, w)
  BY <1>1, <1>2, SupersededIs DEF PageFlows
<1>4. PICK next : next = [u EXCEPT !.assets.shows = None] OBVIOUS
<1>5. next.assets = [u.assets EXCEPT !.shows = None]
      /\ next.assets \in AssetsPart
  BY <1>3, <1>4 DEF Pages, AssetsPart
<1>6. next \in Pages
  BY <1>3, <1>4, <1>5 DEF Pages
<1>7. /\ Steady(next, w) /\ next.stages = w.stages /\ next.calls = u.calls
  BY <1>3, <1>4 DEF Pages, Steady, SamePage
<1>13. HeldStays(next, w) BY <1>3, <1>7 DEF HeldStays
<1>8. Carried(next, w) BY <1>3, <1>7 DEF Carried
<1>9. PageFits(next) /\ (FrameFits(w) => FrameFits(next))
  BY <1>6, <1>7, <1>8, SteadyFits
<1>10. CASE w.assets.task = None /\ step # "reload"
  BY <1>2, <1>4, <1>7, <1>9, <1>10, <1>13 DEF AssetLoad
<1>11. CASE w.assets.task = None /\ step = "reload"
  <2>1. PICK v : v = [next EXCEPT !.assets.busy = FALSE] OBVIOUS
  <2>2. v.assets \in AssetsPart
    BY <1>5, <1>6, <2>1 DEF Pages, AssetsPart
  <2>3. v \in Pages BY <1>6, <2>1, <2>2 DEF Pages
  <2>4. /\ Steady(v, next) /\ v.stages = next.stages
        /\ v.calls = next.calls
    BY <1>6, <2>1 DEF Pages, Steady
  <2>5. Carried(v, next) BY <1>6, <2>4, FewerCarried
  <2>6. PageFits(v) /\ (FrameFits(next) => FrameFits(v))
    BY <1>9, <2>3, <2>4, <2>5, SteadyFits
  <2>7. AssetLoad(w, step) = v
    BY <1>2, <1>4, <1>11, <2>1 DEF AssetLoad
  <2>8. HeldStays(v, w) BY <1>13, <2>4 DEF HeldStays
  <2> QED BY <1>7, <1>9, <2>4, <2>6, <2>7, <2>8 DEF Steady
<1>12. CASE w.assets.task # None
  <2>1. w.assets.task \in Tasks
    BY <1>1, <1>12 DEF Pages, AssetsPart, Chosen
  <2>2. PICK c : c = Await(w, "assets", step, w.assets.task, None, 0)
    OBVIOUS
  <2>9. "assets" \in Flows /\ w.assets.task \in Chosen
      /\ None \in AgentSessions \cup {None} /\ 0 \in Nat
    BY <2>1 DEF Flows, PageFlows, Chosen
  <2>3. /\ c \in AwaitSet /\ c.flow = "assets" /\ c.task = w.assets.task
        /\ c.session = None
    <3>1. c \in AwaitSet BY <1>1, <2>2, <2>9, AwaitIs
    <3> QED BY <3>1, <2>2 DEF Await
  <2>4. AwaitFits(next, c) /\ ~Held(c) /\ ~Restores(c) /\ ~Switches(c)
    BY <2>1, <2>3 DEF AwaitFits, HasTask, HasSession, OfStages, PageFlows,
                      Held, Restores, Switches
  <2>5. PICK v : v = Calling(next, c) OBVIOUS
  <2>6. PageFits(v) /\ (FrameFits(next) => FrameFits(v))
    BY <1>9, <2>3, <2>4, <2>5, CallingFits
  <2>7. SamePage(v, next) /\ v.calls = next.calls \cup {c}
    BY <1>6, <2>3, <2>5, CallingIs
  <2>10. HeldStays(v, w) BY <1>13, <2>7 DEF HeldStays
  <2>8. AssetLoad(w, step) = v
    BY <1>2, <1>4, <1>12, <2>2, <2>5 DEF AssetLoad
  <2> QED BY <1>7, <1>9, <2>6, <2>7, <2>8, <2>10 DEF Steady, SamePage
<1> QED BY <1>10, <1>11, <1>12

LEMMA AssetsSetFits ==
    ASSUME NEW w, PageFits(w)
    PROVE  /\ PageFits(AssetsSet(w))
           /\ FrameFits(w) => FrameFits(AssetsSet(w))
           /\ Steady(AssetsSet(w), w)
           /\ AssetsSet(w).stages = w.stages
           /\ HeldStays(AssetsSet(w), w)
<1>1. w \in Pages /\ w.frame \in FramePart /\ w.assets \in AssetsPart
  BY DEF PageFits, Pages
<1>2. PICK task : task = IF w.frame.view = "assets" THEN w.frame.task
                         ELSE None
  OBVIOUS
<1>3. task \in Chosen BY <1>1, <1>2 DEF FramePart, Chosen
<1>4. PICK key : key = IF task = None THEN <<>>
                       ELSE <<task, w.frame.listed[task]>>
  OBVIOUS
<1>5. key \in {<<>>} \cup (Tasks \X Nat)
  <2>1. CASE task = None BY <1>4, <2>1
  <2>2. CASE task # None
    <3>1. task \in Tasks BY <1>3, <2>2 DEF Chosen
    <3>2. w.frame.listed[task] \in Nat
      BY <1>1, <3>1, WebAssumption DEF FramePart, Listings
    <3> QED BY <1>4, <2>2, <3>1, <3>2
  <2> QED BY <2>1, <2>2
<1>6. PICK next : next = [w EXCEPT !.assets.task = task, !.assets.key = key]
  OBVIOUS
<1>7. next.assets = [w.assets EXCEPT !.task = task, !.key = key]
  BY <1>1, <1>6 DEF Pages
<1>8. next.assets \in AssetsPart
  BY <1>1, <1>3, <1>5, <1>7 DEF AssetsPart
<1>9. next \in Pages BY <1>1, <1>6, <1>7, <1>8 DEF Pages
<1>10. /\ Steady(next, w) /\ next.stages = w.stages
       /\ next.calls = w.calls
  BY <1>1, <1>6 DEF Pages, Steady
<1>11. Carried(next, w) BY <1>1, <1>10, FewerCarried
<1>12. PageFits(next) /\ (FrameFits(w) => FrameFits(next))
  BY <1>9, <1>10, <1>11, SteadyFits
<1>13. AssetsSet(w) = IF key = w.assets.key THEN next
                      ELSE AssetLoad(next, "load")
  BY <1>2, <1>4, <1>6 DEF AssetsSet
<1>14. CASE key = w.assets.key
  BY <1>10, <1>12, <1>13, <1>14 DEF HeldStays
<1>15. CASE key # w.assets.key
  <2>1. "load" \in Steps BY DEF Steps
  <2>2. PICK v : v = AssetLoad(next, "load") OBVIOUS
  <2>3. /\ PageFits(v) /\ (FrameFits(next) => FrameFits(v))
        /\ Steady(v, next) /\ v.stages = next.stages
        /\ HeldStays(v, next)
    BY <1>12, <2>1, <2>2, AssetLoadFits
  <2> QED BY <1>10, <1>12, <1>13, <1>15, <2>2, <2>3
         DEF Steady, HeldStays
<1> QED BY <1>14, <1>15

LEMMA StageLoadFits ==
    ASSUME NEW w, PageFits(w), NEW step \in Steps
    PROVE  /\ PageFits(StageLoad(w, step))
           /\ FrameFits(w) => FrameFits(StageLoad(w, step))
           /\ Steady(StageLoad(w, step), w)
           /\ StageLoad(w, step).stages.task = w.stages.task
           /\ HeldStays(StageLoad(w, step), w)
<1>1. w \in Pages /\ w.stages \in StagesPart BY DEF PageFits, Pages
<1>2. PICK next : next = Superseded(w, "stages") OBVIOUS
<1>3. /\ next \in Pages /\ SamePage(next, w) /\ Carried(next, w)
      /\ HeldStays(next, w)
  BY <1>1, <1>2, SupersededIs DEF PageFlows
<1>4. PageFits(next) /\ (FrameFits(w) => FrameFits(next))
  BY <1>3, SamePageFits
<1>5. Steady(next, w) /\ next.stages = w.stages
  BY <1>3 DEF SamePage, Steady
<1>6. CASE /\ ~w.stages.visible \/ w.stages.task = None
           /\ step # "reload"
  BY <1>2, <1>3, <1>4, <1>5, <1>6 DEF StageLoad
<1>7. CASE /\ ~w.stages.visible \/ w.stages.task = None
           /\ step = "reload"
  <2>1. PICK v : v = PanelBusy(next, FALSE) OBVIOUS
  <2>2. PageFits(v) /\ (FrameFits(next) => FrameFits(v))
        /\ v.stages.task = next.stages.task
    BY <1>4, <2>1, PanelBusyFits
  <2>3. Steady(v, next) /\ v.calls = next.calls
    BY <1>3, <2>1, PanelBusyIs
  <2>4. StageLoad(w, step) = v BY <1>2, <1>7, <2>1 DEF StageLoad
  <2> QED BY <1>3, <1>4, <1>5, <2>2, <2>3, <2>4 DEF Steady, HeldStays
<1>8. CASE w.stages.visible /\ w.stages.task # None
  <2>1. w.stages.task \in Tasks
    BY <1>1, <1>8 DEF StagesPart, Chosen
  <2>2. PICK c : c = Await(w, "stages", step, w.stages.task, None, 0)
    OBVIOUS
  <2>3. "stages" \in Flows /\ w.stages.task \in Chosen
        /\ None \in AgentSessions \cup {None} /\ 0 \in Nat
    BY <2>1 DEF Flows, PageFlows, Chosen
  <2>4. c \in AwaitSet BY <1>1, <2>2, <2>3, AwaitIs
  <2>5. /\ c.flow = "stages" /\ c.task = w.stages.task
        /\ c.session = None /\ c.account = w.account
    BY <2>2 DEF Await
  <2>6. AwaitFits(next, c) /\ ~Held(c) /\ ~Restores(c) /\ ~Switches(c)
    BY <1>5, <2>1, <2>5
       DEF AwaitFits, HasTask, HasSession, OfStages, PageFlows, Steady,
           Held, Restores, Switches
  <2>7. PICK v : v = Calling(next, c) OBVIOUS
  <2>8. PageFits(v) /\ (FrameFits(next) => FrameFits(v))
    BY <1>4, <2>4, <2>6, <2>7, CallingFits
  <2>9. SamePage(v, next) /\ v.calls = next.calls \cup {c}
    BY <1>3, <2>4, <2>7, CallingIs
  <2>10. StageLoad(w, step) = v
    BY <1>2, <1>8, <2>2, <2>7 DEF StageLoad
  <2> QED BY <1>3, <1>4, <1>5, <2>8, <2>9, <2>10
          DEF Steady, SamePage, HeldStays
<1> QED BY <1>6, <1>7, <1>8

\* The page that follows another task or account has dropped what it showed
\* and the scope of its awaits.
LEMMA StagesSetFits ==
    ASSUME NEW w, PageFits(w)
    PROVE  /\ PageFits(StagesSet(w))
           /\ Steady(StagesSet(w), w)
           /\ StagesSet(w).stages.task = w.frame.task
           /\ HeldStays(StagesSet(w), w)
<1> DEFINE task == w.frame.task
           visible == w.frame.view = "planning"
           resourceChanged == \/ w.account # w.stages.account
                              \/ task # w.stages.task
           contextChanged == resourceChanged \/ visible # w.stages.visible
<1>1. w \in Pages /\ w.frame \in FramePart /\ w.stages \in StagesPart
  BY DEF PageFits, Pages
<1>2. PICK dropped :
          dropped = IF contextChanged
                    THEN [Superseded(w, "stages") EXCEPT !.stages.shows = None]
                    ELSE w
  OBVIOUS
<1>3. PICK left :
          left = IF resourceChanged
                 THEN PanelBusy(NewStageContext(dropped), FALSE)
                 ELSE dropped
  OBVIOUS
<1>4. PICK rev : rev = IF task = None THEN 0 ELSE w.frame.listed[task]
  OBVIOUS
<1>5. PICK next : next = [left EXCEPT
          !.stages.account = w.account, !.stages.task = task,
          !.stages.revision = rev, !.stages.visible = visible]
  OBVIOUS
<1>6. StagesSet(w) = IF visible /\ task # None /\ contextChanged
                     THEN StageLoad(next, "load") ELSE next
  BY <1>2, <1>3, <1>4, <1>5 DEF StagesSet
<1>7. /\ PageFits(dropped) /\ Steady(dropped, w)
      /\ dropped.stages.task = w.stages.task
      /\ dropped.stages.account = w.stages.account
      /\ contextChanged => dropped.stages.shows = None
      /\ HeldStays(dropped, w)
  <2>1. CASE ~contextChanged BY <1>2, <2>1 DEF Steady, HeldStays
  <2>2. CASE contextChanged
    <3>1. PICK u : u = Superseded(w, "stages") OBVIOUS
    <3>2. /\ u \in Pages /\ SamePage(u, w) /\ Carried(u, w)
          /\ HeldStays(u, w)
      BY <1>1, <3>1, SupersededIs DEF PageFlows
    <3>3. dropped = [u EXCEPT !.stages.shows = None]
      BY <1>2, <2>2, <3>1
    <3>4. dropped.stages = [u.stages EXCEPT !.shows = None]
      BY <3>2, <3>3 DEF Pages
    <3>5. u.stages \in StagesPart BY <3>2 DEF Pages
    <3>6. /\ dropped.stages \in StagesPart
          /\ dropped.stages.task = u.stages.task
          /\ dropped.stages.account = u.stages.account
          /\ dropped.stages.shows = None
      BY <3>4, <3>5 DEF StagesPart
    <3>7. dropped \in Pages BY <3>2, <3>3, <3>4, <3>6 DEF Pages
    <3>8. Steady(dropped, u) /\ dropped.calls = u.calls
      BY <3>2, <3>3 DEF Pages, Steady
    <3>9. PageFits(u) BY <3>2, SamePageFits
    <3>10. PageFits(dropped)
      <4>1. ShowsFit(dropped)
        BY <3>6, <3>8, <3>9 DEF PageFits, ShowsFit, Steady
      <4>2. \A d \in dropped.calls : AwaitFits(dropped, d)
        BY <3>6, <3>8, <3>9 DEF PageFits, AwaitFits, Steady
      <4>3. ~dropped.escaped => FlowsFit(dropped)
        BY <3>8, <3>9 DEF PageFits, FlowsFit, Steady
      <4> QED BY <3>7, <4>1, <4>2, <4>3 DEF PageFits
    <3> QED BY <3>2, <3>6, <3>8, <3>10 DEF Steady, SamePage, HeldStays
  <2> QED BY <2>1, <2>2
<1>8. /\ PageFits(left) /\ Steady(left, w)
      /\ left.stages.task = w.stages.task
      /\ left.stages.shows = dropped.stages.shows
      /\ HeldStays(left, w)
      /\ resourceChanged => \A d \in left.calls : OfStages(d) => ~d.scope
  <2>1. CASE ~resourceChanged BY <1>3, <1>7, <2>1
  <2>2. CASE resourceChanged
    <3>1. PICK u : u = NewStageContext(dropped) OBVIOUS
    <3>2. dropped \in Pages BY <1>7 DEF PageFits
    <3>3. /\ u \in Pages /\ SamePage(u, dropped) /\ Carried(u, dropped)
          /\ HeldStays(u, dropped)
          /\ \A d \in u.calls : OfStages(d) => ~d.scope
      BY <3>1, <3>2, NewStageContextIs
    <3>4. PageFits(u) BY <1>7, <3>3, SamePageFits
    <3>5. left = PanelBusy(u, FALSE) BY <1>3, <2>2, <3>1
    <3>6. /\ PageFits(left) /\ left.stages.task = u.stages.task
          /\ left.stages.shows = u.stages.shows
      BY <3>4, <3>5, PanelBusyFits
    <3>7. Steady(left, u) /\ left.calls = u.calls
      BY <3>3, <3>5, PanelBusyIs
    <3> QED BY <1>7, <3>3, <3>6, <3>7 DEF Steady, SamePage, HeldStays
  <2> QED BY <2>1, <2>2
<1>9. left \in Pages /\ left.stages \in StagesPart
  BY <1>8 DEF PageFits, Pages
<1>10. task \in Chosen /\ visible \in BOOLEAN
  BY <1>1 DEF FramePart
<1>11. rev \in Nat
  <2>1. CASE task = None BY <1>4, <2>1
  <2>2. CASE task # None
    <3>1. task \in Tasks BY <1>10, <2>2 DEF Chosen
    <3>2. w.frame.listed[task] \in Nat
      BY <1>1, <3>1, WebAssumption DEF FramePart, Listings
    <3> QED BY <1>4, <2>2, <3>2
  <2> QED BY <2>1, <2>2
<1>12. w.account \in DevAccounts BY <1>1 DEF Pages
<1> HIDE DEF task, visible
<1>13. next.stages = [left.stages EXCEPT !.account = w.account,
          !.task = task, !.revision = rev, !.visible = visible]
  BY <1>5, <1>9 DEF Pages
<1>14. next.stages \in StagesPart
  BY <1>9, <1>10, <1>11, <1>12, <1>13 DEF StagesPart
<1>15. next.stages.task = task /\ next.stages.shows = left.stages.shows
  BY <1>9, <1>13 DEF StagesPart
<1>16. next \in Pages BY <1>5, <1>9, <1>13, <1>14 DEF Pages
<1>17. Steady(next, left) /\ next.calls = left.calls
  BY <1>5, <1>9 DEF Pages, Steady
<1>18. PageFits(next)
  <2>1. ~resourceChanged => task = w.stages.task OBVIOUS
  <2>2. resourceChanged => next.stages.shows = None
    BY <1>7, <1>8, <1>15
  <2>3. ShowsFit(next)
    BY <1>8, <1>15, <1>17, <2>1, <2>2 DEF PageFits, ShowsFit, Steady
  <2>4. \A d \in next.calls : AwaitFits(next, d)
    BY <1>8, <1>15, <1>17, <2>1 DEF PageFits, AwaitFits, Steady
  <2>5. ~next.escaped => FlowsFit(next)
    BY <1>8, <1>17 DEF PageFits, FlowsFit, Steady
  <2> QED BY <1>16, <2>3, <2>4, <2>5 DEF PageFits
<1>19. /\ Steady(next, w) /\ next.stages.task = w.frame.task
       /\ HeldStays(next, w)
  BY <1>8, <1>15, <1>17 DEF Steady, HeldStays, task
<1>20. CASE ~(visible /\ task # None /\ contextChanged)
  BY <1>6, <1>18, <1>19, <1>20
<1>21. CASE visible /\ task # None /\ contextChanged
  <2>1. "load" \in Steps BY DEF Steps
  <2>2. PICK v : v = StageLoad(next, "load") OBVIOUS
  <2>3. /\ PageFits(v) /\ Steady(v, next)
        /\ v.stages.task = next.stages.task /\ HeldStays(v, next)
    BY <1>18, <2>1, <2>2, StageLoadFits
  <2>4. StagesSet(w) = v BY <1>6, <1>21, <2>2
  <2> QED BY <1>19, <2>3, <2>4 DEF Steady, HeldStays
<1> QED BY <1>20, <1>21

-----------------------------------------------------------------------------
(* The selection. *)

NobodyHolds(w) == \A c \in w.calls : ~Held(c)

\* Another selection clears the agent panel, starts a scope and holds the page
\* for the restoration of a session, if it is a task.
LEMMA SynchronizedFits ==
    ASSUME NEW w, PageFits(w),
           ~w.escaped => NobodyHolds(w) \/ w.frame.task = w.agent.task
    PROVE  /\ PageFits(Synchronized(w))
           /\ Synchronized(w).frame = w.frame
           /\ Synchronized(w).stages = w.stages
           /\ Synchronized(w).agent.task = w.frame.task
           /\ w.frame.task = w.agent.task => HeldStays(Synchronized(w), w)
<1> DEFINE t == w.frame.task
           none == [task |-> t, session |-> None, revision |-> 0]
<1>1. w \in Pages /\ w.frame \in FramePart /\ w.agent \in AgentPart
  BY DEF PageFits, Pages
<1>2. t \in Chosen BY <1>1 DEF FramePart
<1>3. CASE t # w.agent.task
  <2>1. PICK u : u = Superseded(w, "restore") OBVIOUS
  <2>2. u \in Pages /\ SamePage(u, w) /\ Carried(u, w)
    BY <1>1, <2>1, SupersededIs
  <2>3. PageFits(u) BY <2>2, SamePageFits
  <2>4. PICK x : x = NewScope(u) OBVIOUS
  <2>5. /\ x \in Pages /\ SamePage(x, u) /\ Carried(x, u)
        /\ \A d \in x.calls : d.flow \notin PageFlows => ~d.scope
    BY <2>2, <2>4, NewScopeIs
  <2>6. PageFits(x) BY <2>3, <2>5, SamePageFits
  <2>7. /\ \A d \in x.calls : ~Restores(d)
        /\ \A d \in x.calls : Switches(d) => ~d.scope
    BY <2>5 DEF Restores, Switches, PageFlows
  <2>8. ~x.escaped => NobodyHolds(x)
    <3>1. w.calls \subseteq AwaitSet /\ u.calls \subseteq AwaitSet
      BY <1>1, <2>2 DEF Pages
    <3>2. ~w.escaped => NobodyHolds(w) BY <1>3
    <3>3. x.escaped = w.escaped BY <2>2, <2>5 DEF SamePage
    <3> QED BY <3>1, <3>2, <3>3, <2>2, <2>5, CarriedHeld DEF NobodyHolds
  <2>9. PICK y : y = [x EXCEPT !.agent = none, !.card = 0] OBVIOUS
  <2>10. none \in AgentPart BY <1>2 DEF AgentPart
  <2>11. y \in Pages
    <3> HIDE DEF none
    <3> QED BY <2>5, <2>9, <2>10 DEF Pages
  <2>12. /\ y.agent = none /\ y.calls = x.calls /\ y.busy = x.busy
         /\ y.frame = w.frame /\ y.stages = w.stages
         /\ y.account = w.account /\ y.escaped = w.escaped
         /\ x.account = w.account /\ x.escaped = w.escaped
         /\ x.stages = w.stages /\ y.workflow = x.workflow
    <3> HIDE DEF none
    <3> QED BY <2>2, <2>5, <2>9 DEF Pages, SamePage
  <2>13. y.agent.task = t /\ y.agent.session = None BY <2>12
  <2>14. ShowsFit(y) BY <2>6, <2>12, <2>13 DEF PageFits, ShowsFit
  <2>15. \A d \in y.calls : AwaitFits(y, d)
    BY <2>6, <2>12 DEF PageFits, AwaitFits
  <2>16. ~y.escaped => FlowsFit(y)
    BY <2>6, <2>8, <2>12 DEF PageFits, FlowsFit, NobodyHolds
  <2>17. PageFits(y) BY <2>11, <2>14, <2>15, <2>16 DEF PageFits
  <2>18. CASE t = None
    <3>1. Synchronized(w) = y
      BY <1>3, <2>1, <2>4, <2>9, <2>18 DEF Synchronized
    <3> QED BY <1>3, <2>12, <2>13, <2>17, <3>1
  <2>19. CASE t # None
    <3>1. t \in Tasks BY <1>2, <2>19 DEF Chosen
    <3>2. PICK c : c = Await(w, "restore", "list", t, None, 0) OBVIOUS
    <3>3. "restore" \in Flows /\ "list" \in Steps
          /\ None \in AgentSessions \cup {None} /\ 0 \in Nat
      BY DEF Flows, Steps
    <3>4. c \in AwaitSet BY <1>1, <1>2, <3>2, <3>3, AwaitIs
    <3>5. /\ c.flow = "restore" /\ c.step = "list" /\ c.task = t
          /\ c.session = None /\ c.account = w.account
      BY <3>2 DEF Await
    <3>6. PICK z : z = [y EXCEPT !.busy = TRUE] OBVIOUS
    <3>7. z \in Pages BY <2>11, <3>6 DEF Pages
    <3>8. /\ z.busy = TRUE /\ z.calls = y.calls /\ z.agent = y.agent
          /\ z.frame = y.frame /\ z.stages = y.stages
          /\ z.account = y.account /\ z.escaped = y.escaped
          /\ z.workflow = y.workflow
      BY <2>11, <3>6 DEF Pages
    <3>9. PICK v : v = Calling(z, c) OBVIOUS
    <3>10. v \in Pages /\ SamePage(v, z) /\ v.calls = y.calls \cup {c}
      BY <3>4, <3>7, <3>8, <3>9, CallingIs
    <3>11. /\ v.busy = TRUE /\ v.agent = y.agent
           /\ v.frame = y.frame /\ v.stages = y.stages
           /\ v.account = y.account /\ v.escaped = y.escaped
           /\ v.workflow = y.workflow
      BY <3>8, <3>10 DEF SamePage
    <3>12. ShowsFit(v) BY <2>14, <3>11 DEF ShowsFit
    <3>13. AwaitFits(v, c)
      BY <3>1, <3>5, <3>11, <2>12
         DEF AwaitFits, HasTask, HasSession, OfStages, PageFlows
    <3>14. \A d \in y.calls : AwaitFits(v, d)
      BY <2>15, <3>11 DEF AwaitFits
    <3>15. ~Held(c) /\ ~Switches(c) BY <3>5 DEF Held, Switches
    <3>16. ~v.escaped => FlowsFit(v)
      BY <2>7, <2>8, <2>12, <2>16, <3>10, <3>11, <3>15
         DEF FlowsFit, NobodyHolds
    <3>17. PageFits(v)
      BY <3>10, <3>12, <3>13, <3>14, <3>16 DEF PageFits
    <3>18. Synchronized(w) = v
      BY <1>3, <2>1, <2>4, <2>9, <2>19, <3>2, <3>6, <3>9 DEF Synchronized
    <3> QED BY <1>3, <2>12, <2>13, <3>11, <3>17, <3>18
  <2> QED BY <2>18, <2>19
<1>4. CASE /\ t = w.agent.task
           /\ ~(/\ t # None /\ w.agent.session # None
                /\ w.agent.revision # w.frame.listed[t])
  <2>1. Synchronized(w) = w BY <1>4 DEF Synchronized
  <2> QED BY <1>4, <2>1 DEF HeldStays
<1>5. CASE /\ t = w.agent.task
           /\ t # None /\ w.agent.session # None
           /\ w.agent.revision # w.frame.listed[t]
  <2>1. PICK rev : rev = w.frame.listed[t] OBVIOUS
  <2>2. t \in Tasks BY <1>2, <1>5 DEF Chosen
  <2>3. rev \in Nat
    BY <1>1, <2>1, <2>2, WebAssumption DEF FramePart, Listings
  <2>4. PICK c : c = Await(w, "refresh", "task", t, w.agent.session, rev)
    OBVIOUS
  <2>5. "refresh" \in Flows /\ "task" \in Steps
        /\ w.agent.session \in AgentSessions \cup {None}
    BY <1>1 DEF Flows, Steps, AgentPart
  <2>6. c \in AwaitSet BY <1>1, <1>2, <2>3, <2>4, <2>5, AwaitIs
  <2>7. /\ c.flow = "refresh" /\ c.step = "task" /\ c.task = t
        /\ c.session = w.agent.session /\ c.account = w.account
    BY <2>4 DEF Await
  <2>8. c.session \in AgentSessions BY <1>5, <2>5, <2>7
  <2>9. /\ c.session.task = c.task
        /\ ~w.escaped => c.session.account = c.account
    BY <1>5, <2>7 DEF PageFits, ShowsFit
  <2>10. AwaitFits(w, c) /\ ~Held(c) /\ ~Restores(c) /\ ~Switches(c)
    BY <2>2, <2>7, <2>8, <2>9
       DEF AwaitFits, HasTask, HasSession, OfStages, PageFlows,
           Held, Restores, Switches
  <2>11. PICK v : v = Calling(w, c) OBVIOUS
  <2>12. PageFits(v) BY <2>6, <2>10, <2>11, CallingFits
  <2>13. SamePage(v, w) /\ v.calls = w.calls \cup {c}
    BY <1>1, <2>6, <2>11, CallingIs
  <2>14. Synchronized(w) = v
    BY <1>5, <2>1, <2>4, <2>11 DEF Synchronized
  <2> QED BY <1>5, <2>12, <2>13, <2>14 DEF SamePage, HeldStays
<1> QED BY <1>3, <1>4, <1>5

LEMMA FrameShownFits ==
    ASSUME NEW w, PageFits(w), NEW t, t \in Chosen,
           NEW view, view \in {"overview", "assets", "planning"},
           ~w.escaped => NobodyHolds(w) \/ t = w.agent.task
    PROVE  /\ PageFits(FrameShown(w, t, view))
           /\ FrameFits(FrameShown(w, t, view))
           /\ t = w.agent.task => HeldStays(FrameShown(w, t, view), w)
<1>1. w \in Pages /\ w.frame \in FramePart BY DEF PageFits, Pages
<1>2. PICK u : u = [w EXCEPT !.frame.task = t, !.frame.view = view] OBVIOUS
<1>3. u.frame = [w.frame EXCEPT !.task = t, !.view = view]
  BY <1>1, <1>2 DEF Pages
<1>4. u.frame \in FramePart /\ u.frame.task = t /\ u.frame.view = view
  BY <1>1, <1>3 DEF FramePart, Views
<1>5. u \in Pages BY <1>1, <1>2, <1>3, <1>4 DEF Pages
<1>6. /\ Alike(u, w) /\ u.calls = w.calls /\ u.escaped = w.escaped
      /\ u.agent = w.agent
  BY <1>1, <1>2 DEF Pages, Alike
<1>7. PageFits(u)
  <2>1. Carried(u, w) BY <1>1, <1>6, FewerCarried
  <2> QED BY <1>5, <1>6, <2>1, CarriedFits
<1>8. ~u.escaped => NobodyHolds(u) \/ u.frame.task = u.agent.task
  BY <1>4, <1>6 DEF NobodyHolds
<1>9. PICK x : x = Synchronized(u) OBVIOUS
<1>10. /\ PageFits(x) /\ x.frame = u.frame /\ x.stages = u.stages
       /\ x.agent.task = t
       /\ t = u.agent.task => HeldStays(x, u)
  BY <1>4, <1>7, <1>8, <1>9, SynchronizedFits
<1>11. PICK y : y = AssetsSet(x) OBVIOUS
<1>12. PageFits(y) /\ Steady(y, x) /\ HeldStays(y, x)
  BY <1>10, <1>11, AssetsSetFits
<1>13. PICK v : v = StagesSet(y) OBVIOUS
<1>14. /\ PageFits(v) /\ Steady(v, y) /\ v.stages.task = y.frame.task
       /\ HeldStays(v, y)
  BY <1>12, <1>13, StagesSetFits
<1>15. /\ v.frame = u.frame /\ v.agent.task = t /\ v.stages.task = t
       /\ v.frame.view # "closed"
  BY <1>4, <1>10, <1>12, <1>14 DEF Steady
<1>16. FrameFits(v) BY <1>4, <1>15 DEF FrameFits
<1>17. t = w.agent.task => HeldStays(v, w)
  BY <1>6, <1>10, <1>12, <1>14 DEF HeldStays
<1>18. FrameShown(w, t, view) = v
  BY <1>2, <1>9, <1>11, <1>13 DEF FrameShown, Rendered
<1> QED BY <1>14, <1>16, <1>17, <1>18

\* Whoever holds the page locks the selection, and is in the frame with it.
LEMMA HoldersLock ==
    ASSUME NEW w, PageFits(w), ~w.escaped
    PROVE  /\ ~w.busy /\ ~w.workflow => NobodyHolds(w)
           /\ ~Locked(w) => NobodyHolds(w)
           /\ ~w.busy => \A c \in w.calls : ~Restores(c)
           /\ ~w.workflow => \A c \in w.calls : ~Switches(c)
BY DEF PageFits, FlowsFit, NobodyHolds, Locked

LEMMA HoldersSelect ==
    ASSUME NEW w, PageFits(w), FrameFits(w), ~w.escaped
    PROVE  \/ NobodyHolds(w)
           \/ /\ Locked(w) /\ w.frame.view # "closed"
              /\ w.frame.task = w.agent.task /\ w.agent.task \in Tasks
<1> SUFFICES ASSUME NEW c \in w.calls, Held(c)
             PROVE  /\ Locked(w) /\ w.frame.view # "closed"
                    /\ w.frame.task = w.agent.task /\ w.agent.task \in Tasks
  BY DEF NobodyHolds
<1>1. w.agent.task = c.task /\ (w.busy \/ w.workflow)
  BY DEF PageFits, FlowsFit
<1>2. c.task \in Tasks BY DEF PageFits, AwaitFits, HasTask, Held
<1> QED BY <1>1, <1>2 DEF FrameFits, Locked

LEMMA OpenedFits ==
    ASSUME NEW w, PageFits(w), FrameFits(w), NEW t, t \in Chosen,
           NEW module, module \in {"overview", "assets", "planning"}
    PROVE  /\ PageFits(Opened(w, t, module))
           /\ FrameFits(Opened(w, t, module))
           /\ t = w.agent.task => HeldStays(Opened(w, t, module), w)
<1>1. CASE ~CanOpen(w, t)
  BY <1>1 DEF Opened, HeldStays
<1>2. CASE CanOpen(w, t)
  <2>1. w \in Pages /\ w.frame \in FramePart /\ w.library \in LibraryPart
    BY DEF PageFits, Pages
  <2>2. PICK u : u = [w EXCEPT !.frame.listed = w.library.tasks] OBVIOUS
  <2>3. u.frame = [w.frame EXCEPT !.listed = w.library.tasks]
    BY <2>1, <2>2 DEF Pages
  <2>4. w.library.tasks \in Listings BY <2>1 DEF LibraryPart
  <2>5. u.frame \in FramePart
    BY <2>1, <2>3, <2>4 DEF FramePart
  <2>6. u \in Pages BY <2>1, <2>2, <2>3, <2>5 DEF Pages
  <2>7. Alike(u, w) /\ u.calls = w.calls BY <2>1, <2>2 DEF Pages, Alike
  <2>8. PageFits(u)
    <3>1. Carried(u, w) BY <2>1, <2>7, FewerCarried
    <3> QED BY <2>6, <2>7, <3>1, CarriedFits
  <2>9. ~u.escaped => NobodyHolds(u) \/ t = u.agent.task
    BY <1>2, <2>7, HoldersSelect DEF CanOpen, Alike, NobodyHolds
  <2>10. PICK view : view = IF t = None THEN "overview" ELSE module OBVIOUS
  <2>11. view \in {"overview", "assets", "planning"} BY <2>10
  <2>12. PICK v : v = FrameShown(u, t, view) OBVIOUS
  <2>13. /\ PageFits(v) /\ FrameFits(v)
         /\ t = u.agent.task => HeldStays(v, u)
    BY <2>8, <2>9, <2>11, <2>12, FrameShownFits
  <2>14. Opened(w, t, module) = v
    BY <1>2, <2>2, <2>10, <2>12 DEF Opened
  <2> QED BY <2>7, <2>13, <2>14 DEF Alike, HeldStays
<1> QED BY <1>1, <1>2

LEMMA FrameClosedIs ==
    ASSUME NEW w, PageFits(w)
    PROVE  /\ PageFits(FrameClosed(w))
           /\ FrameClosed(w).calls = w.calls
           /\ FrameClosed(w).frame.task = None
           /\ FrameClosed(w).frame.view = "closed"
           /\ FrameClosed(w).account = w.account
           /\ FrameClosed(w).busy = w.busy
           /\ FrameClosed(w).workflow = w.workflow
           /\ FrameClosed(w).escaped = w.escaped
           /\ FrameClosed(w).agent = w.agent
           /\ FrameClosed(w).stages = w.stages
<1>1. w \in Pages BY DEF PageFits
<1>2. PICK fr : fr = [task |-> None, view |-> "closed", listed |-> Unlisted]
  OBVIOUS
<1>3. Unlisted \in Listings BY WebAssumption DEF Unlisted, Listings
<1>4. fr \in FramePart BY <1>2, <1>3 DEF FramePart, Chosen, Views
<1>5. PICK v : v = FrameClosed(w) OBVIOUS
<1>6. v = [w EXCEPT !.frame = fr] BY <1>2, <1>5 DEF FrameClosed
<1>7. v \in Pages BY <1>1, <1>4, <1>6 DEF Pages
<1>8. /\ v.calls = w.calls /\ v.frame = fr /\ v.account = w.account
      /\ v.busy = w.busy /\ v.workflow = w.workflow
      /\ v.escaped = w.escaped /\ v.agent = w.agent
      /\ v.stages = w.stages
  BY <1>1, <1>6 DEF Pages
<1>9. PageFits(v)
  <2>1. Alike(v, w) BY <1>8 DEF Alike
  <2>2. Carried(v, w) BY <1>1, <1>8, FewerCarried
  <2> QED BY <1>7, <2>1, <2>2, CarriedFits
<1> QED BY <1>2, <1>5, <1>8, <1>9

LEMMA FrameClosedFits ==
    ASSUME NEW w, PageFits(w), ~w.escaped => NobodyHolds(w)
    PROVE  FrameFits(FrameClosed(w))
BY FrameClosedIs DEF FrameFits, NobodyHolds

LEMMA EscapedFits ==
    ASSUME NEW w, PageFits(w), FrameFits(w)
    PROVE  /\ PageFits(Escaped(w))
           /\ FrameFits(Escaped(w))
<1>1. PICK u : u = FrameClosed(w) OBVIOUS
<1>2. PICK e : e = (u.escaped \/ Locked(w)) OBVIOUS
<1>3. /\ PageFits(u) /\ u.calls = w.calls /\ u.escaped = w.escaped
      /\ u.frame.task = None /\ u.frame.view = "closed"
  BY <1>1, FrameClosedIs
<1>4. u \in Pages BY <1>3 DEF PageFits
<1>5. PICK v : v = Escaped(w) OBVIOUS
<1>6. v = [u EXCEPT !.escaped = e]
  BY <1>1, <1>2, <1>5 DEF Escaped
<1>7. e \in BOOLEAN
  <2>1. w.escaped \in BOOLEAN /\ w.busy \in BOOLEAN /\ w.workflow \in BOOLEAN
    BY DEF PageFits, Pages
  <2>2. w.stages.busy \in BOOLEAN BY DEF PageFits, Pages, StagesPart
  <2> QED BY <1>2, <1>3, <2>1, <2>2 DEF Locked
<1>8. /\ v \in Pages /\ v.escaped = e /\ v.calls = u.calls
      /\ v.agent = u.agent /\ v.account = u.account
      /\ v.stages = u.stages /\ v.frame = u.frame
      /\ v.busy = u.busy /\ v.workflow = u.workflow
  BY <1>4, <1>6, <1>7 DEF Pages
<1>9. ~v.escaped => ~u.escaped /\ ~w.escaped /\ ~Locked(w)
  BY <1>2, <1>3, <1>8
<1>10. ShowsFit(v) BY <1>3, <1>8, <1>9 DEF PageFits, ShowsFit
<1>11. \A d \in v.calls : AwaitFits(v, d)
  BY <1>3, <1>8, <1>9 DEF PageFits, AwaitFits
<1>12. ~v.escaped => FlowsFit(v)
  BY <1>3, <1>8, <1>9 DEF PageFits, FlowsFit
<1>13. ~v.escaped => NobodyHolds(w) BY <1>9, HoldersLock
<1>14. FrameFits(v)
  BY <1>3, <1>8, <1>13 DEF FrameFits, NobodyHolds
<1> QED BY <1>5, <1>8, <1>10, <1>11, <1>12, <1>14 DEF PageFits

LEMMA TaskUpdatedFits ==
    ASSUME NEW w, PageFits(w), FrameFits(w), NEW t, t \in Tasks,
           NEW rev, rev \in 0 .. MaxRevision
    PROVE  /\ PageFits(TaskUpdated(w, t, rev))
           /\ FrameFits(TaskUpdated(w, t, rev))
           /\ t = w.agent.task => HeldStays(TaskUpdated(w, t, rev), w)
<1>1. CASE w.library.tasks[t] = 0
  BY <1>1 DEF TaskUpdated, HeldStays
<1>2. CASE w.library.tasks[t] # 0
  <2>1. w \in Pages /\ w.frame \in FramePart /\ w.library \in LibraryPart
    BY DEF PageFits, Pages
  <2>2. w.library.tasks \in Listings /\ w.frame.listed \in Listings
    BY <2>1 DEF LibraryPart, FramePart
  <2>3. PICK r : r = IF w.frame.listed[t] = 0 THEN 0 ELSE rev OBVIOUS
  <2>4. r \in 0 .. MaxRevision BY <2>3, WebAssumption
  <2>5. PICK ts : ts = [w.library.tasks EXCEPT ![t] = rev] OBVIOUS
  <2>6. PICK ls : ls = [w.frame.listed EXCEPT ![t] = r] OBVIOUS
  <2>7. ts \in Listings /\ ls \in Listings
    BY <2>2, <2>4, <2>5, <2>6 DEF Listings
  <2>8. PICK lib : lib = [w.library EXCEPT !.tasks = ts] OBVIOUS
  <2>9. PICK fr : fr = [w.frame EXCEPT !.listed = ls] OBVIOUS
  <2>10. lib \in LibraryPart BY <2>1, <2>7, <2>8 DEF LibraryPart
  <2>11. fr \in FramePart /\ fr.task = w.frame.task /\ fr.view = w.frame.view
    BY <2>1, <2>7, <2>9 DEF FramePart
  <2>12. PICK u : u = [w EXCEPT !.library = lib, !.frame = fr] OBVIOUS
  <2>13. u = [w EXCEPT
                !.library.tasks[t] = rev,
                !.frame.listed[t] = IF @ = 0 THEN 0 ELSE rev]
    BY <2>1, <2>3, <2>5, <2>6, <2>8, <2>9, <2>12 DEF Pages
  <2>14. u \in Pages BY <2>1, <2>10, <2>11, <2>12 DEF Pages
  <2>15. Alike(u, w) /\ u.calls = w.calls /\ u.frame = fr
    BY <2>1, <2>12 DEF Pages, Alike
  <2>16. PageFits(u)
    <3>1. Carried(u, w) BY <2>1, <2>15, FewerCarried
    <3> QED BY <2>14, <2>15, <3>1, CarriedFits
  <2>17. FrameFits(u) BY <2>11, <2>15 DEF FrameFits, Alike
  <2>18. t \in Chosen BY DEF Chosen
  <2>19. ModuleAt(rev) \in {"overview", "assets", "planning"}
    BY DEF ModuleAt
  <2>20. PICK v : v = Opened(u, t, ModuleAt(rev)) OBVIOUS
  <2>21. /\ PageFits(v) /\ FrameFits(v)
         /\ t = u.agent.task => HeldStays(v, u)
    BY <2>16, <2>17, <2>18, <2>19, <2>20, OpenedFits
  <2>22. TaskUpdated(w, t, rev) = v
    BY <1>2, <2>13, <2>20 DEF TaskUpdated
  <2> QED BY <2>15, <2>21, <2>22 DEF Alike, HeldStays
<1> QED BY <1>1, <1>2

\* The selection and the flags are the same, the agent panel shows something
\* else of its task.
Calm(v, w) ==
    /\ v \in Pages
    /\ v.account = w.account /\ v.busy = w.busy /\ v.workflow = w.workflow
    /\ v.escaped = w.escaped /\ v.frame = w.frame /\ v.stages = w.stages
    /\ v.calls = w.calls /\ v.agent.task = w.agent.task

LEMMA CalmFits ==
    ASSUME NEW w, PageFits(w), NEW v, Calm(v, w), ShowsFit(v)
    PROVE  /\ PageFits(v)
           /\ FrameFits(w) => FrameFits(v)
<1>1. \A d \in v.calls : AwaitFits(v, d)
  BY DEF PageFits, AwaitFits, Calm
<1>2. ~v.escaped => FlowsFit(v) BY DEF PageFits, FlowsFit, Calm
<1>3. FrameFits(w) => FrameFits(v) BY DEF FrameFits, Calm
<1> QED BY <1>1, <1>2, <1>3 DEF PageFits, Calm

LEMMA SessionShownFits ==
    ASSUME NEW w, PageFits(w), NEW s, s \in AgentSessions,
           NEW rev, rev \in Nat,
           s.task = w.agent.task,
           ~w.escaped /\ s # None => s.account = w.account
    PROVE  /\ PageFits(SessionShown(w, s, rev))
           /\ FrameFits(w) => FrameFits(SessionShown(w, s, rev))
           /\ Calm(SessionShown(w, s, rev), w)
           /\ SessionShown(w, s, rev).agent.session = s
<1>1. w \in Pages /\ w.agent \in AgentPart BY DEF PageFits, Pages
<1>2. PICK ag : ag = [w.agent EXCEPT !.session = s, !.revision = rev]
  OBVIOUS
<1>3. ag \in AgentPart /\ ag.task = w.agent.task /\ ag.session = s
  BY <1>1, <1>2 DEF AgentPart
<1>4. PICK v : v = SessionShown(w, s, rev) OBVIOUS
<1>5. v = [w EXCEPT !.agent = ag]
  BY <1>1, <1>2, <1>4 DEF SessionShown, Pages
<1>6. v \in Pages BY <1>1, <1>3, <1>5 DEF Pages
<1>7. /\ v.account = w.account /\ v.busy = w.busy
      /\ v.workflow = w.workflow /\ v.escaped = w.escaped
      /\ v.frame = w.frame /\ v.stages = w.stages
      /\ v.calls = w.calls /\ v.agent = ag
  BY <1>1, <1>5 DEF Pages
<1>8. Calm(v, w) BY <1>3, <1>6, <1>7 DEF Calm
<1>9. ShowsFit(v) BY <1>3, <1>7 DEF PageFits, ShowsFit
<1> QED BY <1>3, <1>4, <1>7, <1>8, <1>9, CalmFits

LEMMA CardFits ==
    ASSUME NEW w, PageFits(w), NEW n, n \in Nat
    PROVE  /\ PageFits([w EXCEPT !.card = n])
           /\ FrameFits(w) => FrameFits([w EXCEPT !.card = n])
           /\ Calm([w EXCEPT !.card = n], w)
<1>1. w \in Pages BY DEF PageFits
<1>2. PICK v : v = [w EXCEPT !.card = n] OBVIOUS
<1>3. v \in Pages BY <1>1, <1>2 DEF Pages
<1>4. /\ v.account = w.account /\ v.busy = w.busy
      /\ v.workflow = w.workflow /\ v.escaped = w.escaped
      /\ v.frame = w.frame /\ v.stages = w.stages
      /\ v.calls = w.calls /\ v.agent = w.agent
  BY <1>1, <1>2 DEF Pages
<1>5. Calm(v, w) BY <1>3, <1>4 DEF Calm
<1>6. ShowsFit(v) BY <1>4 DEF PageFits, ShowsFit
<1> QED BY <1>2, <1>5, <1>6, CalmFits

\* A flow that ends, or another one its await becomes.
LEMMA FreedFits ==
    ASSUME NEW w, PageFits(w), NEW c, c \in w.calls,
           NEW v, v \in Pages, v.calls = w.calls \ {c},
           v.account = w.account, v.escaped = w.escaped, v.agent = w.agent,
           v.stages.task = w.stages.task, v.stages.shows = w.stages.shows,
           ~w.escaped =>
               \/ Held(c)
               \/ Restores(c) /\ v.workflow = w.workflow
               \/ Switches(c) /\ c.scope
               \/ v.busy = w.busy /\ v.workflow = w.workflow
    PROVE  PageFits(v)
<1>1. ShowsFit(v) BY DEF PageFits, ShowsFit
<1>2. \A d \in v.calls : AwaitFits(v, d) BY DEF PageFits, AwaitFits
<1>3. ASSUME ~w.escaped PROVE FlowsFit(v)
  <2>1. FlowsFit(w) BY <1>3 DEF PageFits
  <2>2. CASE v.busy = w.busy /\ v.workflow = w.workflow
    BY <2>1, <2>2 DEF FlowsFit
  <2>3. CASE Held(c) BY <2>1, <2>3 DEF FlowsFit
  <2>4. CASE Restores(c) /\ v.workflow = w.workflow
    BY <2>1, <2>4 DEF FlowsFit
  <2>5. CASE Switches(c) /\ c.scope BY <2>1, <2>5 DEF FlowsFit
  <2> QED BY <1>3, <2>2, <2>3, <2>4, <2>5
<1> QED BY <1>1, <1>2, <1>3 DEF PageFits

LEMMA ReplacedFits ==
    ASSUME NEW w, PageFits(w), NEW c, c \in w.calls,
           NEW d, d \in AwaitSet, AwaitFits(w, d),
           Held(d) <=> Held(c), Held(c) => d.task = c.task,
           d.flow = c.flow, d.account = c.account, d.scope = c.scope,
           Restores(d) <=> Restores(c), Switches(d) <=> Switches(c),
           NEW v, v \in Pages, v.calls = (w.calls \ {c}) \cup {d},
           v.account = w.account, v.escaped = w.escaped, v.agent = w.agent,
           v.stages.task = w.stages.task, v.stages.shows = w.stages.shows,
           v.busy = w.busy, v.workflow = w.workflow
    PROVE  /\ PageFits(v)
           /\ FrameFits(w) /\ v.frame = w.frame => FrameFits(v)
<1>1. ShowsFit(v) BY DEF PageFits, ShowsFit
<1>2. \A e \in v.calls : AwaitFits(v, e) BY DEF PageFits, AwaitFits
<1>3. ASSUME ~w.escaped PROVE FlowsFit(v)
  <2>1. FlowsFit(w) BY <1>3 DEF PageFits
  <2>2. \A e \in v.calls : e = d \/ (e \in w.calls /\ e # c) OBVIOUS
  <2>3. ASSUME NEW e \in v.calls
        PROVE  /\ Held(e) =>
                     /\ v.agent.task = e.task /\ e.account = v.account
                     /\ IF e.flow = "execute" THEN v.workflow ELSE v.busy
               /\ Restores(e) => v.busy
               /\ Switches(e) => v.workflow
    BY <2>1, <2>2 DEF FlowsFit
  <2>4. ASSUME NEW e \in v.calls, NEW g \in v.calls
        PROVE  /\ Held(e) /\ Held(g) => e = g
               /\ Restores(e) /\ Restores(g) => e = g
               /\ Switches(e) /\ Switches(g) => e = g
               /\ Held(e) => ~Restores(g) /\ ~Switches(g)
               /\ Switches(e) /\ e.scope => ~Restores(g)
    BY <2>1, <2>2 DEF FlowsFit
  <2> QED BY <2>3, <2>4 DEF FlowsFit
<1>4. FrameFits(w) /\ v.frame = w.frame => FrameFits(v)
  BY DEF FrameFits
<1> QED BY <1>1, <1>2, <1>3, <1>4 DEF PageFits

\* A flow that begins when no other holds the page.
Idle(w) == \A d \in w.calls : ~Held(d) /\ ~Restores(d) /\ ~Switches(d)

LEMMA OwnerFits ==
    ASSUME NEW w, PageFits(w), NEW c, c \in AwaitSet, AwaitFits(w, c),
           ~w.escaped =>
               /\ Idle(w)
               /\ Held(c) =>
                     /\ w.agent.task = c.task /\ c.account = w.account
                     /\ IF c.flow = "execute" THEN w.workflow ELSE w.busy
               /\ Restores(c) => w.busy
               /\ Switches(c) => w.workflow
    PROVE  /\ PageFits(Calling(w, c))
           /\ FrameFits(w) /\ (Held(c) => w.frame.view # "closed") =>
                 FrameFits(Calling(w, c))
<1>1. w \in Pages BY DEF PageFits
<1>2. PICK v : v = Calling(w, c) OBVIOUS
<1>3. /\ v \in Pages /\ SamePage(v, w) /\ v.calls = w.calls \cup {c}
  BY <1>1, <1>2, CallingIs
<1>4. ShowsFit(v) BY <1>3 DEF ShowsFit, PageFits, SamePage
<1>5. \A d \in v.calls : AwaitFits(v, d)
  BY <1>3 DEF AwaitFits, PageFits, SamePage
<1>6. /\ Held(c) => ~Restores(c) /\ ~Switches(c)
      /\ Switches(c) => ~Restores(c)
  BY DEF Held, Restores, Switches
<1>7. ~v.escaped => FlowsFit(v)
  BY <1>3, <1>6 DEF FlowsFit, PageFits, SamePage, Idle
<1>8. FrameFits(w) /\ (Held(c) => w.frame.view # "closed") => FrameFits(v)
  BY <1>3 DEF FrameFits, SamePage
<1> QED BY <1>2, <1>3, <1>4, <1>5, <1>7, <1>8 DEF PageFits

LEMMA AgentClearedFits ==
    ASSUME NEW w, PageFits(w), ~w.escaped => NobodyHolds(w)
    PROVE  /\ PageFits(AgentCleared(w))
           /\ AgentCleared(w).frame = w.frame
           /\ ~AgentCleared(w).escaped => NobodyHolds(AgentCleared(w))
           /\ FrameFits(w) /\ w.frame.view = "closed" =>
                 FrameFits(AgentCleared(w))
<1>1. w \in Pages BY DEF PageFits
<1>2. PICK u : u = Superseded(w, "restore") OBVIOUS
<1>3. u \in Pages /\ SamePage(u, w) /\ Carried(u, w)
  BY <1>1, <1>2, SupersededIs
<1>4. PageFits(u) BY <1>3, SamePageFits
<1>5. PICK none : none = [task |-> None, session |-> None, revision |-> 0]
  OBVIOUS
<1>6. none \in AgentPart BY <1>5 DEF AgentPart, Chosen
<1>7. PICK v : v = AgentCleared(w) OBVIOUS
<1>8. v = [u EXCEPT !.agent = none, !.card = 0]
  BY <1>2, <1>5, <1>7 DEF AgentCleared
<1>9. v \in Pages BY <1>3, <1>6, <1>8 DEF Pages
<1>10. /\ v.account = u.account /\ v.busy = u.busy
       /\ v.workflow = u.workflow /\ v.escaped = u.escaped
       /\ v.frame = u.frame /\ v.stages = u.stages
       /\ v.calls = u.calls /\ v.agent = none
  BY <1>3, <1>8 DEF Pages
<1>11. ~v.escaped => NobodyHolds(v)
  <2>1. w.calls \subseteq AwaitSet BY <1>1 DEF Pages
  <2>2. v.escaped = w.escaped BY <1>3, <1>10 DEF SamePage
  <2>3. \A d \in u.calls : Held(d) => \E c \in w.calls : Held(c)
    BY <2>1, <1>3, CarriedHeld
  <2> QED BY <2>2, <2>3, <1>10 DEF NobodyHolds
<1>12. ShowsFit(v) BY <1>4, <1>5, <1>10 DEF PageFits, ShowsFit
<1>13. \A d \in v.calls : AwaitFits(v, d)
  BY <1>4, <1>10 DEF PageFits, AwaitFits
<1>14. ~v.escaped => FlowsFit(v)
  BY <1>4, <1>10, <1>11 DEF PageFits, FlowsFit, NobodyHolds
<1>15. v.frame = w.frame BY <1>3, <1>10 DEF SamePage
<1>16. FrameFits(w) /\ w.frame.view = "closed" => FrameFits(v)
  BY <1>11, <1>15 DEF FrameFits, NobodyHolds
<1> QED BY <1>7, <1>9, <1>11, <1>12, <1>13, <1>14, <1>15, <1>16 DEF PageFits

LEMMA LibraryClearedFits ==
    ASSUME NEW w, PageFits(w)
    PROVE  /\ PageFits(LibraryCleared(w))
           /\ FrameFits(w) => FrameFits(LibraryCleared(w))
           /\ Carried(LibraryCleared(w), w)
           /\ LibraryCleared(w).account = w.account
           /\ LibraryCleared(w).busy = w.busy
           /\ LibraryCleared(w).workflow = w.workflow
           /\ LibraryCleared(w).escaped = w.escaped
           /\ LibraryCleared(w).frame = w.frame
<1>1. w \in Pages BY DEF PageFits
<1>2. PICK u : u = Superseded(w, "library") OBVIOUS
<1>3. u \in Pages /\ SamePage(u, w) /\ Carried(u, w)
  BY <1>1, <1>2, SupersededIs
<1>4. PageFits(u) /\ (FrameFits(w) => FrameFits(u)) BY <1>3, SamePageFits
<1>5. PICK lib : lib = [tasks |-> Unlisted, loading |-> TRUE] OBVIOUS
<1>6. lib \in LibraryPart
  <2>1. Unlisted \in Listings BY WebAssumption DEF Unlisted, Listings
  <2> QED BY <2>1, <1>5 DEF LibraryPart
<1>7. PICK v : v = LibraryCleared(w) OBVIOUS
<1>8. v = [u EXCEPT !.library = lib]
  BY <1>2, <1>5, <1>7 DEF LibraryCleared
<1>9. v \in Pages BY <1>3, <1>6, <1>8 DEF Pages
<1>10. /\ v.account = u.account /\ v.busy = u.busy
       /\ v.workflow = u.workflow /\ v.escaped = u.escaped
       /\ v.frame = u.frame /\ v.stages = u.stages
       /\ v.calls = u.calls /\ v.agent = u.agent
  BY <1>3, <1>8 DEF Pages
<1>11. Calm(v, u) /\ ShowsFit(v)
  BY <1>4, <1>9, <1>10 DEF Calm, PageFits, ShowsFit
<1>12. PageFits(v) /\ (FrameFits(u) => FrameFits(v))
  BY <1>4, <1>11, CalmFits
<1>13. Carried(v, w) BY <1>3, <1>10 DEF Carried
<1> QED BY <1>3, <1>4, <1>7, <1>10, <1>12, <1>13 DEF SamePage

LEMMA LibraryAwaitIs ==
    ASSUME NEW w, NEW step, w \in Pages, step \in Steps
    PROVE  Await(w, "library", step, None, None, 0) \in AwaitSet
<1>1. "library" \in Flows /\ None \in Chosen
      /\ None \in AgentSessions \cup {None} /\ 0 \in Nat
  BY DEF Flows, Chosen
<1> QED BY <1>1, AwaitIs

LEMMA LibraryLoadFits ==
    ASSUME NEW w, PageFits(w)
    PROVE  /\ PageFits(LibraryLoad(w, "load"))
           /\ FrameFits(w) => FrameFits(LibraryLoad(w, "load"))
<1>1. w \in Pages BY DEF PageFits
<1>2. PICK c : c = Await(w, "library", "load", None, None, 0) OBVIOUS
<1>3. /\ c \in AwaitSet /\ c.flow = "library"
      /\ c.account = w.account /\ c.session = None
      /\ ~Held(c) /\ ~Restores(c) /\ ~Switches(c)
  <2>1. "load" \in Steps BY DEF Steps
  <2>2. c \in AwaitSet BY <1>1, <1>2, <2>1, LibraryAwaitIs
  <2>3. /\ c.flow = "library" /\ c.step = "load"
        /\ c.account = w.account /\ c.session = None
    BY <1>2 DEF Await
  <2> QED BY <2>2, <2>3 DEF Held, Restores, Switches
<1>4. PICK u : u = LibraryCleared(w) OBVIOUS
<1>5. PageFits(u) /\ (FrameFits(w) => FrameFits(u)) /\ u.account = w.account
  BY <1>4, LibraryClearedFits
<1>6. AwaitFits(u, c)
  BY <1>3, <1>5 DEF AwaitFits, HasTask, HasSession, OfStages, PageFlows
<1>7. PICK v : v = Calling(u, c) OBVIOUS
<1>8. PageFits(v) /\ (FrameFits(u) => FrameFits(v))
  BY <1>3, <1>5, <1>6, <1>7, CallingFits
<1>9. LibraryLoad(w, "load") = v
  BY <1>2, <1>4, <1>7 DEF LibraryLoad
<1> QED BY <1>5, <1>8, <1>9

-----------------------------------------------------------------------------
(* What users do. *)

LEMMA PageChanges ==
    ASSUME WebInv, NEW v, web' = v, PageFits(v), FrameFits(v),
           UNCHANGED <<revision, sessions>>
    PROVE  WebInv'
BY DEF WebInv

LEMMA DoesKeeps ==
    ASSUME WebInv, NEW v, PageFits(v), FrameFits(v), Does(v)
    PROVE  WebInv'
BY PageChanges DEF Does

LEMMA OpenFromLibraryKeeps ==
    ASSUME WebInv, OpenFromLibrary
    PROVE  WebInv'
<1>1. PICK w : w = web OBVIOUS
<1>2. PageFits(w) /\ FrameFits(w) BY <1>1 DEF WebInv
<1>3. PICK t \in Chosen : Does(Opened(web, t,
          IF t = None THEN "overview" ELSE ModuleAt(web.library.tasks[t])))
  BY DEF OpenFromLibrary, Chosen
<1>4. PICK m : m = IF t = None THEN "overview"
                   ELSE ModuleAt(w.library.tasks[t])
  OBVIOUS
<1>5. m \in {"overview", "assets", "planning"} BY <1>4 DEF ModuleAt
<1>6. PICK v : v = Opened(w, t, m) OBVIOUS
<1>7. PageFits(v) /\ FrameFits(v) BY <1>2, <1>5, <1>6, OpenedFits
<1>8. Does(v) BY <1>1, <1>3, <1>4, <1>6
<1> QED BY <1>7, <1>8, DoesKeeps

LEMMA SelectTaskKeeps ==
    ASSUME WebInv, NEW t \in Tasks, SelectTask(t)
    PROVE  WebInv'
<1>1. PICK w : w = web OBVIOUS
<1>2. PageFits(w) /\ FrameFits(w) BY <1>1 DEF WebInv
<1>3. Locked(w) => t = w.frame.task BY <1>1 DEF SelectTask
<1>4. PICK m : m = ModuleAt(w.frame.listed[t]) OBVIOUS
<1>5. m \in {"overview", "assets", "planning"} BY <1>4 DEF ModuleAt
<1>6. ~w.escaped => NobodyHolds(w) \/ t = w.agent.task
  BY <1>2, <1>3, HoldersSelect
<1>7. t \in Chosen BY DEF Chosen
<1>8. PICK v : v = FrameShown(w, t, m) OBVIOUS
<1>9. PageFits(v) /\ FrameFits(v)
  BY <1>2, <1>5, <1>6, <1>7, <1>8, FrameShownFits
<1>10. Does(v) BY <1>1, <1>4, <1>8 DEF SelectTask
<1> QED BY <1>9, <1>10, DoesKeeps

LEMMA ShowModuleKeeps ==
    ASSUME WebInv, NEW m \in {"assets", "planning"}, ShowModule(m)
    PROVE  WebInv'
<1>1. PICK w : w = web OBVIOUS
<1>2. PageFits(w) /\ FrameFits(w) BY <1>1 DEF WebInv
<1>3. PICK t : t = IF w.frame.task = None THEN FirstTask ELSE w.frame.task
  OBVIOUS
<1>4. t \in Chosen
  <2>1. w.frame \in FramePart BY <1>2 DEF PageFits, Pages
  <2> QED BY <1>3, <2>1, WebAssumption DEF FramePart, Chosen
<1>5. ~w.escaped => NobodyHolds(w) \/ t = w.agent.task
  BY <1>2, <1>3, HoldersSelect, WebAssumption
<1>6. PICK v : v = FrameShown(w, t, m) OBVIOUS
<1>7. m \in {"overview", "assets", "planning"} OBVIOUS
<1>8. PageFits(v) /\ FrameFits(v)
  BY <1>2, <1>4, <1>5, <1>6, <1>7, FrameShownFits
<1>9. Does(v) BY <1>1, <1>3, <1>6 DEF ShowModule
<1> QED BY <1>8, <1>9, DoesKeeps

LEMMA ShowOverviewKeeps ==
    ASSUME WebInv, ShowOverview
    PROVE  WebInv'
<1>1. PICK w : w = web OBVIOUS
<1>2. PageFits(w) /\ FrameFits(w) BY <1>1 DEF WebInv
<1>3. Locked(w) => w.frame.task = None BY <1>1 DEF ShowOverview
<1>4. ~w.escaped => NobodyHolds(w)
  BY <1>2, <1>3, HoldersSelect, WebAssumption
<1>5. None \in Chosen BY DEF Chosen
<1>6. PICK v : v = FrameShown(w, None, "overview") OBVIOUS
<1>7. PageFits(v) /\ FrameFits(v)
  BY <1>2, <1>4, <1>5, <1>6, FrameShownFits
<1>8. Does(v) BY <1>1, <1>6 DEF ShowOverview
<1> QED BY <1>7, <1>8, DoesKeeps

LEMMA ShowProjectAssetsKeeps ==
    ASSUME WebInv, ShowProjectAssets
    PROVE  WebInv'
<1>1. PICK w : w = web OBVIOUS
<1>2. PageFits(w) /\ FrameFits(w) BY <1>1 DEF WebInv
<1>3. ~Locked(w) BY <1>1 DEF ShowProjectAssets
<1>4. ~w.escaped => NobodyHolds(w) BY <1>2, <1>3, HoldersLock
<1>5. FirstTask \in Chosen BY WebAssumption DEF Chosen
<1>6. PICK v : v = FrameShown(w, FirstTask, "assets") OBVIOUS
<1>7. PageFits(v) /\ FrameFits(v)
  BY <1>2, <1>4, <1>5, <1>6, FrameShownFits
<1>8. Does(v) BY <1>1, <1>6 DEF ShowProjectAssets
<1> QED BY <1>7, <1>8, DoesKeeps

LEMMA BackKeeps ==
    ASSUME WebInv, Back
    PROVE  WebInv'
<1>1. PICK w : w = web OBVIOUS
<1>2. PageFits(w) /\ FrameFits(w) BY <1>1 DEF WebInv
<1>3. ~Locked(w) /\ Does(FrameClosed(w)) BY <1>1 DEF Back
<1>4. ~w.escaped => NobodyHolds(w) BY <1>2, <1>3, HoldersLock
<1>5. PICK v : v = FrameClosed(w) OBVIOUS
<1>6. PageFits(v) /\ FrameFits(v)
  BY <1>2, <1>4, <1>5, FrameClosedIs, FrameClosedFits
<1> QED BY <1>3, <1>5, <1>6, DoesKeeps

\* An address with no task closes the frame only if nothing is locked or the
\* frame is closed already.
LEMMA NavigateKeeps ==
    ASSUME WebInv, Navigate
    PROVE  WebInv'
<1>1. PICK w : w = web OBVIOUS
<1>2. PageFits(w) /\ FrameFits(w) BY <1>1 DEF WebInv
<1>3. ASSUME Locked(w) => w.frame.view = "closed", Does(FrameClosed(w))
      PROVE  WebInv'
  <2>1. ~w.escaped => NobodyHolds(w) BY <1>2, <1>3, HoldersSelect
  <2>2. PICK v : v = FrameClosed(w) OBVIOUS
  <2>3. PageFits(v) /\ FrameFits(v)
    BY <1>2, <2>1, <2>2, FrameClosedIs, FrameClosedFits
  <2> QED BY <1>3, <2>2, <2>3, DoesKeeps
<1>4. ASSUME NEW t \in Chosen, NEW m \in {"assets", "planning"},
             Does(Opened(w, t, m))
      PROVE  WebInv'
  <2>1. PICK v : v = Opened(w, t, m) OBVIOUS
  <2>2. m \in {"overview", "assets", "planning"} OBVIOUS
  <2>3. PageFits(v) /\ FrameFits(v) BY <1>2, <2>1, <2>2, OpenedFits
  <2> QED BY <1>4, <2>1, <2>3, DoesKeeps
<1>5. ASSUME Does(Escaped(w)) PROVE WebInv'
  <2>1. PICK v : v = Escaped(w) OBVIOUS
  <2>2. PageFits(v) /\ FrameFits(v) BY <1>2, <2>1, EscapedFits
  <2> QED BY <1>5, <2>1, <2>2, DoesKeeps
<1>6. \/ (Locked(w) => w.frame.view = "closed") /\ Does(FrameClosed(w))
      \/ \E t \in Chosen, m \in {"assets", "planning"} :
            Does(Opened(w, t, m)) \/ Does(Escaped(w))
  BY <1>1 DEF Navigate, Chosen
<1> QED BY <1>3, <1>4, <1>5, <1>6

LEMMA SelectNavigationBrandKeeps ==
    ASSUME WebInv, SelectNavigationBrand
    PROVE  WebInv'
<1>1. PICK w : w = web OBVIOUS
<1>2. PageFits(w) /\ FrameFits(w) BY <1>1 DEF WebInv
<1>3. ~w.escaped => NobodyHolds(w)
  BY <1>1, <1>2, HoldersLock DEF SelectNavigationBrand
<1>4. PICK u : u = FrameClosed(w) OBVIOUS
<1>5. PageFits(u) /\ FrameFits(u) /\ u.frame.view = "closed"
  BY <1>2, <1>3, <1>4, FrameClosedIs, FrameClosedFits
<1>6. ~u.escaped => NobodyHolds(u)
  BY <1>2, <1>3, <1>4, FrameClosedIs DEF NobodyHolds
<1>7. PICK v : v = AgentCleared(u) OBVIOUS
<1>8. PageFits(v) /\ FrameFits(v) BY <1>5, <1>6, <1>7, AgentClearedFits
<1>9. Does(v) BY <1>1, <1>4, <1>7 DEF SelectNavigationBrand
<1> QED BY <1>8, <1>9, DoesKeeps

LEMMA ReloadLibraryKeeps ==
    ASSUME WebInv, ReloadLibrary
    PROVE  WebInv'
<1>1. PICK w : w = web OBVIOUS
<1>2. PageFits(w) /\ FrameFits(w) BY <1>1 DEF WebInv
<1>3. PICK v : v = LibraryLoad(w, "load") OBVIOUS
<1>4. PageFits(v) /\ FrameFits(v) BY <1>2, <1>3, LibraryLoadFits
<1>5. Does(v) BY <1>1, <1>3 DEF ReloadLibrary
<1> QED BY <1>4, <1>5, DoesKeeps

LEMMA CenterFits ==
    ASSUME NEW w, PageFits(w), FrameFits(w), NEW b, b \in BOOLEAN
    PROVE  /\ PageFits([w EXCEPT !.center = b])
           /\ FrameFits([w EXCEPT !.center = b])
<1>1. w \in Pages BY DEF PageFits
<1>2. PICK v : v = [w EXCEPT !.center = b] OBVIOUS
<1>3. v \in Pages BY <1>1, <1>2 DEF Pages
<1>4. /\ v.account = w.account /\ v.busy = w.busy
      /\ v.workflow = w.workflow /\ v.escaped = w.escaped
      /\ v.frame = w.frame /\ v.stages = w.stages
      /\ v.calls = w.calls /\ v.agent = w.agent
  BY <1>1, <1>2 DEF Pages
<1>5. Calm(v, w) /\ ShowsFit(v) BY <1>3, <1>4 DEF Calm, PageFits, ShowsFit
<1> QED BY <1>2, <1>5, CalmFits

LEMMA ManagementCenterKeeps ==
    ASSUME WebInv, OpenManagementCenter \/ CloseManagementCenter
    PROVE  WebInv'
<1>1. PICK w : w = web OBVIOUS
<1>2. PageFits(w) /\ FrameFits(w) BY <1>1 DEF WebInv
<1>3. ASSUME OpenManagementCenter PROVE WebInv'
  <2>1. PICK u : u = Escaped(w) OBVIOUS
  <2>2. PageFits(u) /\ FrameFits(u) BY <1>2, <2>1, EscapedFits
  <2>3. PICK v : v = [u EXCEPT !.center = TRUE] OBVIOUS
  <2>4. PageFits(v) /\ FrameFits(v) BY <2>2, <2>3, CenterFits
  <2>5. Does(v) BY <1>1, <1>3, <2>1, <2>3 DEF OpenManagementCenter
  <2> QED BY <2>4, <2>5, DoesKeeps
<1>4. ASSUME CloseManagementCenter PROVE WebInv'
  <2>1. PICK v : v = [w EXCEPT !.center = FALSE] OBVIOUS
  <2>2. PageFits(v) /\ FrameFits(v) BY <1>2, <2>1, CenterFits
  <2>3. Does(v) BY <1>1, <1>4, <2>1 DEF CloseManagementCenter
  <2> QED BY <2>2, <2>3, DoesKeeps
<1> QED BY <1>3, <1>4

LEMMA CarriedIdle ==
    ASSUME NEW w, w.calls \subseteq AwaitSet, Idle(w), NEW v, Carried(v, w)
    PROVE  Idle(v)
<1> SUFFICES ASSUME NEW d \in v.calls
             PROVE  ~Held(d) /\ ~Restores(d) /\ ~Switches(d)
  BY DEF Idle
<1>1. PICK c \in w.calls : Fades(c, d) BY DEF Carried
<1>2. ~Held(c) /\ ~Restores(c) /\ ~Switches(c) BY DEF Idle
<1> QED BY <1>1, <1>2, FadedOwners

LEMMA UnlockedIdle ==
    ASSUME NEW w, PageFits(w), ~w.escaped, ~w.busy, ~w.workflow
    PROVE  Idle(w)
BY HoldersLock DEF Idle, NobodyHolds

\* The flags of an idle page may be set any way.
LEMMA FlagsFit ==
    ASSUME NEW w, PageFits(w), ~w.escaped => Idle(w),
           NEW v, v \in Pages, v.account = w.account,
           v.escaped = w.escaped, v.agent = w.agent, v.stages = w.stages,
           v.frame = w.frame, v.calls = w.calls
    PROVE  /\ PageFits(v)
           /\ FrameFits(w) => FrameFits(v)
           /\ ~v.escaped => Idle(v)
<1>1. ShowsFit(v) BY DEF PageFits, ShowsFit
<1>2. \A d \in v.calls : AwaitFits(v, d) BY DEF PageFits, AwaitFits
<1>3. ~v.escaped => FlowsFit(v) BY DEF FlowsFit, Idle
<1>4. FrameFits(w) => FrameFits(v) BY DEF FrameFits
<1>5. ~v.escaped => Idle(v) BY DEF Idle
<1> QED BY <1>1, <1>2, <1>3, <1>4, <1>5 DEF PageFits

LEMMA SwitchAccountKeeps ==
    ASSUME WebInv, NEW a \in DevAccounts, SwitchAccount(a)
    PROVE  WebInv'
<1>1. PICK w : w = web OBVIOUS
<1>2. PageFits(w) /\ FrameFits(w) BY <1>1 DEF WebInv
<1>3. w \in Pages BY <1>2 DEF PageFits
<1>4. ~w.escaped => Idle(w)
  BY <1>1, <1>2, UnlockedIdle DEF SwitchAccount, Locked
<1>5. PICK x : x = [w EXCEPT !.hydrating = TRUE, !.busy = TRUE,
                             !.workflow = TRUE]
  OBVIOUS
<1>6. /\ x \in Pages /\ x.account = w.account /\ x.escaped = w.escaped
      /\ x.agent = w.agent /\ x.stages = w.stages /\ x.frame = w.frame
      /\ x.calls = w.calls /\ x.workflow = TRUE
  BY <1>3, <1>5 DEF Pages
<1>7. PageFits(x) /\ FrameFits(x) /\ (~x.escaped => Idle(x))
  BY <1>2, <1>4, <1>6, FlagsFit
<1>8. PICK h : h = NewScope(x) OBVIOUS
<1>9. h \in Pages /\ SamePage(h, x) /\ Carried(h, x)
  BY <1>6, <1>8, NewScopeIs
<1>10. PageFits(h) /\ FrameFits(h) BY <1>7, <1>9, SamePageFits
<1>11. PICK y : y = AccountRendered(h) OBVIOUS
<1>12. /\ y \in Pages /\ Steady(y, h) /\ y.stages = h.stages
       /\ y.calls = h.calls
  BY <1>9, <1>11, AccountRenderedIs
<1>13. PageFits(y) /\ FrameFits(y)
  BY <1>9, <1>10, <1>12, FewerCarried, SteadyFits
<1>14. PICK z : z = LibraryCleared(y) OBVIOUS
<1>15. /\ PageFits(z) /\ FrameFits(z) /\ Carried(z, y)
       /\ z.account = y.account /\ z.workflow = y.workflow
       /\ z.escaped = y.escaped
  BY <1>13, <1>14, LibraryClearedFits
<1>16. ~z.escaped => Idle(z)
  <2>1. x.calls \subseteq AwaitSet /\ y.calls \subseteq AwaitSet
    BY <1>6, <1>12 DEF Pages
  <2>2. z.escaped = x.escaped BY <1>9, <1>12, <1>15 DEF SamePage, Steady
  <2>3. ~x.escaped => Idle(h) BY <1>7, <1>9, <2>1, CarriedIdle
  <2>4. ~x.escaped => Idle(y) BY <2>3, <1>12 DEF Idle
  <2> QED BY <1>15, <2>1, <2>2, <2>4, CarriedIdle
<1>17. z.account = w.account /\ z.workflow = TRUE
  BY <1>6, <1>9, <1>12, <1>15 DEF SamePage, Steady
<1>18. PICK c : c = [flow |-> "switch", step |-> "session",
                     account |-> w.account, to |-> a,
                     listed |-> w.library.tasks,
                     scope |-> TRUE, newest |-> TRUE]
  OBVIOUS
<1>19. c \in AwaitSet
  <2>1. w.account \in DevAccounts /\ w.library.tasks \in Listings
    BY <1>3 DEF Pages, LibraryPart
  <2>2. "session" \in Steps BY DEF Steps
  <2>3. c \in SwitchRecords BY <1>18, <2>1, <2>2 DEF SwitchRecords
  <2> QED BY <2>3 DEF AwaitSet
<1>20. c.flow = "switch" /\ c.account = w.account BY <1>18
<1>21. ~Held(c) /\ ~Restores(c) /\ AwaitFits(z, c)
  BY <1>17, <1>20
     DEF Held, Restores, AwaitFits, HasTask, HasSession, OfStages, PageFlows
<1>22. PICK v : v = Calling(z, c) OBVIOUS
<1>23. PageFits(v) /\ FrameFits(v)
  BY <1>15, <1>16, <1>17, <1>19, <1>21, <1>22, OwnerFits
<1>24. Does(v)
  BY <1>1, <1>5, <1>8, <1>11, <1>14, <1>18, <1>22 DEF SwitchAccount
<1> QED BY <1>23, <1>24, DoesKeeps

\* What the agent panel starts: a run, or another session of the task.
LEMMA HoldFits ==
    ASSUME NEW w, PageFits(w), FrameFits(w), w.frame.view # "closed",
           ~Locked(w), w.agent.task \in Tasks,
           NEW flow, flow \in {"select", "reset", "send"},
           NEW step, step \in Steps,
           NEW s, s \in AgentSessions \cup {None},
           ~(flow = "select" /\ step = "create") => s \in AgentSessions,
           s # None => /\ s.task = w.agent.task
                       /\ ~w.escaped => s.account = w.account,
           NEW rev, rev \in Nat
    PROVE  /\ PageFits(Calling([w EXCEPT !.busy = TRUE],
                  Await(w, flow, step, w.agent.task, s, rev)))
           /\ FrameFits(Calling([w EXCEPT !.busy = TRUE],
                  Await(w, flow, step, w.agent.task, s, rev)))
<1>1. w \in Pages BY DEF PageFits
<1>2. ~w.escaped => Idle(w) BY UnlockedIdle DEF Locked
<1>3. PICK x : x = [w EXCEPT !.busy = TRUE] OBVIOUS
<1>4. /\ x \in Pages /\ x.account = w.account /\ x.escaped = w.escaped
      /\ x.agent = w.agent /\ x.stages = w.stages /\ x.frame = w.frame
      /\ x.calls = w.calls /\ x.busy = TRUE
  BY <1>1, <1>3 DEF Pages
<1>5. PageFits(x) /\ FrameFits(x) /\ (~x.escaped => Idle(x))
  BY <1>2, <1>4, FlagsFit
<1>6. PICK c : c = Await(w, flow, step, w.agent.task, s, rev) OBVIOUS
<1>7. flow \in Flows /\ w.agent.task \in Chosen BY DEF Flows, Chosen
<1>8. c \in AwaitSet BY <1>1, <1>6, <1>7, AwaitIs
<1>9. /\ c.flow = flow /\ c.step = step /\ c.account = w.account
      /\ c.task = w.agent.task /\ c.session = s
  BY <1>6 DEF Await
<1>10. AwaitFits(x, c)
  BY <1>4, <1>9
     DEF AwaitFits, HasTask, HasSession, OfStages, PageFlows
<1>11. Held(c) /\ ~Restores(c) /\ ~Switches(c)
  BY <1>9 DEF Held, Restores, Switches
<1>12. PICK v : v = Calling(x, c) OBVIOUS
<1>13. c.flow # "execute" BY <1>9
<1>14. PageFits(v) /\ FrameFits(v)
  BY <1>4, <1>5, <1>8, <1>9, <1>10, <1>11, <1>12, <1>13, OwnerFits
<1> QED BY <1>3, <1>6, <1>12, <1>14

LEMMA AgentActs ==
    ASSUME WebInv, AgentFree,
           SelectSession \/ NewSession \/ ResetSession \/ SendMessage
    PROVE  WebInv'
<1>1. PICK w : w = web OBVIOUS
<1>2. PageFits(w) /\ FrameFits(w) BY <1>1 DEF WebInv
<1>3. w.frame.view # "closed" /\ ~Locked(w)
  BY <1>1 DEF AgentFree, InFrame
<1>4. w.agent \in AgentPart BY <1>2 DEF PageFits, Pages
<1>5. w.agent.session # None =>
        /\ w.agent.session \in AgentSessions
        /\ w.agent.session.task = w.agent.task
        /\ ~w.escaped => w.agent.session.account = w.account
        /\ w.agent.task \in Tasks
  BY <1>2, <1>4 DEF PageFits, ShowsFit, AgentPart, AgentSessions
<1>6. ASSUME NEW s \in SessionsOf(web.account, web.agent.task),
             Holding("select", "get", s)
      PROVE  WebInv'
  <2>1. s \in AgentSessions /\ s.account = w.account
        /\ s.task = w.agent.task
    BY <1>1, <1>6 DEF SessionsOf, WebInv
  <2>2. w.agent.task \in Tasks BY <2>1 DEF AgentSessions
  <2>3. "get" \in Steps BY DEF Steps
  <2>4. PICK v : v = Calling([w EXCEPT !.busy = TRUE],
                    Await(w, "select", "get", w.agent.task, s, 0))
    OBVIOUS
  <2>5. PageFits(v) /\ FrameFits(v)
    BY <1>2, <1>3, <2>1, <2>2, <2>3, <2>4, HoldFits
  <2>6. Does(v) BY <1>1, <1>6, <2>4 DEF Holding
  <2> QED BY <2>5, <2>6, DoesKeeps
<1>7. ASSUME NewSession PROVE WebInv'
  <2>1. w.agent.task \in Tasks
    BY <1>1, <1>4, <1>7 DEF NewSession, AgentPart, Chosen
  <2>2. "create" \in Steps /\ None \in AgentSessions \cup {None}
    BY DEF Steps
  <2>3. PICK v : v = Calling([w EXCEPT !.busy = TRUE],
                    Await(w, "select", "create", w.agent.task, None, 0))
    OBVIOUS
  <2>4. PageFits(v) /\ FrameFits(v)
    BY <1>2, <1>3, <2>1, <2>2, <2>3, HoldFits
  <2>5. Does(v) BY <1>1, <1>7, <2>3 DEF NewSession, Holding
  <2> QED BY <2>4, <2>5, DoesKeeps
<1>8. ASSUME ResetSession PROVE WebInv'
  <2>1. w.agent.session # None BY <1>1, <1>8 DEF ResetSession
  <2>2. PICK s : s = w.agent.session OBVIOUS
  <2>3. "reset" \in Steps BY DEF Steps
  <2>4. PICK v : v = Calling([w EXCEPT !.busy = TRUE],
                    Await(w, "reset", "reset", w.agent.task, s, 0))
    OBVIOUS
  <2>5. PageFits(v) /\ FrameFits(v)
    BY <1>2, <1>3, <1>5, <2>1, <2>2, <2>3, <2>4, HoldFits
  <2>6. Does(v) BY <1>1, <1>8, <2>2, <2>4 DEF ResetSession, Holding
  <2> QED BY <2>5, <2>6, DoesKeeps
<1>9. ASSUME SendMessage PROVE WebInv'
  <2>1. w.agent.session # None BY <1>1, <1>9 DEF SendMessage
  <2>2. PICK s : s = w.agent.session OBVIOUS
  <2>3. "run" \in Steps BY DEF Steps
  <2>4. PICK rev : rev = revision[w.agent.task] OBVIOUS
  <2>5. rev \in Nat BY <1>5, <2>1, <2>4, WebAssumption DEF WebInv
  <2>6. PICK v : v = Calling([w EXCEPT !.busy = TRUE],
                    Await(w, "send", "run", w.agent.task, s, rev))
    OBVIOUS
  <2>7. PageFits(v) /\ FrameFits(v)
    BY <1>2, <1>3, <1>5, <2>1, <2>2, <2>3, <2>5, <2>6, HoldFits
  <2>8. Does(v) BY <1>1, <1>9, <2>2, <2>4, <2>6 DEF SendMessage
  <2> QED BY <2>7, <2>8, DoesKeeps
<1>10. SelectSession => \E s \in SessionsOf(web.account, web.agent.task) :
                            Holding("select", "get", s)
  BY DEF SelectSession
<1> QED BY <1>6, <1>7, <1>8, <1>9, <1>10

LEMMA ExecuteCardKeeps ==
    ASSUME WebInv, ExecuteCard
    PROVE  WebInv'
<1>1. PICK w : w = web OBVIOUS
<1>2. PageFits(w) /\ FrameFits(w) BY <1>1 DEF WebInv
<1>3. w \in Pages /\ w.agent \in AgentPart BY <1>2 DEF PageFits, Pages
<1>4. /\ w.frame.view # "closed" /\ ~w.busy /\ ~w.workflow
      /\ w.agent.session # None
  BY <1>1 DEF ExecuteCard, InFrame
<1>5. /\ w.agent.session \in AgentSessions
      /\ w.agent.session.task = w.agent.task
      /\ ~w.escaped => w.agent.session.account = w.account
      /\ w.agent.task \in Tasks
  BY <1>2, <1>3, <1>4 DEF PageFits, ShowsFit, AgentPart, AgentSessions
<1>6. ~w.escaped => Idle(w) BY <1>2, <1>4, UnlockedIdle
<1>7. PICK x : x = [w EXCEPT !.workflow = TRUE] OBVIOUS
<1>8. /\ x \in Pages /\ x.account = w.account /\ x.escaped = w.escaped
      /\ x.agent = w.agent /\ x.stages = w.stages /\ x.frame = w.frame
      /\ x.calls = w.calls /\ x.workflow = TRUE
  BY <1>3, <1>7 DEF Pages
<1>9. PageFits(x) /\ FrameFits(x) /\ (~x.escaped => Idle(x))
  BY <1>2, <1>6, <1>8, FlagsFit
<1>10. PICK c : c = Await(w, "execute", "command", w.agent.task,
                          w.agent.session, w.card)
  OBVIOUS
<1>11. "execute" \in Flows /\ "command" \in Steps /\ w.agent.task \in Chosen
       /\ w.agent.session \in AgentSessions \cup {None} /\ w.card \in Nat
  BY <1>3, <1>5 DEF Flows, Steps, Chosen, Pages
<1>12. c \in AwaitSet BY <1>3, <1>10, <1>11, AwaitIs
<1>13. /\ c.flow = "execute" /\ c.step = "command"
       /\ c.account = w.account
       /\ c.task = w.agent.task /\ c.session = w.agent.session
  BY <1>10 DEF Await
<1>14. AwaitFits(x, c)
  BY <1>5, <1>8, <1>13
     DEF AwaitFits, HasTask, HasSession, OfStages, PageFlows
<1>15. Held(c) /\ ~Restores(c) /\ ~Switches(c)
  BY <1>13 DEF Held, Restores, Switches
<1>16. PICK v : v = Calling(x, c) OBVIOUS
<1>17. PageFits(v) /\ FrameFits(v)
  BY <1>4, <1>8, <1>9, <1>12, <1>13, <1>14, <1>15, <1>16, OwnerFits
<1>18. Does(v) BY <1>1, <1>7, <1>10, <1>16 DEF ExecuteCard
<1> QED BY <1>17, <1>18, DoesKeeps

LEMMA AssetsFit ==
    ASSUME NEW w, PageFits(w), NEW as, as \in AssetsPart
    PROVE  /\ PageFits([w EXCEPT !.assets = as])
           /\ FrameFits(w) => FrameFits([w EXCEPT !.assets = as])
           /\ Steady([w EXCEPT !.assets = as], w)
           /\ [w EXCEPT !.assets = as].stages = w.stages
           /\ [w EXCEPT !.assets = as].calls = w.calls
           /\ [w EXCEPT !.assets = as].assets = as
<1>1. w \in Pages BY DEF PageFits
<1>2. PICK v : v = [w EXCEPT !.assets = as] OBVIOUS
<1>3. v \in Pages BY <1>1, <1>2 DEF Pages
<1>4. /\ Steady(v, w) /\ v.stages = w.stages /\ v.calls = w.calls
      /\ v.assets = as
  BY <1>1, <1>2 DEF Pages, Steady
<1>5. Carried(v, w) BY <1>1, <1>4, FewerCarried
<1> QED BY <1>2, <1>3, <1>4, <1>5, SteadyFits

LEMMA AssetFields ==
    ASSUME NEW as, as \in AssetsPart, NEW b, b \in BOOLEAN,
           NEW s, s \in StageViews \cup {None}
    PROVE  /\ [as EXCEPT !.busy = b] \in AssetsPart
           /\ [as EXCEPT !.shows = s] \in AssetsPart
BY DEF AssetsPart

LEMMA UseAssetsKeeps ==
    ASSUME WebInv, UseAssets
    PROVE  WebInv'
<1>1. PICK w : w = web OBVIOUS
<1>2. PageFits(w) /\ FrameFits(w) BY <1>1 DEF WebInv
<1>3. w \in Pages /\ w.assets \in AssetsPart /\ w.frame \in FramePart
  BY <1>2 DEF PageFits, Pages
<1>4. w.assets.task \in Tasks
  BY <1>1, <1>3 DEF UseAssets, AssetsPart, Chosen
<1>5. PICK step \in {"confirm", "reopen", "upload"} : CallingAssets(step)
  BY DEF UseAssets
<1>6. PICK as : as = [w.assets EXCEPT !.busy = TRUE] OBVIOUS
<1>7. as \in AssetsPart BY <1>3, <1>6 DEF AssetsPart
<1>8. PICK x : x = [w EXCEPT !.assets = as] OBVIOUS
<1>9. x = [w EXCEPT !.assets.busy = TRUE]
  BY <1>3, <1>6, <1>8 DEF Pages
<1>10. PageFits(x) /\ FrameFits(x) /\ Steady(x, w) /\ x.stages = w.stages
  BY <1>2, <1>7, <1>8, AssetsFit
<1>11. PICK rev : rev = w.frame.listed[w.assets.task] OBVIOUS
<1>12. rev \in Nat
  BY <1>3, <1>4, <1>11, WebAssumption DEF FramePart, Listings
<1>13. PICK c : c = Await(w, "asset work", step, w.assets.task, None, rev)
  OBVIOUS
<1>14. "asset work" \in Flows /\ step \in Steps /\ w.assets.task \in Chosen
       /\ None \in AgentSessions \cup {None}
  BY <1>4 DEF Flows, PageFlows, Steps, Chosen
<1>15. c \in AwaitSet BY <1>3, <1>12, <1>13, <1>14, AwaitIs
<1>16. c.flow = "asset work" /\ c.task = w.assets.task /\ c.session = None
  BY <1>13 DEF Await
<1>17. AwaitFits(x, c) /\ ~Held(c) /\ ~Restores(c) /\ ~Switches(c)
  BY <1>4, <1>16 DEF AwaitFits, HasTask, HasSession, OfStages, PageFlows,
                     Held, Restores, Switches
<1>18. PICK v : v = Calling(x, c) OBVIOUS
<1>19. PageFits(v) /\ FrameFits(v) BY <1>10, <1>15, <1>17, <1>18, CallingFits
<1>20. Does(v)
  BY <1>1, <1>5, <1>9, <1>11, <1>13, <1>18 DEF CallingAssets
<1> QED BY <1>19, <1>20, DoesKeeps

LEMMA UseStagesKeeps ==
    ASSUME WebInv, UseStages
    PROVE  WebInv'
<1>1. PICK w : w = web OBVIOUS
<1>2. PageFits(w) /\ FrameFits(w) BY <1>1 DEF WebInv
<1>3. w \in Pages /\ w.stages \in StagesPart BY <1>2 DEF PageFits, Pages
<1>4. w.stages.task \in Tasks /\ w.stages.revision \in Nat
  BY <1>1, <1>3 DEF UseStages, StagesPart, Chosen
<1>5. PICK step \in {"mutate", "video"} : CallingStages(step)
  BY DEF UseStages
<1>6. PICK x : x = PanelBusy(w, TRUE) OBVIOUS
<1>7. /\ PageFits(x) /\ FrameFits(x) /\ x.stages.task = w.stages.task
      /\ Steady(x, w)
  BY <1>2, <1>3, <1>6, PanelBusyFits, PanelBusyIs
<1>8. PICK c : c = Await(w, "stage work", step, w.stages.task, None,
                         w.stages.revision)
  OBVIOUS
<1>9. "stage work" \in Flows /\ step \in Steps /\ w.stages.task \in Chosen
      /\ None \in AgentSessions \cup {None}
  BY <1>4 DEF Flows, PageFlows, Steps, Chosen
<1>10. c \in AwaitSet BY <1>3, <1>4, <1>8, <1>9, AwaitIs
<1>11. /\ c.flow = "stage work" /\ c.task = w.stages.task
       /\ c.session = None /\ c.account = w.account
  BY <1>8 DEF Await
<1>12. AwaitFits(x, c) /\ ~Held(c) /\ ~Restores(c) /\ ~Switches(c)
  BY <1>4, <1>7, <1>11
     DEF AwaitFits, HasTask, HasSession, OfStages, PageFlows, Steady,
         Held, Restores, Switches
<1>13. PICK v : v = Calling(x, c) OBVIOUS
<1>14. PageFits(v) /\ FrameFits(v)
  BY <1>7, <1>10, <1>12, <1>13, CallingFits
<1>15. Does(v) BY <1>1, <1>5, <1>6, <1>8, <1>13 DEF CallingStages
<1> QED BY <1>14, <1>15, DoesKeeps

LEMMA RevisionMoves ==
    ASSUME NEW r \in [Tasks -> 1 .. MaxRevision], NEW t \in Tasks,
           r[t] < MaxRevision
    PROVE  /\ [r EXCEPT ![t] = r[t] + 1] \in [Tasks -> 1 .. MaxRevision]
           /\ [r EXCEPT ![t] = r[t] + 1][t] = r[t] + 1
           /\ r[t] + 1 \in 0 .. MaxRevision
BY WebAssumption

LEMMA ChangedElsewhereKeeps ==
    ASSUME WebInv, NEW t \in Tasks, ChangedElsewhere(t)
    PROVE  WebInv'
<1>1. PICK r : r = revision OBVIOUS
<1>2. r \in [Tasks -> 1 .. MaxRevision] BY <1>1 DEF WebInv
<1>3. r[t] < MaxRevision /\ revision' = [r EXCEPT ![t] = r[t] + 1]
  BY <1>1 DEF ChangedElsewhere
<1>4. revision' \in [Tasks -> 1 .. MaxRevision]
  BY <1>2, <1>3, RevisionMoves
<1> QED BY <1>4 DEF WebInv, ChangedElsewhere

LEMMA UserActsKeep ==
    ASSUME WebInv, UserActs
    PROVE  WebInv'
<1>1. CASE \/ OpenFromLibrary \/ (\E t \in Tasks : SelectTask(t))
           \/ (\E module \in {"assets", "planning"} : ShowModule(module))
           \/ ShowOverview \/ ShowProjectAssets
  BY <1>1, OpenFromLibraryKeeps, SelectTaskKeeps, ShowModuleKeeps,
     ShowOverviewKeeps, ShowProjectAssetsKeeps
<1>2. CASE \/ Back \/ Navigate \/ SelectNavigationBrand \/ ReloadLibrary
           \/ OpenManagementCenter \/ CloseManagementCenter
  BY <1>2, BackKeeps, NavigateKeeps, SelectNavigationBrandKeeps,
     ReloadLibraryKeeps, ManagementCenterKeeps
<1>3. CASE \/ SelectSession \/ NewSession \/ ResetSession \/ SendMessage
  <2>1. AgentFree
    BY <1>3 DEF SelectSession, NewSession, ResetSession, SendMessage
  <2> QED BY <1>3, <2>1, AgentActs
<1>4. CASE \/ (\E a \in DevAccounts : SwitchAccount(a))
           \/ ExecuteCard \/ UseAssets \/ UseStages
           \/ (\E t \in Tasks : ChangedElsewhere(t))
  BY <1>4, SwitchAccountKeeps, ExecuteCardKeeps, UseAssetsKeeps,
     UseStagesKeeps, ChangedElsewhereKeeps
<1> QED BY <1>1, <1>2, <1>3, <1>4 DEF UserActs

-----------------------------------------------------------------------------
(* The answers to the asset page and the stage page. *)

LEMMA AnsweredFits ==
    ASSUME NEW w, PageFits(w), NEW c
    PROVE  /\ PageFits(Answered(w, c))
           /\ FrameFits(w) => FrameFits(Answered(w, c))
<1>1. w \in Pages BY DEF PageFits
<1>2. PICK v : v = Answered(w, c) OBVIOUS
<1>3. v \in Pages /\ SamePage(v, w) /\ Carried(v, w) BY <1>1, <1>2, AnsweredIs
<1> QED BY <1>2, <1>3, SamePageFits

LEMMA AssetsBusyFits ==
    ASSUME NEW w, PageFits(w), NEW b, b \in BOOLEAN
    PROVE  /\ PageFits([w EXCEPT !.assets.busy = b])
           /\ FrameFits(w) => FrameFits([w EXCEPT !.assets.busy = b])
<1>1. w \in Pages /\ w.assets \in AssetsPart BY DEF PageFits, Pages
<1>2. PICK as : as = [w.assets EXCEPT !.busy = b] OBVIOUS
<1>3. as \in AssetsPart BY <1>1, <1>2, AssetFields
<1>4. [w EXCEPT !.assets.busy = b] = [w EXCEPT !.assets = as]
  BY <1>1, <1>2 DEF Pages
<1> QED BY <1>3, <1>4, AssetsFit

LEMMA AssetsShowFits ==
    ASSUME NEW w, PageFits(w), NEW s, s \in StageViews \cup {None}
    PROVE  /\ PageFits([w EXCEPT !.assets.shows = s])
           /\ FrameFits(w) => FrameFits([w EXCEPT !.assets.shows = s])
<1>1. w \in Pages /\ w.assets \in AssetsPart BY DEF PageFits, Pages
<1>2. PICK as : as = [w.assets EXCEPT !.shows = s] OBVIOUS
<1>3. as \in AssetsPart BY <1>1, <1>2, AssetFields
<1>4. [w EXCEPT !.assets.shows = s] = [w EXCEPT !.assets = as]
  BY <1>1, <1>2 DEF Pages
<1> QED BY <1>3, <1>4, AssetsFit

LEMMA PageAwait ==
    ASSUME NEW w, PageFits(w), NEW c, c \in w.calls, c.flow \in PageFlows
    PROVE  c.task \in Tasks /\ View(c) \in StageViews
<1>1. c.task \in Tasks BY DEF PageFits, AwaitFits, HasTask
<1>2. c.account \in DevAccounts
  BY AwaitKinds DEF PageFits, Pages
<1> QED BY <1>1, <1>2 DEF View, StageViews

LEMMA AssetsLoadedKeeps ==
    ASSUME WebInv, NEW c \in web.calls, AssetsLoaded(c)
    PROVE  WebInv'
<1>1. PICK w : w = web OBVIOUS
<1>2. PageFits(w) /\ FrameFits(w) BY <1>1 DEF WebInv
<1>3. PICK x : x = IF c.step = "reload"
                   THEN [w EXCEPT !.assets.busy = FALSE] ELSE w
  OBVIOUS
<1>4. PageFits(x) /\ FrameFits(x)
  <2>1. PICK y : y = [w EXCEPT !.assets.busy = FALSE] OBVIOUS
  <2>2. PageFits(y) /\ FrameFits(y) BY <1>2, <2>1, AssetsBusyFits
  <2> QED BY <1>2, <1>3, <2>1, <2>2
<1>5. PICK y : y = [x EXCEPT !.assets.shows = View(c)] OBVIOUS
<1>6. View(c) \in StageViews BY <1>1, <1>2, PageAwait DEF AssetsLoaded, PageFlows
<1>7. PageFits(y) /\ FrameFits(y) BY <1>4, <1>5, <1>6, AssetsShowFits
<1>8. web' = Answered(x, c) \/ web' = Answered(y, c)
  BY <1>1, <1>3, <1>5 DEF AssetsLoaded
<1>9. UNCHANGED <<revision, sessions>> BY DEF AssetsLoaded
<1>10. PICK v \in {Answered(x, c), Answered(y, c)} : web' = v BY <1>8
<1>11. PageFits(v) /\ FrameFits(v)
  BY <1>4, <1>7, AnsweredFits
<1> QED BY <1>9, <1>10, <1>11, PageChanges

LEMMA AssetsConfirmedKeeps ==
    ASSUME WebInv, NEW c \in web.calls, AssetsConfirmed(c)
    PROVE  WebInv'
<1>1. PICK w : w = web OBVIOUS
<1>2. PICK r : r = revision OBVIOUS
<1>3. PageFits(w) /\ FrameFits(w) /\ r \in [Tasks -> 1 .. MaxRevision]
  BY <1>1, <1>2 DEF WebInv
<1>4. c.flow = "asset work" /\ r[c.task] < MaxRevision
  BY <1>2 DEF AssetsConfirmed
<1>5. c.task \in Tasks /\ View(c) \in StageViews
  BY <1>1, <1>3, <1>4, PageAwait DEF PageFlows
<1>6. PICK rev : rev = r[c.task] + 1 OBVIOUS
<1>7. rev \in 0 .. MaxRevision
      /\ [r EXCEPT ![c.task] = rev] \in [Tasks -> 1 .. MaxRevision]
  BY <1>3, <1>4, <1>5, <1>6, RevisionMoves
<1>8. PICK n : n = Answered(w, c) OBVIOUS
<1>9. PageFits(n) /\ FrameFits(n) BY <1>3, <1>8, AnsweredFits
<1>10. PICK y : y = [n EXCEPT !.assets.shows = View(c)] OBVIOUS
<1>11. PageFits(y) /\ FrameFits(y) BY <1>5, <1>9, <1>10, AssetsShowFits
<1>12. PICK z : z = TaskUpdated(n, c.task, rev) OBVIOUS
<1>13. PageFits(z) /\ FrameFits(z)
  BY <1>5, <1>7, <1>9, <1>12, TaskUpdatedFits
<1>14. PICK u : u = TaskUpdated(y, c.task, rev) OBVIOUS
<1>15. PageFits(u) /\ FrameFits(u)
  BY <1>5, <1>7, <1>11, <1>14, TaskUpdatedFits
<1>16. PICK v : v = IF c.step = "reopen" THEN AssetLoad(z, "reload")
                    ELSE [u EXCEPT !.assets.busy = FALSE]
  OBVIOUS
<1>17. PageFits(v) /\ FrameFits(v)
  <2>1. CASE c.step = "reopen"
    <3>1. "reload" \in Steps BY DEF Steps
    <3> QED BY <1>13, <1>16, <2>1, <3>1, AssetLoadFits
  <2>2. CASE c.step # "reopen"
    BY <1>15, <1>16, <2>2, AssetsBusyFits
  <2> QED BY <2>1, <2>2
<1>18. web' = v /\ revision' = [r EXCEPT ![c.task] = rev]
       /\ sessions' = sessions
  BY <1>1, <1>2, <1>6, <1>8, <1>10, <1>12, <1>14, <1>16
     DEF AssetsConfirmed
<1> QED BY <1>7, <1>17, <1>18 DEF WebInv

LEMMA AssetUploadedKeeps ==
    ASSUME WebInv, NEW c \in web.calls, AssetUploaded(c)
    PROVE  WebInv'
<1>1. PICK w : w = web OBVIOUS
<1>2. PageFits(w) /\ FrameFits(w) BY <1>1 DEF WebInv
<1>3. w \in Pages /\ w.assets \in AssetsPart BY <1>2 DEF PageFits, Pages
<1>4. w.assets.task \in Tasks
  BY <1>1, <1>3 DEF AssetUploaded, AssetsPart, Chosen
<1>5. PICK n : n = Answered(w, c) OBVIOUS
<1>6. PageFits(n) /\ FrameFits(n) BY <1>2, <1>5, AnsweredFits
<1>7. PICK d : d = Await(w, "asset work", "view", w.assets.task, None, 0)
  OBVIOUS
<1>8. "asset work" \in Flows /\ "view" \in Steps /\ w.assets.task \in Chosen
      /\ None \in AgentSessions \cup {None} /\ 0 \in Nat
  BY <1>4 DEF Flows, PageFlows, Steps, Chosen
<1>9. d \in AwaitSet BY <1>3, <1>7, <1>8, AwaitIs
<1>10. d.flow = "asset work" /\ d.task = w.assets.task /\ d.session = None
  BY <1>7 DEF Await
<1>11. AwaitFits(n, d) /\ ~Held(d) /\ ~Restores(d) /\ ~Switches(d)
  BY <1>4, <1>10 DEF AwaitFits, HasTask, HasSession, OfStages, PageFlows,
                     Held, Restores, Switches
<1>12. PICK v : v = Calling(n, d) OBVIOUS
<1>13. PageFits(v) /\ FrameFits(v) BY <1>6, <1>9, <1>11, <1>12, CallingFits
<1>14. web' = v /\ UNCHANGED <<revision, sessions>>
  BY <1>1, <1>5, <1>7, <1>12 DEF AssetUploaded
<1> QED BY <1>13, <1>14, PageChanges

LEMMA UploadViewedKeeps ==
    ASSUME WebInv, NEW c \in web.calls, UploadViewed(c)
    PROVE  WebInv'
<1>1. PICK w : w = web OBVIOUS
<1>2. PageFits(w) /\ FrameFits(w) BY <1>1 DEF WebInv
<1>3. w \in Pages /\ w.assets \in AssetsPart BY <1>2 DEF PageFits, Pages
<1>4. View(c) \in StageViews BY <1>1, <1>2, PageAwait DEF UploadViewed, PageFlows
<1>5. PICK as : as = [w.assets EXCEPT !.shows = View(c), !.busy = FALSE]
  OBVIOUS
<1>6. as \in AssetsPart BY <1>3, <1>4, <1>5 DEF AssetsPart
<1>7. PICK x : x = [w EXCEPT !.assets = as] OBVIOUS
<1>8. x = [w EXCEPT !.assets.shows = View(c), !.assets.busy = FALSE]
  BY <1>3, <1>5, <1>7 DEF Pages
<1>9. PageFits(x) /\ FrameFits(x) BY <1>2, <1>6, <1>7, AssetsFit
<1>10. PICK v : v = Answered(x, c) OBVIOUS
<1>11. PageFits(v) /\ FrameFits(v) BY <1>9, <1>10, AnsweredFits
<1>12. web' = v /\ UNCHANGED <<revision, sessions>>
  BY <1>1, <1>8, <1>10 DEF UploadViewed
<1> QED BY <1>11, <1>12, PageChanges

LEMMA AssetsFailedKeeps ==
    ASSUME WebInv, NEW c \in web.calls, AssetsFailed(c)
    PROVE  WebInv'
<1>1. PICK w : w = web OBVIOUS
<1>2. PageFits(w) /\ FrameFits(w) BY <1>1 DEF WebInv
<1>3. PICK x : x = [w EXCEPT !.assets.busy = FALSE] OBVIOUS
<1>4. PageFits(x) /\ FrameFits(x) BY <1>2, <1>3, AssetsBusyFits
<1>5. PICK v : v = Answered(x, c) OBVIOUS
<1>6. PageFits(v) /\ FrameFits(v) BY <1>4, <1>5, AnsweredFits
<1>7. web' = v /\ UNCHANGED <<revision, sessions>>
  BY <1>1, <1>3, <1>5 DEF AssetsFailed
<1> QED BY <1>6, <1>7, PageChanges

LEMMA StageFreedFits ==
    ASSUME NEW w, PageFits(w), FrameFits(w), NEW c
    PROVE  /\ PageFits(StageFreed(w, c)) /\ FrameFits(StageFreed(w, c))
           /\ StageFreed(w, c).stages.task = w.stages.task
           /\ StageFreed(w, c).account = w.account
<1>1. w \in Pages BY DEF PageFits
<1>2. PICK v : v = PanelBusy(w, FALSE) OBVIOUS
<1>3. PageFits(v) /\ FrameFits(v) /\ v.stages.task = w.stages.task
  BY <1>2, PanelBusyFits
<1>4. v.account = w.account BY <1>1, <1>2, PanelBusyIs DEF Steady
<1> QED BY <1>2, <1>3, <1>4 DEF StageFreed

LEMMA StagesFit ==
    ASSUME NEW w, PageFits(w), NEW st, st \in StagesPart,
           st.task = w.stages.task,
           \/ st.shows = w.stages.shows
           \/ st.shows = [account |-> w.account, task |-> w.stages.task]
    PROVE  /\ PageFits([w EXCEPT !.stages = st])
           /\ FrameFits(w) => FrameFits([w EXCEPT !.stages = st])
<1>1. w \in Pages BY DEF PageFits
<1>2. PICK v : v = [w EXCEPT !.stages = st] OBVIOUS
<1>3. v \in Pages BY <1>1, <1>2 DEF Pages
<1>4. Steady(v, w) /\ v.stages = st /\ v.calls = w.calls
  BY <1>1, <1>2 DEF Pages, Steady
<1>5. ShowsFit(v) BY <1>4 DEF PageFits, ShowsFit, Steady
<1>6. \A d \in v.calls : AwaitFits(v, d)
  BY <1>4 DEF PageFits, AwaitFits, Steady
<1>7. ~v.escaped => FlowsFit(v) BY <1>4 DEF PageFits, FlowsFit, Steady
<1>8. FrameFits(w) => FrameFits(v) BY <1>4 DEF FrameFits, Steady
<1> QED BY <1>2, <1>3, <1>5, <1>6, <1>7, <1>8 DEF PageFits

LEMMA StagesLoadedKeeps ==
    ASSUME WebInv, NEW c \in web.calls, StagesLoaded(c)
    PROVE  WebInv'
<1>1. PICK w : w = web OBVIOUS
<1>2. PageFits(w) /\ FrameFits(w) BY <1>1 DEF WebInv
<1>3. c \in w.calls /\ c.flow = "stages" BY <1>1 DEF StagesLoaded
<1>4. PICK x : x = IF c.step = "reload" THEN StageFreed(w, c) ELSE w
  OBVIOUS
<1>5. /\ PageFits(x) /\ FrameFits(x)
      /\ x.stages.task = w.stages.task /\ x.account = w.account
  BY <1>2, <1>4, StageFreedFits
<1>6. CASE web' = Answered(x, c)
  <2>1. PICK v : v = Answered(x, c) OBVIOUS
  <2>2. PageFits(v) /\ FrameFits(v) BY <1>5, <2>1, AnsweredFits
  <2>3. web' = v /\ UNCHANGED <<revision, sessions>>
    BY <1>6, <2>1 DEF StagesLoaded
  <2> QED BY <2>2, <2>3, PageChanges
<1>7. CASE /\ c.newest /\ c.scope
           /\ web' = Answered([x EXCEPT !.stages.shows = View(c),
                                        !.stages.revision = revision[c.task]],
                              c)
  <2>1. c.account = w.account /\ c.task = w.stages.task
    BY <1>2, <1>3, <1>7 DEF PageFits, AwaitFits, OfStages
  <2>2. c.task \in Tasks /\ View(c) \in StageViews
    BY <1>2, <1>3, PageAwait DEF PageFlows
  <2>3. View(c) = [account |-> x.account, task |-> x.stages.task]
    BY <1>5, <2>1 DEF View
  <2>4. PICK rev : rev = revision[c.task] OBVIOUS
  <2>5. rev \in Nat BY <2>2, <2>4, WebAssumption DEF WebInv
  <2>6. x \in Pages /\ x.stages \in StagesPart BY <1>5 DEF PageFits, Pages
  <2>7. PICK st : st = [x.stages EXCEPT !.shows = View(c), !.revision = rev]
    OBVIOUS
  <2>8. st \in StagesPart BY <2>2, <2>5, <2>6, <2>7 DEF StagesPart
  <2>9. st.task = x.stages.task /\ st.shows = View(c)
    BY <2>6, <2>7 DEF StagesPart
  <2>10. PICK y : y = [x EXCEPT !.stages = st] OBVIOUS
  <2>11. y = [x EXCEPT !.stages.shows = View(c), !.stages.revision = rev]
    BY <2>6, <2>7, <2>10 DEF Pages
  <2>12. PageFits(y) /\ FrameFits(y)
    BY <1>5, <2>3, <2>8, <2>9, <2>10, StagesFit
  <2>13. PICK v : v = Answered(y, c) OBVIOUS
  <2>14. PageFits(v) /\ FrameFits(v) BY <2>12, <2>13, AnsweredFits
  <2>15. web' = v /\ UNCHANGED <<revision, sessions>>
    BY <1>7, <2>4, <2>11, <2>13 DEF StagesLoaded
  <2> QED BY <2>14, <2>15, PageChanges
<1> QED BY <1>1, <1>4, <1>6, <1>7 DEF StagesLoaded

LEMMA StageMutatedKeeps ==
    ASSUME WebInv, NEW c \in web.calls, StageMutated(c)
    PROVE  WebInv'
<1>1. PICK w : w = web OBVIOUS
<1>2. PICK r : r = revision OBVIOUS
<1>3. PageFits(w) /\ FrameFits(w) /\ r \in [Tasks -> 1 .. MaxRevision]
  BY <1>1, <1>2 DEF WebInv
<1>4. c.flow = "stage work" /\ r[c.task] < MaxRevision
  BY <1>2 DEF StageMutated
<1>5. c.task \in Tasks
  BY <1>1, <1>3, <1>4, PageAwait DEF PageFlows
<1>6. PICK rev : rev = r[c.task] + 1 OBVIOUS
<1>7. rev \in 0 .. MaxRevision
      /\ [r EXCEPT ![c.task] = rev] \in [Tasks -> 1 .. MaxRevision]
  BY <1>3, <1>4, <1>5, <1>6, RevisionMoves
<1>8. PICK n : n = Answered(w, c) OBVIOUS
<1>9. PageFits(n) /\ FrameFits(n) BY <1>3, <1>8, AnsweredFits
<1>10. n \in Pages /\ n.stages \in StagesPart BY <1>9 DEF PageFits, Pages
<1>11. PICK st : st = [n.stages EXCEPT !.revision = rev] OBVIOUS
<1>12. rev \in Nat BY <1>7, WebAssumption
<1>13. st \in StagesPart /\ st.task = n.stages.task
       /\ st.shows = n.stages.shows
  BY <1>10, <1>11, <1>12 DEF StagesPart
<1>14. PICK s : s = [n EXCEPT !.stages = st] OBVIOUS
<1>15. s = [n EXCEPT !.stages.revision = rev]
  BY <1>10, <1>11, <1>14 DEF Pages
<1>16. PageFits(s) /\ FrameFits(s) BY <1>9, <1>13, <1>14, StagesFit
<1>17. PICK y : y = TaskUpdated(s, c.task, rev) OBVIOUS
<1>18. PageFits(y) /\ FrameFits(y)
  BY <1>5, <1>7, <1>16, <1>17, TaskUpdatedFits
<1>19. PICK v : v = IF StageContextIs(w, c) THEN StageLoad(y, "reload")
                    ELSE n
  OBVIOUS
<1>20. PageFits(v) /\ FrameFits(v)
  <2>1. "reload" \in Steps BY DEF Steps
  <2> QED BY <1>9, <1>18, <1>19, <2>1, StageLoadFits
<1>21. web' = v /\ revision' = [r EXCEPT ![c.task] = rev]
       /\ sessions' = sessions
  BY <1>1, <1>2, <1>6, <1>8, <1>15, <1>17, <1>19 DEF StageMutated
<1> QED BY <1>7, <1>20, <1>21 DEF WebInv

LEMMA StageEndedKeeps ==
    ASSUME WebInv, NEW c \in web.calls, StageEnded(c)
    PROVE  WebInv'
<1>1. PICK w : w = web OBVIOUS
<1>2. PageFits(w) /\ FrameFits(w) BY <1>1 DEF WebInv
<1>3. PICK x : x = StageFreed(w, c) OBVIOUS
<1>4. PageFits(x) /\ FrameFits(x) BY <1>2, <1>3, StageFreedFits
<1>5. PICK v : v = Answered(x, c) OBVIOUS
<1>6. PageFits(v) /\ FrameFits(v) BY <1>4, <1>5, AnsweredFits
<1>7. web' = v /\ UNCHANGED <<revision, sessions>>
  BY <1>1, <1>3, <1>5 DEF StageEnded
<1> QED BY <1>6, <1>7, PageChanges


-----------------------------------------------------------------------------
(* The answers to the agent panel. *)

LEMMA PageCalls ==
    ASSUME NEW w, PageFits(w), NEW c, c \in w.calls
    PROVE  /\ c \in AwaitSet
           /\ c.flow # "switch" => c \in AwaitRecords
           /\ c.flow = "switch" => c \in SwitchRecords
           /\ AwaitFits(w, c)
BY AwaitKinds DEF PageFits, Pages

LEMMA AccountKept ==
    ASSUME NEW w, PageFits(w), ~w.escaped, NEW c, c \in w.calls,
           Held(c) \/ (c.scope /\ c.flow \notin PageFlows)
    PROVE  c.account = w.account
BY DEF PageFits, FlowsFit, AwaitFits

\* The flow that holds the page gives it back.
LEMMA BusyFreedFits ==
    ASSUME NEW w, PageFits(w), FrameFits(w), NEW c, c \in w.calls,
           Held(c) \/ Restores(c)
    PROVE  /\ PageFits(Answered([w EXCEPT !.busy = FALSE], c))
           /\ FrameFits(Answered([w EXCEPT !.busy = FALSE], c))
<1>1. w \in Pages BY DEF PageFits
<1>2. PICK u : u = [w EXCEPT !.busy = FALSE] OBVIOUS
<1>3. u \in Pages BY <1>1, <1>2 DEF Pages
<1>4. /\ u.account = w.account /\ u.workflow = w.workflow
      /\ u.escaped = w.escaped /\ u.frame = w.frame /\ u.stages = w.stages
      /\ u.calls = w.calls /\ u.agent = w.agent
  BY <1>1, <1>2 DEF Pages
<1>5. PICK v : v = Answered(u, c) OBVIOUS
<1>6. v \in Pages /\ SamePage(v, u) /\ v.calls = w.calls \ {c}
  BY <1>3, <1>4, <1>5, AnsweredIs
<1>7. PageFits(v) BY <1>4, <1>6, FreedFits DEF SamePage
<1>8. FrameFits(v) BY <1>4, <1>6 DEF FrameFits, SamePage
<1> QED BY <1>2, <1>5, <1>7, <1>8

LEMMA FlowEndsFits ==
    ASSUME NEW w, PageFits(w), FrameFits(w), NEW c, c \in w.calls,
           Held(c) \/ c.flow = "restore"
    PROVE  PageFits(FlowEnds(w, c)) /\ FrameFits(FlowEnds(w, c))
<1>1. PICK u : u = [w EXCEPT !.busy = FALSE] OBVIOUS
<1>2. PICK v : v = FlowEnds(w, c) OBVIOUS
<1>3. CASE /\ c.flow # "restore" \/ (c.newest /\ c.scope)
           /\ v = Answered(u, c)
  BY <1>1, <1>2, <1>3, BusyFreedFits DEF Restores
<1>4. CASE v = Answered(w, c) BY <1>2, <1>4, AnsweredFits
<1>5. \/ /\ c.flow # "restore" \/ (c.newest /\ c.scope)
         /\ v = Answered(u, c)
      \/ v = Answered(w, c)
  BY <1>1, <1>2 DEF FlowEnds
<1> QED BY <1>3, <1>4, <1>5

\* The next request of a flow is made for the same account and task.
LEMMA GoesOnFits ==
    ASSUME NEW w, PageFits(w), FrameFits(w), NEW c, c \in w.calls,
           c.flow \in {"restore", "select"},
           NEW step, step \in {"create", "get", "transcript"},
           NEW s, s \in AgentSessions \cup {None},
           step = "get" => s \in AgentSessions,
           s # None => s.task = c.task /\ (~w.escaped => s.account = c.account)
    PROVE  /\ PageFits(GoesOn(w, c, step, s))
           /\ FrameFits(GoesOn(w, c, step, s))
<1>1. w \in Pages BY DEF PageFits
<1>2. c \in AwaitRecords /\ AwaitFits(w, c) BY PageCalls
<1>3. PICK d : d = [c EXCEPT !.step = step, !.session = s] OBVIOUS
<1>4. /\ d \in AwaitRecords /\ d.flow = c.flow /\ d.account = c.account
      /\ d.task = c.task /\ d.scope = c.scope /\ d.newest = c.newest
      /\ d.step = step /\ d.session = s
  BY <1>2, <1>3 DEF AwaitRecords, Steps
<1>5. d \in AwaitSet BY <1>4 DEF AwaitSet
<1>6. AwaitFits(w, d)
  <2>1. HasTask(d) => d.task \in Tasks
    BY <1>2, <1>4 DEF AwaitFits, HasTask
  <2>2. HasSession(d) => d.session \in AgentSessions
    BY <1>4 DEF HasSession
  <2>3. d.scope /\ d.flow \notin PageFlows => d.account = w.account
    BY <1>2, <1>4 DEF AwaitFits
  <2>4. ~OfStages(d) BY <1>4 DEF OfStages
  <2>5. d.session # None =>
            d.session.task = d.task
            /\ (~w.escaped => d.session.account = d.account)
    BY <1>4
  <2> QED BY <2>1, <2>2, <2>3, <2>4, <2>5 DEF AwaitFits
<1>7. /\ Held(d) <=> Held(c)
      /\ Restores(d) <=> Restores(c)
      /\ Switches(d) <=> Switches(c)
  BY <1>4 DEF Held, Restores, Switches
<1>8. PICK u : u = Answered(w, c) OBVIOUS
<1>9. u \in Pages /\ SamePage(u, w) /\ u.calls = w.calls \ {c}
  BY <1>1, <1>8, AnsweredIs
<1>10. PICK v : v = Calling(u, d) OBVIOUS
<1>11. v \in Pages /\ SamePage(v, u) /\ v.calls = u.calls \cup {d}
  BY <1>5, <1>9, <1>10, CallingIs
<1>12. /\ v.account = w.account /\ v.escaped = w.escaped
       /\ v.agent = w.agent /\ v.stages = w.stages /\ v.busy = w.busy
       /\ v.workflow = w.workflow /\ v.frame = w.frame
       /\ v.calls = (w.calls \ {c}) \cup {d}
  BY <1>9, <1>11 DEF SamePage
<1>13. PageFits(v) /\ FrameFits(v)
  BY <1>4, <1>5, <1>6, <1>7, <1>11, <1>12, ReplacedFits
<1>14. GoesOn(w, c, step, s) = v BY <1>3, <1>8, <1>10 DEF GoesOn
<1> QED BY <1>13, <1>14

LEMMA SessionsListedKeeps ==
    ASSUME WebInv, NEW c \in web.calls, SessionsListed(c)
    PROVE  WebInv'
<1>1. PICK w : w = web OBVIOUS
<1>2. PageFits(w) /\ FrameFits(w) /\ c \in w.calls BY <1>1 DEF WebInv
<1>3. c.flow = "restore" /\ UNCHANGED <<revision, sessions>>
  BY DEF SessionsListed
<1>4. CASE web' = FlowEnds(w, c)
  <2>1. PICK v : v = FlowEnds(w, c) OBVIOUS
  <2>2. PageFits(v) /\ FrameFits(v) BY <1>2, <1>3, <2>1, FlowEndsFits
  <2> QED BY <1>3, <1>4, <2>1, <2>2, PageChanges
<1>5. CASE web' = GoesOn(w, c, "create", None)
  <2>1. PICK v : v = GoesOn(w, c, "create", None) OBVIOUS
  <2>2. PageFits(v) /\ FrameFits(v) BY <1>2, <1>3, <2>1, GoesOnFits
  <2> QED BY <1>3, <1>5, <2>1, <2>2, PageChanges
<1>6. ASSUME NEW s \in SessionsOf(c.account, c.task),
             web' = GoesOn(w, c, "get", s)
      PROVE  WebInv'
  <2>1. s \in AgentSessions /\ s.account = c.account /\ s.task = c.task
    BY DEF SessionsOf, WebInv
  <2>2. PICK v : v = GoesOn(w, c, "get", s) OBVIOUS
  <2>3. PageFits(v) /\ FrameFits(v)
    BY <1>2, <1>3, <2>1, <2>2, GoesOnFits
  <2> QED BY <1>3, <1>6, <2>2, <2>3, PageChanges
<1> QED BY <1>1, <1>4, <1>5, <1>6 DEF SessionsListed

LEMMA NewSessionIs ==
    ASSUME WebInv, NEW c, c \in web.calls, c.flow \in {"restore", "select"},
           Cardinality(sessions) < MaxSessions
    PROVE  /\ SessionFor(c) \in AgentSessions
           /\ SessionFor(c).account = c.account
           /\ SessionFor(c).task = c.task
           /\ IsFiniteSet(sessions \cup {SessionFor(c)})
<1>1. c.account \in DevAccounts /\ c.task \in Tasks
  <2>1. PICK w : w = web OBVIOUS
  <2>2. PageFits(w) /\ c \in w.calls BY <2>1 DEF WebInv
  <2>3. c \in AwaitRecords /\ AwaitFits(w, c) BY <2>2, PageCalls
  <2> QED BY <2>3 DEF AwaitFits, HasTask, AwaitRecords
<1>2. Cardinality(sessions) \in Nat BY FS_CardinalityType DEF WebInv
<1>3. Cardinality(sessions) + 1 \in 1 .. MaxSessions
  BY <1>2, WebAssumption
<1>4. SessionFor(c) \in AgentSessions
  BY <1>1, <1>3 DEF SessionFor, AgentSessions
<1>5. IsFiniteSet(sessions \cup {SessionFor(c)})
  BY FS_AddElement DEF WebInv
<1> QED BY <1>4, <1>5 DEF SessionFor

LEMMA SessionCreatedKeeps ==
    ASSUME WebInv, NEW c \in web.calls, SessionCreated(c)
    PROVE  WebInv'
<1>1. PICK w : w = web OBVIOUS
<1>2. PageFits(w) /\ FrameFits(w) /\ c \in w.calls BY <1>1 DEF WebInv
<1>3. c.flow \in {"restore", "select"} BY DEF SessionCreated
<1>4. PICK s : s = SessionFor(c) OBVIOUS
<1>5. /\ s \in AgentSessions /\ s.account = c.account /\ s.task = c.task
      /\ IsFiniteSet(sessions \cup {s})
  BY <1>3, <1>4, NewSessionIs DEF SessionCreated
<1>6. sessions' = sessions \cup {s} /\ revision' = revision
  BY <1>4 DEF SessionCreated
<1>7. PICK rev : rev = revision[c.task] OBVIOUS
<1>8. rev \in Nat
  <2>1. c.task \in Tasks BY <1>5 DEF AgentSessions
  <2> QED BY <1>7, <2>1, WebAssumption DEF WebInv
<1>9. PICK x : x = SessionShown(w, s, rev) OBVIOUS
<1>10. PICK y : y = [x EXCEPT !.card = 0] OBVIOUS
<1>11. PICK z : z = IF SelectionIs(w, c) /\ Binds(w, s) THEN y ELSE w
  OBVIOUS
<1>12. web' = FlowEnds(z, c)
  BY <1>1, <1>4, <1>7, <1>9, <1>10, <1>11 DEF SessionCreated
<1>13. PageFits(z) /\ FrameFits(z) /\ c \in z.calls
  <2>1. CASE ~(SelectionIs(w, c) /\ Binds(w, s)) BY <1>2, <1>11, <2>1
  <2>2. CASE SelectionIs(w, c) /\ Binds(w, s)
    <3>1. ~w.escaped => s.account = w.account
      BY <1>2, <1>3, <1>5, <2>2, AccountKept DEF SelectionIs, PageFlows
    <3>2. s.task = w.agent.task BY <2>2 DEF Binds
    <3>3. PageFits(x) /\ FrameFits(x) /\ Calm(x, w)
      BY <1>2, <1>5, <1>8, <1>9, <3>1, <3>2, SessionShownFits
    <3>4. PageFits(y) /\ FrameFits(y) /\ Calm(y, x)
      BY <1>10, <3>3, CardFits
    <3> QED BY <1>2, <1>11, <2>2, <3>3, <3>4 DEF Calm
  <2> QED BY <2>1, <2>2
<1>14. PICK v : v = FlowEnds(z, c) OBVIOUS
<1>15. PageFits(v) /\ FrameFits(v)
  BY <1>3, <1>13, <1>14, FlowEndsFits DEF Held
<1> QED BY <1>5, <1>6, <1>12, <1>14, <1>15 DEF WebInv

LEMMA SessionGotKeeps ==
    ASSUME WebInv, NEW c \in web.calls, SessionGot(c)
    PROVE  WebInv'
<1>1. PICK w : w = web OBVIOUS
<1>2. PageFits(w) /\ FrameFits(w) /\ c \in w.calls BY <1>1 DEF WebInv
<1>3. /\ c.flow \in {"restore", "select"} /\ c.step = "get"
      /\ UNCHANGED <<revision, sessions>>
  BY DEF SessionGot
<1>4. AwaitFits(w, c) BY <1>2, PageCalls
<1>5. PICK s : s = c.session OBVIOUS
<1>6. /\ s \in AgentSessions
      /\ s # None => s.task = c.task /\ (~w.escaped => s.account = c.account)
  BY <1>3, <1>4, <1>5 DEF AwaitFits, HasSession
<1>7. c.task \in Tasks BY <1>3, <1>4 DEF AwaitFits, HasTask
<1>8. PICK rev : rev = revision[c.task] OBVIOUS
<1>9. rev \in Nat BY <1>7, <1>8, WebAssumption DEF WebInv
<1>10. PICK x : x = SessionShown(w, s, rev) OBVIOUS
<1>11. CASE SelectionIs(w, c) /\ Binds(w, s)
  <2>1. ~w.escaped /\ s # None => s.account = w.account
    BY <1>2, <1>3, <1>6, <1>11, AccountKept DEF SelectionIs, PageFlows
  <2>2. s.task = w.agent.task BY <1>11 DEF Binds
  <2>3. PageFits(x) /\ FrameFits(x) /\ Calm(x, w)
    BY <1>2, <1>6, <1>9, <1>10, <2>1, <2>2, SessionShownFits
  <2>4. PICK v : v = GoesOn(x, c, "transcript", s) OBVIOUS
  <2>5. c \in x.calls /\ x.escaped = w.escaped BY <1>2, <2>3 DEF Calm
  <2>6. PageFits(v) /\ FrameFits(v)
    BY <1>3, <1>6, <2>3, <2>4, <2>5, GoesOnFits
  <2>7. web' = v
    BY <1>1, <1>5, <1>8, <1>10, <1>11, <2>4 DEF SessionGot
  <2> QED BY <1>3, <2>6, <2>7, PageChanges
<1>12. CASE ~(SelectionIs(w, c) /\ Binds(w, s))
  <2>1. PICK v : v = FlowEnds(w, c) OBVIOUS
  <2>2. PageFits(v) /\ FrameFits(v)
    BY <1>2, <1>3, <2>1, FlowEndsFits DEF Held
  <2>3. web' = v BY <1>1, <1>5, <1>12, <2>1 DEF SessionGot
  <2> QED BY <1>3, <2>2, <2>3, PageChanges
<1> QED BY <1>11, <1>12

LEMMA TranscriptReadKeeps ==
    ASSUME WebInv, NEW c \in web.calls, TranscriptRead(c)
    PROVE  WebInv'
<1>1. PICK w : w = web OBVIOUS
<1>2. PageFits(w) /\ FrameFits(w) /\ c \in w.calls BY <1>1 DEF WebInv
<1>3. PICK v : v = FlowEnds(w, c) OBVIOUS
<1>4. PageFits(v) /\ FrameFits(v)
  BY <1>2, <1>3, FlowEndsFits DEF Held, TranscriptRead
<1>5. web' = v /\ UNCHANGED <<revision, sessions>>
  BY <1>1, <1>3 DEF TranscriptRead
<1> QED BY <1>4, <1>5, PageChanges

\* A session is shown for an await of a flow that holds the page, whatever
\* was selected since, if it is of the selected task.
LEMMA HeldShownFits ==
    ASSUME NEW w, PageFits(w), FrameFits(w), NEW c, c \in w.calls, Held(c),
           c.session \in AgentSessions, Binds(w, c.session),
           NEW rev, rev \in Nat, NEW n, n \in Nat
    PROVE  LET x == [SessionShown(w, c.session, rev) EXCEPT !.card = n]
           IN  PageFits(x) /\ FrameFits(x) /\ c \in x.calls
<1>1. PICK s : s = c.session OBVIOUS
<1>2. c.flow # "switch" BY DEF Held
<1>3. ~w.escaped /\ s # None => s.account = w.account
  BY <1>1, <1>2, PageCalls, AccountKept DEF AwaitFits
<1>4. s.task = w.agent.task BY <1>1 DEF Binds
<1>5. PICK x : x = SessionShown(w, s, rev) OBVIOUS
<1>6. PageFits(x) /\ FrameFits(x) /\ Calm(x, w)
  BY <1>1, <1>3, <1>4, <1>5, SessionShownFits
<1>7. PICK y : y = [x EXCEPT !.card = n] OBVIOUS
<1>8. PageFits(y) /\ FrameFits(y) /\ Calm(y, x) BY <1>6, <1>7, CardFits
<1>9. c \in y.calls BY <1>6, <1>8 DEF Calm
<1> QED BY <1>1, <1>5, <1>7, <1>8, <1>9

LEMMA SessionResetKeeps ==
    ASSUME WebInv, NEW c \in web.calls, SessionReset(c)
    PROVE  WebInv'
<1>1. PICK w : w = web OBVIOUS
<1>2. PageFits(w) /\ FrameFits(w) /\ c \in w.calls BY <1>1 DEF WebInv
<1>3. Held(c) /\ UNCHANGED <<revision, sessions>>
  BY DEF SessionReset, Held
<1>4. c.session \in AgentSessions /\ c.task \in Tasks
  BY <1>2, PageCalls DEF AwaitFits, HasSession, HasTask, SessionReset
<1>5. PICK rev : rev = revision[c.task] OBVIOUS
<1>6. rev \in Nat BY <1>4, <1>5, WebAssumption DEF WebInv
<1>7. PICK y : y = [SessionShown(w, c.session, rev) EXCEPT !.card = 0]
  OBVIOUS
<1>8. PICK z : z = IF Binds(w, c.session) THEN y ELSE w OBVIOUS
<1>9. PageFits(z) /\ FrameFits(z) /\ c \in z.calls
  <2>1. CASE Binds(w, c.session)
    BY <1>2, <1>3, <1>4, <1>6, <1>7, <1>8, <2>1, HeldShownFits
  <2>2. CASE ~Binds(w, c.session) BY <1>2, <1>8, <2>2
  <2> QED BY <2>1, <2>2
<1>10. PICK v : v = FlowEnds(z, c) OBVIOUS
<1>11. PageFits(v) /\ FrameFits(v) BY <1>3, <1>9, <1>10, FlowEndsFits
<1>12. web' = v BY <1>1, <1>5, <1>7, <1>8, <1>10 DEF SessionReset
<1> QED BY <1>3, <1>11, <1>12, PageChanges

LEMMA SessionFailedKeeps ==
    ASSUME WebInv, NEW c \in web.calls, SessionFailed(c)
    PROVE  WebInv'
<1>1. PICK w : w = web OBVIOUS
<1>2. PageFits(w) /\ FrameFits(w) /\ c \in w.calls BY <1>1 DEF WebInv
<1>3. /\ c.flow \in {"restore", "select", "reset"}
      /\ UNCHANGED <<revision, sessions>>
  BY DEF SessionFailed
<1>4. CASE web' = FlowEnds(w, c)
  <2>1. PICK v : v = FlowEnds(w, c) OBVIOUS
  <2>2. PageFits(v) /\ FrameFits(v)
    BY <1>2, <1>3, <2>1, FlowEndsFits DEF Held
  <2> QED BY <1>3, <1>4, <2>1, <2>2, PageChanges
<1>5. CASE /\ Restores(c)
           /\ web' = Opened([Answered(w, c) EXCEPT !.busy = FALSE], None,
                            "overview")
  <2>1. w \in Pages BY <1>2 DEF PageFits
  <2>2. PICK u : u = [Answered(w, c) EXCEPT !.busy = FALSE] OBVIOUS
  <2>3. PageFits(u) /\ FrameFits(u)
    <3>1. u = Answered([w EXCEPT !.busy = FALSE], c)
      BY <2>1, <2>2 DEF Answered, Pages
    <3> QED BY <1>2, <1>5, <3>1, BusyFreedFits
  <2>4. PICK v : v = Opened(u, None, "overview") OBVIOUS
  <2>5. None \in Chosen BY DEF Chosen
  <2>6. PageFits(v) /\ FrameFits(v) BY <2>3, <2>4, <2>5, OpenedFits
  <2> QED BY <1>3, <1>5, <2>2, <2>4, <2>6, PageChanges
<1> QED BY <1>1, <1>4, <1>5 DEF SessionFailed, Restores

LEMMA RunEndedKeeps ==
    ASSUME WebInv, NEW c \in web.calls, RunEnded(c)
    PROVE  WebInv'
<1>1. PICK w : w = web OBVIOUS
<1>2. PageFits(w) /\ FrameFits(w) /\ c \in w.calls BY <1>1 DEF WebInv
<1>3. Held(c) /\ c.flow = "send" /\ UNCHANGED <<revision, sessions>>
  BY DEF RunEnded, Held
<1>4. c.session \in AgentSessions /\ c.task \in Tasks
  BY <1>2, <1>3, PageCalls DEF AwaitFits, HasSession, HasTask
<1>5. c.revision \in Nat
  BY <1>2, <1>3, PageCalls DEF AwaitRecords
<1>6. PICK seen \in c.revision .. revision[c.task], carded \in BOOLEAN :
        LET shown == [SessionShown(web, c.session, seen) EXCEPT
                        !.card = IF carded THEN seen ELSE @]
            freed == [IF Binds(web, c.session) THEN shown ELSE web
                      EXCEPT !.busy = FALSE]
        IN  web' = Answered(IF IsCurrentTurn(web, c) THEN freed ELSE web, c)
  BY DEF RunEnded
<1>7. seen \in Nat
  <2>1. revision[c.task] \in Nat BY <1>4, WebAssumption DEF WebInv
  <2> QED BY <1>5, <2>1
<1>8. PICK x : x = SessionShown(w, c.session, seen) OBVIOUS
<1>9. PICK n : n = IF carded THEN seen ELSE w.card OBVIOUS
<1>10. w \in Pages /\ w.card \in Nat BY <1>2 DEF PageFits, Pages
<1>11. n \in Nat BY <1>7, <1>9, <1>10
<1>12. x.card = w.card BY <1>8, <1>10 DEF SessionShown, Pages
<1>13. PICK y : y = [x EXCEPT !.card = n] OBVIOUS
<1>14. y = [x EXCEPT !.card = IF carded THEN seen ELSE @]
  BY <1>9, <1>12, <1>13
<1>15. PICK z : z = IF Binds(w, c.session) THEN y ELSE w OBVIOUS
<1>16. PageFits(z) /\ FrameFits(z) /\ c \in z.calls
  <2>1. CASE Binds(w, c.session)
    BY <1>2, <1>3, <1>4, <1>7, <1>8, <1>11, <1>13, <1>15, <2>1,
       HeldShownFits
  <2>2. CASE ~Binds(w, c.session) BY <1>2, <1>15, <2>2
  <2> QED BY <2>1, <2>2
<1>17. PICK v : v = IF IsCurrentTurn(w, c)
                    THEN Answered([z EXCEPT !.busy = FALSE], c)
                    ELSE Answered(w, c)
  OBVIOUS
<1>18. PageFits(v) /\ FrameFits(v)
  <2>1. CASE IsCurrentTurn(w, c)
    BY <1>3, <1>16, <1>17, <2>1, BusyFreedFits
  <2>2. CASE ~IsCurrentTurn(w, c)
    BY <1>2, <1>17, <2>2, AnsweredFits
  <2> QED BY <2>1, <2>2
<1>19. web' = v BY <1>1, <1>6, <1>8, <1>14, <1>15, <1>17
<1> QED BY <1>3, <1>18, <1>19, PageChanges

LEMMA RunFailedKeeps ==
    ASSUME WebInv, NEW c \in web.calls, RunFailed(c)
    PROVE  WebInv'
<1>1. PICK w : w = web OBVIOUS
<1>2. PageFits(w) /\ FrameFits(w) /\ c \in w.calls BY <1>1 DEF WebInv
<1>3. Held(c) /\ UNCHANGED <<revision, sessions>> BY DEF RunFailed, Held
<1>4. PICK v : v = IF IsCurrentTurn(w, c)
                   THEN Answered([w EXCEPT !.busy = FALSE], c)
                   ELSE Answered(w, c)
  OBVIOUS
<1>5. PageFits(v) /\ FrameFits(v)
  BY <1>2, <1>3, <1>4, BusyFreedFits, AnsweredFits
<1>6. web' = v BY <1>1, <1>4 DEF RunFailed
<1> QED BY <1>3, <1>5, <1>6, PageChanges

LEMMA ContextRefreshedKeeps ==
    ASSUME WebInv, NEW c \in web.calls, ContextRefreshed(c)
    PROVE  WebInv'
<1>1. PICK w : w = web OBVIOUS
<1>2. PageFits(w) /\ FrameFits(w) /\ c \in w.calls BY <1>1 DEF WebInv
<1>3. c.flow = "refresh" /\ UNCHANGED <<revision, sessions>>
  BY DEF ContextRefreshed
<1>4. AwaitFits(w, c) BY <1>2, PageCalls
<1>5. PICK s : s = c.session OBVIOUS
<1>6. /\ s \in AgentSessions
      /\ s # None => s.task = c.task /\ (~w.escaped => s.account = c.account)
      /\ c.task \in Tasks
  BY <1>3, <1>4, <1>5 DEF AwaitFits, HasSession, HasTask
<1>7. PICK rev : rev = revision[c.task] OBVIOUS
<1>8. rev \in Nat BY <1>6, <1>7, WebAssumption DEF WebInv
<1>9. PICK x : x = SessionShown(w, s, rev) OBVIOUS
<1>10. CASE web' = Answered(w, c)
  <2>1. PICK v : v = Answered(w, c) OBVIOUS
  <2>2. PageFits(v) /\ FrameFits(v) BY <1>2, <2>1, AnsweredFits
  <2> QED BY <1>3, <1>10, <2>1, <2>2, PageChanges
<1>11. CASE /\ IsCurrentTurn(w, c) /\ Binds(w, s)
            /\ web' = Answered(x, c)
  <2>1. ~w.escaped /\ s # None => s.account = w.account
    BY <1>2, <1>3, <1>6, <1>11, AccountKept
       DEF IsCurrentTurn, SelectionIs, PageFlows
  <2>2. s.task = w.agent.task BY <1>11 DEF Binds
  <2>3. PageFits(x) /\ FrameFits(x)
    BY <1>2, <1>6, <1>8, <1>9, <2>1, <2>2, SessionShownFits
  <2>4. PICK v : v = Answered(x, c) OBVIOUS
  <2>5. PageFits(v) /\ FrameFits(v) BY <2>3, <2>4, AnsweredFits
  <2> QED BY <1>3, <1>11, <2>4, <2>5, PageChanges
<1> QED BY <1>1, <1>5, <1>7, <1>9, <1>10, <1>11 DEF ContextRefreshed

LEMMA AgentRevisionFits ==
    ASSUME NEW w, PageFits(w), NEW rev, rev \in Nat
    PROVE  /\ PageFits([w EXCEPT !.agent.revision = rev])
           /\ FrameFits(w) => FrameFits([w EXCEPT !.agent.revision = rev])
           /\ Calm([w EXCEPT !.agent.revision = rev], w)
<1>1. w \in Pages /\ w.agent \in AgentPart BY DEF PageFits, Pages
<1>2. PICK ag : ag = [w.agent EXCEPT !.revision = rev] OBVIOUS
<1>3. ag \in AgentPart /\ ag.task = w.agent.task
      /\ ag.session = w.agent.session
  BY <1>1, <1>2 DEF AgentPart
<1>4. PICK v : v = [w EXCEPT !.agent.revision = rev] OBVIOUS
<1>5. v = [w EXCEPT !.agent = ag] BY <1>1, <1>2, <1>4 DEF Pages
<1>6. v \in Pages BY <1>1, <1>3, <1>5 DEF Pages
<1>7. /\ v.account = w.account /\ v.busy = w.busy
      /\ v.workflow = w.workflow /\ v.escaped = w.escaped
      /\ v.frame = w.frame /\ v.stages = w.stages
      /\ v.calls = w.calls /\ v.agent = ag
  BY <1>1, <1>5 DEF Pages
<1>8. Calm(v, w) BY <1>3, <1>6, <1>7 DEF Calm
<1>9. ShowsFit(v) BY <1>3, <1>7 DEF PageFits, ShowsFit
<1> QED BY <1>4, <1>8, <1>9, CalmFits

LEMMA RefreshFailedKeeps ==
    ASSUME WebInv, NEW c \in web.calls, RefreshFailed(c)
    PROVE  WebInv'
<1>1. PICK w : w = web OBVIOUS
<1>2. PageFits(w) /\ FrameFits(w) BY <1>1 DEF WebInv
<1>3. PICK x : x = IF c.step = "task" /\ SelectionIs(w, c)
                   THEN [w EXCEPT !.agent.revision = 0] ELSE w
  OBVIOUS
<1>4. PageFits(x) /\ FrameFits(x)
  <2>1. PICK y : y = [w EXCEPT !.agent.revision = 0] OBVIOUS
  <2>2. PageFits(y) /\ FrameFits(y) BY <1>2, <2>1, AgentRevisionFits
  <2> QED BY <1>2, <1>3, <2>1, <2>2
<1>5. PICK v : v = Answered(x, c) OBVIOUS
<1>6. PageFits(v) /\ FrameFits(v) BY <1>4, <1>5, AnsweredFits
<1>7. web' = v /\ UNCHANGED <<revision, sessions>>
  BY <1>1, <1>3, <1>5 DEF RefreshFailed
<1> QED BY <1>6, <1>7, PageChanges

\* The execution that is active gives its flag back.
LEMMA WorkflowFreedFits ==
    ASSUME NEW w, PageFits(w), FrameFits(w), NEW c, c \in w.calls, Held(c)
    PROVE  /\ PageFits(Answered([w EXCEPT !.workflow = FALSE], c))
           /\ FrameFits(Answered([w EXCEPT !.workflow = FALSE], c))
<1>1. w \in Pages BY DEF PageFits
<1>2. PICK u : u = [w EXCEPT !.workflow = FALSE] OBVIOUS
<1>3. u \in Pages BY <1>1, <1>2 DEF Pages
<1>4. /\ u.account = w.account /\ u.busy = w.busy
      /\ u.escaped = w.escaped /\ u.frame = w.frame /\ u.stages = w.stages
      /\ u.calls = w.calls /\ u.agent = w.agent
  BY <1>1, <1>2 DEF Pages
<1>5. PICK v : v = Answered(u, c) OBVIOUS
<1>6. v \in Pages /\ SamePage(v, u) /\ v.calls = w.calls \ {c}
  BY <1>3, <1>4, <1>5, AnsweredIs
<1>7. PageFits(v) BY <1>4, <1>6, FreedFits DEF SamePage
<1>8. FrameFits(v) BY <1>4, <1>6 DEF FrameFits, SamePage
<1> QED BY <1>2, <1>5, <1>7, <1>8

LEMMA CommandAppliedFits ==
    ASSUME NEW w, PageFits(w), FrameFits(w), NEW c, c \in w.calls,
           c.flow = "execute", ActionContextIs(w, c),
           NEW rev, rev \in 0 .. MaxRevision
    PROVE  /\ PageFits(CommandApplied(w, c, rev))
           /\ FrameFits(CommandApplied(w, c, rev))
           /\ c \in CommandApplied(w, c, rev).calls
<1>1. AwaitFits(w, c) /\ Held(c) BY PageCalls DEF Held
<1>2. /\ c.session \in AgentSessions /\ c.task \in Tasks
      /\ c.task = w.agent.task
  BY <1>1 DEF AwaitFits, HasSession, HasTask, ActionContextIs,
              IsCurrentTurn, SelectionIs
<1>3. c.session # None =>
          c.session.task = c.task
          /\ (~w.escaped => c.session.account = c.account)
  BY <1>1 DEF AwaitFits
<1>5. rev \in Nat BY WebAssumption
<1>6. PICK x : x = [w EXCEPT !.agent.revision = rev] OBVIOUS
<1>7. PageFits(x) /\ FrameFits(x) /\ Calm(x, w)
  BY <1>5, <1>6, AgentRevisionFits
<1>8. PICK y : y = TaskUpdated(x, c.task, rev) OBVIOUS
<1>9. PageFits(y) /\ FrameFits(y) /\ HeldStays(y, x)
  BY <1>2, <1>7, <1>8, TaskUpdatedFits DEF Calm
<1>10. c \in y.calls BY <1>1, <1>7, <1>9 DEF HeldStays, Calm
<1>11. PICK n : n = IF rev < w.agent.revision THEN w ELSE y OBVIOUS
<1>12. PageFits(n) /\ FrameFits(n) /\ c \in n.calls
  BY <1>9, <1>10, <1>11
<1>13. PICK z : z = [n EXCEPT !.card = 0] OBVIOUS
<1>14. PageFits(z) /\ FrameFits(z) /\ Calm(z, n)
  BY <1>12, <1>13, CardFits
<1>15. c \in z.calls /\ z.account = n.account /\ z.escaped = n.escaped
       /\ z.stages = n.stages
  BY <1>12, <1>14 DEF Calm
<1>16. n \in Pages BY <1>12 DEF PageFits
<1>17. PICK d : d = Await(n, "refresh", "command", c.task, c.session, 0)
  OBVIOUS
<1>18. "refresh" \in Flows /\ "command" \in Steps /\ c.task \in Chosen
       /\ c.session \in AgentSessions \cup {None} /\ 0 \in Nat
  BY <1>2 DEF Flows, Steps, Chosen
<1>19. d \in AwaitSet BY <1>16, <1>17, <1>18, AwaitIs
<1>20. /\ d.flow = "refresh" /\ d.task = c.task /\ d.session = c.session
       /\ d.account = n.account
  BY <1>17 DEF Await
<1>21. AwaitFits(z, d)
  <2>1. AwaitFits(n, c) BY <1>12, PageCalls
  <2>2. ~n.escaped /\ c.session # None => c.session.account = n.account
    BY <1>1, <1>12, <2>1, AccountKept DEF AwaitFits, Held
  <2> QED BY <1>2, <1>3, <1>15, <1>20, <2>2
          DEF AwaitFits, HasTask, HasSession, OfStages
<1>22. ~Held(d) /\ ~Restores(d) /\ ~Switches(d)
  BY <1>20 DEF Held, Restores, Switches
<1>23. PICK v : v = Calling(z, d) OBVIOUS
<1>24. PageFits(v) /\ FrameFits(v)
  BY <1>14, <1>19, <1>21, <1>22, <1>23, CallingFits
<1>25. c \in v.calls
  <2>1. z \in Pages BY <1>14 DEF PageFits
  <2> QED BY <1>15, <1>19, <1>23, <2>1, CallingIs
<1>26. CommandApplied(w, c, rev) = v
  BY <1>6, <1>8, <1>11, <1>13, <1>17, <1>23 DEF CommandApplied
<1> QED BY <1>24, <1>25, <1>26

LEMMA CommandAnsweredKeeps ==
    ASSUME WebInv, NEW c \in web.calls, CommandAnswered(c)
    PROVE  WebInv'
<1>1. PICK w : w = web OBVIOUS
<1>2. PICK r : r = revision OBVIOUS
<1>3. /\ PageFits(w) /\ FrameFits(w) /\ r \in [Tasks -> 1 .. MaxRevision]
      /\ c \in w.calls
  BY <1>1, <1>2 DEF WebInv
<1>4. c.flow = "execute" /\ Held(c) /\ sessions' = sessions
  BY DEF CommandAnswered, Held
<1>5. c.task \in Tasks BY <1>3, <1>4, PageCalls DEF AwaitFits, HasTask
<1>6. PICK moved : moved = [r EXCEPT ![c.task] = r[c.task] + 1] OBVIOUS
<1>7. r[c.task] < MaxRevision =>
          /\ moved \in [Tasks -> 1 .. MaxRevision]
          /\ moved[c.task] \in 0 .. MaxRevision
  BY <1>3, <1>5, <1>6, RevisionMoves
<1>8. PICK u : u = Answered([w EXCEPT !.workflow = FALSE], c) OBVIOUS
<1>9. PageFits(u) /\ FrameFits(u) BY <1>3, <1>4, <1>8, WorkflowFreedFits
<1>10. CASE /\ r[c.task] < MaxRevision /\ revision' = moved
            /\ ActionContextIs(w, c)
            /\ web' = Answered([CommandApplied(w, c, moved[c.task])
                                EXCEPT !.workflow = FALSE], c)
  <2>1. PICK x : x = CommandApplied(w, c, moved[c.task]) OBVIOUS
  <2>2. PageFits(x) /\ FrameFits(x) /\ c \in x.calls
    BY <1>3, <1>4, <1>7, <1>10, <2>1, CommandAppliedFits
  <2>3. PICK v : v = Answered([x EXCEPT !.workflow = FALSE], c) OBVIOUS
  <2>4. PageFits(v) /\ FrameFits(v)
    BY <1>4, <2>2, <2>3, WorkflowFreedFits
  <2>5. web' = v BY <1>10, <2>1, <2>3
  <2> QED BY <1>4, <1>7, <1>10, <2>4, <2>5 DEF WebInv
<1>11. CASE /\ web' = u
            /\ \/ revision' = r
               \/ r[c.task] < MaxRevision /\ revision' = moved
  BY <1>3, <1>4, <1>7, <1>9, <1>11 DEF WebInv
<1>12. \/ /\ r[c.task] < MaxRevision /\ revision' = moved
          /\ web' = Answered([IF ActionContextIs(w, c)
                              THEN CommandApplied(w, c, moved[c.task])
                              ELSE w EXCEPT !.workflow = FALSE], c)
       \/ /\ web' = u
          /\ \/ revision' = r
             \/ r[c.task] < MaxRevision /\ revision' = moved
  BY <1>1, <1>2, <1>6, <1>8 DEF CommandAnswered
<1> QED BY <1>8, <1>10, <1>11, <1>12

-----------------------------------------------------------------------------
(* The answers to the library and to an account switch. *)

\* What is rendered for the account has no part in the selection.
LEMMA RenderedFits ==
    ASSUME NEW w, PageFits(w)
    PROVE  /\ PageFits(AccountRendered(w))
           /\ FrameFits(w) => FrameFits(AccountRendered(w))
<1>1. w \in Pages BY DEF PageFits
<1>2. PICK v : v = AccountRendered(w) OBVIOUS
<1>3. /\ v \in Pages /\ Steady(v, w) /\ v.stages = w.stages
      /\ v.calls = w.calls
  BY <1>1, <1>2, AccountRenderedIs
<1>4. Carried(v, w) BY <1>1, <1>3, FewerCarried
<1> QED BY <1>2, <1>3, <1>4, SteadyFits

LEMMA LibraryFits ==
    ASSUME NEW w, PageFits(w), NEW lib, lib \in LibraryPart
    PROVE  /\ PageFits([w EXCEPT !.library = lib])
           /\ FrameFits(w) => FrameFits([w EXCEPT !.library = lib])
<1>1. w \in Pages BY DEF PageFits
<1>2. PICK v : v = [w EXCEPT !.library = lib] OBVIOUS
<1>3. v \in Pages BY <1>1, <1>2 DEF Pages
<1>4. /\ v.account = w.account /\ v.busy = w.busy
      /\ v.workflow = w.workflow /\ v.escaped = w.escaped
      /\ v.frame = w.frame /\ v.stages = w.stages
      /\ v.calls = w.calls /\ v.agent = w.agent
  BY <1>1, <1>2 DEF Pages
<1>5. Calm(v, w) /\ ShowsFit(v) BY <1>3, <1>4 DEF Calm, PageFits, ShowsFit
<1> QED BY <1>2, <1>5, CalmFits

\* The load an account switch awaits ends in the scope of the switch.
LEMMA SwitchFreedFits ==
    ASSUME NEW w, PageFits(w), FrameFits(w), NEW c, c \in w.calls,
           Switches(c), c.scope,
           NEW u, u = [w EXCEPT !.hydrating = FALSE, !.workflow = FALSE,
                                !.busy = FALSE]
    PROVE  /\ PageFits(Answered(AccountRendered(u), c))
           /\ FrameFits(Answered(AccountRendered(u), c))
           /\ AccountRendered(u).library = w.library
           /\ AccountRendered(u) \in Pages
<1>1. w \in Pages BY DEF PageFits
<1>2. u \in Pages BY <1>1 DEF Pages
<1>3. /\ u.account = w.account /\ u.library = w.library
      /\ u.escaped = w.escaped /\ u.frame = w.frame /\ u.stages = w.stages
      /\ u.calls = w.calls /\ u.agent = w.agent
  BY <1>1 DEF Pages
<1>4. PICK x : x = AccountRendered(u) OBVIOUS
<1>5. /\ x \in Pages /\ Steady(x, u) /\ x.stages = u.stages
      /\ x.calls = u.calls
  BY <1>2, <1>4, AccountRenderedIs
<1>6. PICK v : v = Answered(x, c) OBVIOUS
<1>7. v \in Pages /\ SamePage(v, x) /\ v.calls = w.calls \ {c}
  BY <1>3, <1>5, <1>6, AnsweredIs
<1>8. /\ v.account = w.account /\ v.escaped = w.escaped
      /\ v.agent = w.agent /\ v.stages = w.stages /\ v.frame = w.frame
  BY <1>3, <1>5, <1>7 DEF Steady, SamePage
<1>9. PageFits(v) BY <1>7, <1>8, FreedFits
<1>10. FrameFits(v) BY <1>7, <1>8 DEF FrameFits
<1> QED BY <1>3, <1>4, <1>5, <1>6, <1>9, <1>10 DEF Steady

LEMMA LibraryAnsweredKeeps ==
    ASSUME WebInv, NEW c \in web.calls, LibraryAnswered(c)
    PROVE  WebInv'
<1>1. PICK w : w = web OBVIOUS
<1>2. PageFits(w) /\ FrameFits(w) /\ c \in w.calls BY <1>1 DEF WebInv
<1>3. c.flow = "library" /\ UNCHANGED <<revision, sessions>>
  BY DEF LibraryAnswered
<1>4. w \in Pages /\ w.library \in LibraryPart BY <1>2 DEF PageFits, Pages
<1>5. PICK lib : lib = [w.library EXCEPT !.loading = FALSE] OBVIOUS
<1>6. lib \in LibraryPart BY <1>4, <1>5 DEF LibraryPart
<1>7. PICK x : x = IF c.newest /\ c.scope
                   THEN [w EXCEPT !.library.loading = FALSE] ELSE w
  OBVIOUS
<1>8. PageFits(x) /\ FrameFits(x) /\ c \in x.calls /\ x \in Pages
  <2>1. PICK y : y = [w EXCEPT !.library = lib] OBVIOUS
  <2>2. [w EXCEPT !.library.loading = FALSE] = y
    BY <1>4, <1>5, <2>1 DEF Pages
  <2>3. PageFits(y) /\ FrameFits(y) BY <1>2, <1>6, <2>1, LibraryFits
  <2>4. y.calls = w.calls BY <1>4, <2>1 DEF Pages
  <2> QED BY <1>2, <1>7, <2>2, <2>3, <2>4 DEF PageFits
<1>9. PICK u : u = [x EXCEPT !.hydrating = FALSE, !.workflow = FALSE,
                             !.busy = FALSE]
  OBVIOUS
<1>10. PICK y : y = IF c.step = "switch" /\ c.scope
                    THEN AccountRendered(u) ELSE x
  OBVIOUS
<1>11. PICK z : z = Answered(y, c) OBVIOUS
<1>12. y \in Pages /\ PageFits(z) /\ FrameFits(z)
  <2>1. CASE c.step = "switch" /\ c.scope
    <3>1. Switches(c) BY <1>3, <2>1 DEF Switches
    <3> QED BY <1>8, <1>9, <1>10, <1>11, <2>1, <3>1, SwitchFreedFits
  <2>2. CASE ~(c.step = "switch" /\ c.scope)
    BY <1>8, <1>10, <1>11, <2>2, AnsweredFits
  <2> QED BY <2>1, <2>2
<1>13. PICK r : r = revision OBVIOUS
<1>14. r \in Listings BY <1>13, WebAssumption DEF WebInv, Listings
<1>15. CASE web' = z BY <1>3, <1>12, <1>15, PageChanges
<1>16. CASE web' = Answered([y EXCEPT !.library.tasks = r], c)
  <2>1. y.library \in LibraryPart /\ z \in Pages /\ z.library = y.library
    BY <1>11, <1>12, AnsweredIs DEF Pages, SamePage
  <2>2. PICK lb : lb = [z.library EXCEPT !.tasks = r] OBVIOUS
  <2>3. lb \in LibraryPart BY <1>14, <2>1, <2>2 DEF LibraryPart
  <2>4. PICK v : v = [z EXCEPT !.library = lb] OBVIOUS
  <2>5. PageFits(v) /\ FrameFits(v) BY <1>12, <2>3, <2>4, LibraryFits
  <2>6. Answered([y EXCEPT !.library.tasks = r], c) = v
    BY <1>11, <1>12, <2>1, <2>2, <2>4 DEF Answered, Pages
  <2> QED BY <1>3, <1>16, <2>5, <2>6, PageChanges
<1> QED BY <1>1, <1>7, <1>9, <1>10, <1>11, <1>13, <1>15, <1>16
        DEF LibraryAnswered

LEMMA SwitchFailedKeeps ==
    ASSUME WebInv, NEW c \in web.calls, SwitchFailed(c)
    PROVE  WebInv'
<1>1. PICK w : w = web OBVIOUS
<1>2. PageFits(w) /\ FrameFits(w) /\ c \in w.calls BY <1>1 DEF WebInv
<1>3. c.flow = "switch" /\ UNCHANGED <<revision, sessions>>
  BY DEF SwitchFailed
<1>4. w \in Pages BY <1>2 DEF PageFits
<1>5. c \in SwitchRecords /\ AwaitFits(w, c) BY <1>2, <1>3, PageCalls
<1>6. PICK d : d = [c EXCEPT !.step = "brands"] OBVIOUS
<1>7. /\ d \in SwitchRecords /\ d.flow = c.flow /\ d.account = c.account
      /\ d.scope = c.scope
  BY <1>5, <1>6 DEF SwitchRecords, Steps
<1>8. d \in AwaitSet BY <1>7 DEF AwaitSet
<1>9. AwaitFits(w, d)
  BY <1>3, <1>5, <1>7 DEF AwaitFits, HasTask, HasSession, OfStages, PageFlows
<1>10. /\ ~Held(c) /\ ~Held(d) /\ ~Restores(c) /\ ~Restores(d)
       /\ Switches(c) /\ Switches(d)
  BY <1>3, <1>7 DEF Held, Restores, Switches
<1>11. PICK x : x = Answered(w, c) OBVIOUS
<1>12. x \in Pages /\ SamePage(x, w) /\ x.calls = w.calls \ {c}
  BY <1>4, <1>11, AnsweredIs
<1>13. PICK y : y = AccountRendered(x) OBVIOUS
<1>14. /\ y \in Pages /\ Steady(y, x) /\ y.stages = x.stages
       /\ y.calls = x.calls
  BY <1>12, <1>13, AccountRenderedIs
<1>15. PICK z : z = Calling(y, d) OBVIOUS
<1>16. z \in Pages /\ SamePage(z, y) /\ z.calls = y.calls \cup {d}
  BY <1>8, <1>14, <1>15, CallingIs
<1>17. /\ z.account = w.account /\ z.escaped = w.escaped
       /\ z.agent = w.agent /\ z.stages = w.stages /\ z.busy = w.busy
       /\ z.workflow = w.workflow /\ z.frame = w.frame
       /\ z.calls = (w.calls \ {c}) \cup {d}
  BY <1>12, <1>14, <1>16 DEF SamePage, Steady
<1>18. PageFits(z) /\ FrameFits(z)
  BY <1>2, <1>7, <1>8, <1>9, <1>10, <1>16, <1>17, ReplacedFits
<1>19. PICK lib : lib = [tasks |-> c.listed, loading |-> FALSE] OBVIOUS
<1>20. lib \in LibraryPart BY <1>5, <1>19 DEF LibraryPart, SwitchRecords
<1>21. PICK v : v = [z EXCEPT !.library = lib] OBVIOUS
<1>22. PageFits(v) /\ FrameFits(v) BY <1>18, <1>20, <1>21, LibraryFits
<1>23. v = [y EXCEPT !.library = lib, !.calls = @ \cup {d}]
  BY <1>14, <1>15, <1>21 DEF Calling, Pages
<1>24. web' = v
  BY <1>1, <1>6, <1>11, <1>13, <1>19, <1>23 DEF SwitchFailed
<1> QED BY <1>3, <1>22, <1>24, PageChanges

\* The library is read again for a switch that has let the page go.
LEMMA SwitchLoadFits ==
    ASSUME NEW w, PageFits(w), ~w.escaped => Idle(w) /\ w.workflow
    PROVE  /\ PageFits(LibraryLoad(w, "switch"))
           /\ FrameFits(w) => FrameFits(LibraryLoad(w, "switch"))
<1>1. w \in Pages BY DEF PageFits
<1>2. PICK c : c = Await(w, "library", "switch", None, None, 0) OBVIOUS
<1>3. /\ c \in AwaitSet /\ c.flow = "library"
      /\ c.account = w.account /\ c.session = None
      /\ ~Held(c) /\ ~Restores(c)
  <2>1. "switch" \in Steps BY DEF Steps
  <2>2. c \in AwaitSet BY <1>1, <1>2, <2>1, LibraryAwaitIs
  <2>3. /\ c.flow = "library"
        /\ c.account = w.account /\ c.session = None
    BY <1>2 DEF Await
  <2> QED BY <2>2, <2>3 DEF Held, Restores
<1>4. PICK u : u = LibraryCleared(w) OBVIOUS
<1>5. /\ PageFits(u) /\ (FrameFits(w) => FrameFits(u)) /\ Carried(u, w)
      /\ u.account = w.account /\ u.workflow = w.workflow
      /\ u.escaped = w.escaped
  BY <1>4, LibraryClearedFits
<1>6. ~u.escaped => Idle(u) /\ u.workflow
  <2>1. w.calls \subseteq AwaitSet BY <1>1 DEF Pages
  <2> QED BY <1>5, <2>1, CarriedIdle
<1>7. AwaitFits(u, c)
  BY <1>3, <1>5 DEF AwaitFits, HasTask, HasSession, OfStages, PageFlows
<1>8. PICK v : v = Calling(u, c) OBVIOUS
<1>9. PageFits(v) /\ (FrameFits(u) => FrameFits(v))
  BY <1>3, <1>5, <1>6, <1>7, <1>8, OwnerFits
<1>10. LibraryLoad(w, "switch") = v
  BY <1>2, <1>4, <1>8 DEF LibraryLoad
<1> QED BY <1>5, <1>9, <1>10

\* A switch in the scope it began in is alone on the page.
LEMMA SwitchAlone ==
    ASSUME NEW w, PageFits(w), ~w.escaped, NEW c, c \in w.calls,
           Switches(c)
    PROVE  /\ w.workflow
           /\ \A d \in w.calls \ {c} : ~Held(d) /\ ~Switches(d)
           /\ c.scope => \A d \in w.calls : ~Restores(d)
BY DEF PageFits, FlowsFit

LEMMA BrandsReadAgainKeeps ==
    ASSUME WebInv, NEW c \in web.calls, BrandsReadAgain(c)
    PROVE  WebInv'
<1>1. PICK w : w = web OBVIOUS
<1>2. PageFits(w) /\ FrameFits(w) /\ c \in w.calls BY <1>1 DEF WebInv
<1>3. c.flow = "switch" /\ UNCHANGED <<revision, sessions>>
  BY DEF BrandsReadAgain
<1>4. w \in Pages BY <1>2 DEF PageFits
<1>5. PICK x : x = Answered(w, c) OBVIOUS
<1>6. PageFits(x) /\ FrameFits(x) BY <1>2, <1>5, AnsweredFits
<1>7. SamePage(x, w) /\ x.calls = w.calls \ {c}
  BY <1>4, <1>5, AnsweredIs
<1>8. CASE c.scope /\ web' = LibraryLoad(x, "switch")
  <2>1. ~x.escaped => Idle(x) /\ x.workflow
    BY <1>2, <1>3, <1>7, <1>8, SwitchAlone DEF SamePage, Switches, Idle
  <2>2. PICK v : v = LibraryLoad(x, "switch") OBVIOUS
  <2>3. PageFits(v) /\ FrameFits(v) BY <1>6, <2>1, <2>2, SwitchLoadFits
  <2> QED BY <1>3, <1>8, <2>2, <2>3, PageChanges
<1>9. CASE web' = LibraryLoad(x, "load")
  <2>1. PICK v : v = LibraryLoad(x, "load") OBVIOUS
  <2>2. PageFits(v) /\ FrameFits(v) BY <1>6, <2>1, LibraryLoadFits
  <2> QED BY <1>3, <1>9, <2>1, <2>2, PageChanges
<1> QED BY <1>1, <1>5, <1>8, <1>9 DEF BrandsReadAgain

LEMMA CarriedOn ==
    ASSUME NEW w, w.calls \subseteq AwaitSet, NEW v, Carried(v, w),
           NEW x, x.calls \subseteq AwaitSet, Carried(x, v)
    PROVE  \A d \in x.calls : \E c \in w.calls :
              /\ d.flow = c.flow /\ d.step = c.step
              /\ d.scope => c.scope
              /\ c.flow # "switch" => d.task = c.task /\ d.session = c.session
              /\ d.account = c.account
              /\ Held(d) => Held(c)
              /\ Switches(d) => Switches(c)
<1> TAKE d \in x.calls
<1>1. PICK b \in v.calls : Fades(b, d) BY DEF Carried
<1>2. PICK c \in w.calls : Fades(c, b) BY DEF Carried
<1>3. c \in AwaitSet OBVIOUS
<1>4. /\ b \in AwaitSet /\ b.flow = c.flow /\ b.step = c.step
      /\ b.account = c.account
      /\ b.scope => c.scope
      /\ c.flow # "switch" => b.task = c.task /\ b.session = c.session
  BY <1>2, <1>3, FadedFields
<1>5. /\ d.flow = b.flow /\ d.step = b.step
      /\ d.account = b.account
      /\ d.scope => b.scope
      /\ b.flow # "switch" => d.task = b.task /\ d.session = b.session
  BY <1>1, <1>4, FadedFields
<1>6. /\ Held(b) => Held(c)
      /\ Switches(b) => Switches(c)
      /\ Held(d) => Held(b)
      /\ Switches(d) => Switches(b)
  BY <1>1, <1>2, <1>3, <1>4, FadedOwners
<1>7. /\ d.flow = c.flow /\ d.step = c.step
      /\ d.scope => c.scope
      /\ c.flow # "switch" => d.task = c.task /\ d.session = c.session
      /\ d.account = c.account
  BY <1>4, <1>5
<1>8. (Held(d) => Held(c)) /\ (Switches(d) => Switches(c)) BY <1>6
<1> WITNESS c \in w.calls
<1> QED BY <1>7, <1>8

\* The stage page is told that the account has been left.
LEMMA StagesResetIs ==
    ASSUME NEW w, w \in Pages
    PROVE  /\ StagesReset(w) \in Pages
           /\ Steady(StagesReset(w), w)
           /\ StagesReset(w).stages.task = None
           /\ StagesReset(w).stages.shows = None
           /\ \A d \in StagesReset(w).calls :
                 /\ OfStages(d) => ~d.scope
                 /\ \E c \in w.calls :
                      /\ d.flow = c.flow /\ d.step = c.step
                      /\ d.scope => c.scope
                      /\ c.flow # "switch" =>
                            d.task = c.task /\ d.session = c.session
                      /\ d.account = c.account
                      /\ Held(d) => Held(c)
                      /\ Switches(d) => Switches(c)
<1>1. PICK u : u = NewStageContext(w) OBVIOUS
<1>2. /\ u \in Pages /\ SamePage(u, w) /\ Carried(u, w)
      /\ \A d \in u.calls : OfStages(d) => ~d.scope
  BY <1>1, NewStageContextIs
<1>3. PICK x : x = Superseded(u, "stages") OBVIOUS
<1>4. x \in Pages /\ SamePage(x, u) /\ Carried(x, u)
  BY <1>2, <1>3, SupersededIs
<1>5. w.calls \subseteq AwaitSet /\ u.calls \subseteq AwaitSet
      /\ x.calls \subseteq AwaitSet
  BY <1>2, <1>4 DEF Pages
<1>6. \A d \in x.calls : OfStages(d) => ~d.scope
  <2>1. SUFFICES ASSUME NEW d \in x.calls, OfStages(d) PROVE ~d.scope
    OBVIOUS
  <2>2. PICK b \in u.calls : Fades(b, d) BY <1>4 DEF Carried
  <2>3. d.flow = b.flow /\ (d.scope => b.scope) BY <1>5, <2>2, FadedFields
  <2> QED BY <1>2, <2>1, <2>3 DEF OfStages
<1>7. x.stages \in StagesPart BY <1>4 DEF Pages
<1>8. PICK st : st = [x.stages EXCEPT !.task = None, !.revision = 0,
                          !.visible = FALSE, !.account = None]
  OBVIOUS
<1>9. st \in StagesPart /\ st.task = None
  BY <1>7, <1>8 DEF StagesPart, Chosen
<1>10. PICK y : y = [x EXCEPT !.stages = st] OBVIOUS
<1>11. y = [x EXCEPT !.stages.task = None, !.stages.revision = 0,
                     !.stages.visible = FALSE, !.stages.account = None]
  BY <1>4, <1>8, <1>10 DEF Pages
<1>12. y \in Pages BY <1>4, <1>9, <1>10 DEF Pages
<1>13. Steady(y, x) /\ y.stages = st /\ y.calls = x.calls
  BY <1>4, <1>10 DEF Pages, Steady
<1>14. PICK z : z = PanelBusy(y, FALSE) OBVIOUS
<1>15. /\ z \in Pages /\ Steady(z, y) /\ z.calls = y.calls
       /\ z.stages = [st EXCEPT !.busy = FALSE]
  BY <1>12, <1>13, <1>14, PanelBusyIs
<1>16. z.stages \in StagesPart /\ z.stages.task = None
  BY <1>9, <1>15, StageFields DEF Pages
<1>17. PICK sv : sv = [z.stages EXCEPT !.shows = None] OBVIOUS
<1>18. sv \in StagesPart /\ sv.task = None /\ sv.shows = None
  BY <1>16, <1>17 DEF StagesPart
<1>19. PICK v : v = [z EXCEPT !.stages = sv] OBVIOUS
<1>20. v = [z EXCEPT !.stages.shows = None]
  BY <1>15, <1>17, <1>19 DEF Pages
<1>21. v \in Pages BY <1>15, <1>18, <1>19 DEF Pages
<1>22. Steady(v, z) /\ v.stages = sv /\ v.calls = x.calls
  BY <1>13, <1>15, <1>19 DEF Pages, Steady
<1>23. StagesReset(w) = v
  BY <1>1, <1>3, <1>11, <1>14, <1>20 DEF StagesReset
<1>24. Steady(v, w)
  BY <1>2, <1>4, <1>13, <1>15, <1>22 DEF Steady, SamePage
<1>25. \A d \in x.calls : \E c \in w.calls :
          /\ d.flow = c.flow /\ d.step = c.step
          /\ d.scope => c.scope
          /\ c.flow # "switch" => d.task = c.task /\ d.session = c.session
          /\ d.account = c.account
          /\ Held(d) => Held(c)
          /\ Switches(d) => Switches(c)
  BY <1>2, <1>4, <1>5, CarriedOn
<1> QED BY <1>6, <1>18, <1>21, <1>22, <1>23, <1>24, <1>25

\* A new account: every await is of a scope that was left, and what it
\* captured is of the account of its own.
LEMMA AppliedFits ==
    ASSUME NEW w, PageFits(w), NEW c, c \in w.calls, c.flow = "switch",
           NEW v, v \in Pages, v.escaped = w.escaped,
           v.workflow = w.workflow,
           v.agent.session = None, v.stages.shows = None,
           \A d \in v.calls :
              /\ d.flow \notin PageFlows => ~d.scope
              /\ OfStages(d) => ~d.scope
              /\ \E b \in w.calls \ {c} :
                   /\ d.flow = b.flow /\ d.step = b.step
                   /\ b.flow # "switch" =>
                         d.task = b.task /\ d.session = b.session
                   /\ d.account = b.account
                   /\ Held(d) => Held(b)
                   /\ Switches(d) => Switches(b)
    PROVE  /\ PageFits(v)
           /\ ~v.escaped => Idle(v) /\ v.workflow
<1>1. ShowsFit(v) BY DEF ShowsFit
<1>2. ASSUME NEW d \in v.calls PROVE AwaitFits(v, d)
  <2>1. PICK b \in w.calls \ {c} :
           /\ d.flow = b.flow /\ d.step = b.step
           /\ b.flow # "switch" => d.task = b.task /\ d.session = b.session
           /\ d.account = b.account
    OBVIOUS
  <2>2. AwaitFits(w, b) BY PageCalls
  <2>3. /\ HasTask(d) => HasTask(b) /\ b.flow # "switch"
        /\ HasSession(d) => HasSession(b) /\ b.flow # "switch"
    BY <2>1 DEF HasTask, HasSession, PageFlows
  <2>4. /\ HasTask(d) => d.task \in Tasks
        /\ HasSession(d) => d.session \in AgentSessions
    BY <2>1, <2>2, <2>3 DEF AwaitFits
  <2>5. d.flow # "switch" /\ d.session # None =>
           /\ d.session.task = d.task
           /\ ~v.escaped => d.session.account = d.account
    BY <2>1, <2>2 DEF AwaitFits
  <2> QED BY <2>4, <2>5 DEF AwaitFits
<1>3. Switches(c) BY DEF Switches
<1>4. ~v.escaped => Idle(v) /\ v.workflow
  <2>1. SUFFICES ASSUME ~w.escaped PROVE Idle(v) /\ v.workflow
    OBVIOUS
  <2>2. /\ w.workflow
        /\ \A d \in w.calls \ {c} : ~Held(d) /\ ~Switches(d)
    BY <1>3, <2>1, SwitchAlone
  <2>3. \A d \in v.calls : ~Restores(d) BY DEF Restores, PageFlows
  <2> QED BY <2>2, <2>3 DEF Idle
<1>5. ~v.escaped => FlowsFit(v) BY <1>4 DEF FlowsFit, Idle
<1> QED BY <1>1, <1>2, <1>4, <1>5 DEF PageFits

LEMMA SessionSwitchedKeeps ==
    ASSUME WebInv, NEW c \in web.calls, SessionSwitched(c)
    PROVE  WebInv'
<1>1. PICK w : w = web OBVIOUS
<1>2. PageFits(w) /\ FrameFits(w) /\ c \in w.calls BY <1>1 DEF WebInv
<1>3. c.flow = "switch" /\ UNCHANGED <<revision, sessions>>
  BY DEF SessionSwitched
<1>4. w \in Pages /\ c.to \in DevAccounts
  BY <1>2, <1>3, PageCalls DEF PageFits, SwitchRecords
<1>5. PICK s : s = [Answered(w, c) EXCEPT !.account = c.to, !.center = FALSE]
  OBVIOUS
<1>6. /\ s \in Pages /\ s.calls = w.calls \ {c} /\ s.escaped = w.escaped
      /\ s.workflow = w.workflow
  <2>1. PICK x : x = Answered(w, c) OBVIOUS
  <2>2. x \in Pages /\ SamePage(x, w) /\ x.calls = w.calls \ {c}
    BY <1>4, <2>1, AnsweredIs
  <2>3. s = [x EXCEPT !.account = c.to, !.center = FALSE] BY <1>5, <2>1
  <2>4. s \in Pages BY <1>4, <2>2, <2>3 DEF Pages
  <2> QED BY <2>2, <2>3, <2>4 DEF SamePage, Pages
<1>7. PICK x : x = StagesReset(s) OBVIOUS
<1>8. /\ x \in Pages /\ Steady(x, s)
      /\ x.stages.task = None /\ x.stages.shows = None
      /\ \A d \in x.calls :
            /\ OfStages(d) => ~d.scope
            /\ \E b \in s.calls :
                 /\ d.flow = b.flow /\ d.step = b.step
                 /\ d.scope => b.scope
                 /\ b.flow # "switch" =>
                       d.task = b.task /\ d.session = b.session
                 /\ d.account = b.account
                 /\ Held(d) => Held(b)
                 /\ Switches(d) => Switches(b)
  BY <1>6, <1>7, StagesResetIs
<1>9. PICK fr : fr = [task |-> None, view |-> "closed", listed |-> Unlisted]
  OBVIOUS
<1>10. fr \in FramePart
  <2>1. Unlisted \in Listings BY WebAssumption DEF Unlisted, Listings
  <2> QED BY <1>9, <2>1 DEF FramePart, Chosen, Views
<1>11. PICK f : f = FrameClosed(x) OBVIOUS
<1>12. f = [x EXCEPT !.frame = fr] BY <1>9, <1>11 DEF FrameClosed
<1>13. /\ f \in Pages /\ f.calls = x.calls /\ f.frame = fr
       /\ f.escaped = x.escaped /\ f.workflow = x.workflow
       /\ f.stages = x.stages
  BY <1>8, <1>10, <1>12 DEF Pages
<1>14. PICK n : n = NewScope(f) OBVIOUS
<1>15. /\ n \in Pages /\ SamePage(n, f) /\ Carried(n, f)
       /\ \A d \in n.calls : d.flow \notin PageFlows => ~d.scope
  BY <1>13, <1>14, NewScopeIs
<1>16. PICK y : y = AccountRendered(n) OBVIOUS
<1>17. /\ y \in Pages /\ Steady(y, n) /\ y.stages = n.stages
       /\ y.calls = n.calls
  BY <1>15, <1>16, AccountRenderedIs
<1>18. PICK u : u = Superseded(y, "restore") OBVIOUS
<1>19. u \in Pages /\ SamePage(u, y) /\ Carried(u, y)
  BY <1>17, <1>18, SupersededIs
<1>20. PICK none : none = [task |-> None, session |-> None, revision |-> 0]
  OBVIOUS
<1>21. none \in AgentPart BY <1>20 DEF AgentPart, Chosen
<1>22. PICK v : v = AgentCleared(y) OBVIOUS
<1>23. v = [u EXCEPT !.agent = none, !.card = 0]
  BY <1>18, <1>20, <1>22 DEF AgentCleared
<1>24. /\ v \in Pages /\ v.calls = u.calls /\ v.frame = u.frame
       /\ v.escaped = u.escaped /\ v.workflow = u.workflow
       /\ v.stages = u.stages /\ v.agent = none
  BY <1>19, <1>21, <1>23 DEF Pages
<1>25. /\ v.escaped = w.escaped /\ v.workflow = w.workflow
       /\ v.stages.shows = None /\ v.agent.session = None
       /\ v.agent.task = None /\ v.frame = fr
  BY <1>6, <1>8, <1>13, <1>15, <1>17, <1>19, <1>20, <1>24
     DEF Steady, SamePage
<1>26. ASSUME NEW d \in v.calls
       PROVE  /\ d.flow \notin PageFlows => ~d.scope
              /\ OfStages(d) => ~d.scope
              /\ \E b \in w.calls \ {c} :
                   /\ d.flow = b.flow /\ d.step = b.step
                   /\ b.flow # "switch" =>
                         d.task = b.task /\ d.session = b.session
                   /\ d.account = b.account
                   /\ Held(d) => Held(b)
                   /\ Switches(d) => Switches(b)
  <2>1. /\ f.calls \subseteq AwaitSet /\ n.calls \subseteq AwaitSet
        /\ u.calls \subseteq AwaitSet
    BY <1>13, <1>15, <1>19 DEF Pages
  <2>2. Carried(u, n) BY <1>17, <1>19 DEF Carried
  <2>3. PICK e \in n.calls : Fades(e, d) BY <1>24, <2>2 DEF Carried
  <2>4. d.flow = e.flow /\ (d.scope => e.scope) BY <2>1, <2>3, FadedFields
  <2>5. d.flow \notin PageFlows => ~d.scope BY <1>15, <2>4
  <2>6. PICK g \in f.calls :
           /\ d.flow = g.flow /\ d.step = g.step
           /\ d.scope => g.scope
           /\ g.flow # "switch" => d.task = g.task /\ d.session = g.session
           /\ d.account = g.account
           /\ Held(d) => Held(g)
           /\ Switches(d) => Switches(g)
    BY <1>15, <1>24, <2>1, <2>2, CarriedOn
  <2>7. g \in x.calls BY <1>13
  <2>8. OfStages(d) => ~d.scope BY <1>8, <2>6, <2>7 DEF OfStages
  <2>9. PICK b \in s.calls :
           /\ g.flow = b.flow /\ g.step = b.step
           /\ b.flow # "switch" => g.task = b.task /\ g.session = b.session
           /\ g.account = b.account
           /\ Held(g) => Held(b)
           /\ Switches(g) => Switches(b)
    BY <1>8, <2>7
  <2>10. b \in w.calls \ {c} BY <1>6
  <2> QED BY <2>5, <2>6, <2>8, <2>9, <2>10
<1>27. PageFits(v) /\ (~v.escaped => Idle(v) /\ v.workflow)
  BY <1>2, <1>3, <1>24, <1>25, <1>26, AppliedFits
<1>28. FrameFits(v)
  <2>1. v.frame.task = None /\ v.frame.view = "closed" BY <1>9, <1>25
  <2> QED BY <1>27, <2>1 DEF FrameFits, Idle
<1>29. PICK z : z = LibraryLoad(v, "switch") OBVIOUS
<1>30. PageFits(z) /\ FrameFits(z)
  BY <1>27, <1>28, <1>29, SwitchLoadFits
<1>31. web' = z
  BY <1>1, <1>5, <1>7, <1>11, <1>14, <1>16, <1>22, <1>29
     DEF SessionSwitched
<1> QED BY <1>3, <1>30, <1>31, PageChanges

-----------------------------------------------------------------------------
(* The invariant and what follows from it. *)

LEMMA AnswersKeep ==
    ASSUME WebInv, Answers
    PROVE  WebInv'
<1>1. PICK c \in web.calls : AwaitEnds(c) BY DEF Answers
<1>2. CASE \/ LibraryAnswered(c) \/ SessionSwitched(c)
           \/ SwitchFailed(c) \/ BrandsReadAgain(c)
  BY <1>2, LibraryAnsweredKeeps, SessionSwitchedKeeps, SwitchFailedKeeps,
     BrandsReadAgainKeeps
<1>3. CASE \/ SessionsListed(c) \/ SessionCreated(c) \/ SessionGot(c)
           \/ TranscriptRead(c) \/ SessionReset(c) \/ SessionFailed(c)
  BY <1>3, SessionsListedKeeps, SessionCreatedKeeps, SessionGotKeeps,
     TranscriptReadKeeps, SessionResetKeeps, SessionFailedKeeps
<1>4. CASE \/ RunEnded(c) \/ RunFailed(c) \/ CommandAnswered(c)
           \/ ContextRefreshed(c) \/ RefreshFailed(c)
  BY <1>4, RunEndedKeeps, RunFailedKeeps, CommandAnsweredKeeps,
     ContextRefreshedKeeps, RefreshFailedKeeps
<1>5. CASE \/ AssetsLoaded(c) \/ AssetsConfirmed(c) \/ AssetUploaded(c)
           \/ UploadViewed(c) \/ AssetsFailed(c)
  BY <1>5, AssetsLoadedKeeps, AssetsConfirmedKeeps, AssetUploadedKeeps,
     UploadViewedKeeps, AssetsFailedKeeps
<1>6. CASE \/ StagesLoaded(c) \/ StageMutated(c) \/ StageEnded(c)
  BY <1>6, StagesLoadedKeeps, StageMutatedKeeps, StageEndedKeeps
<1> QED BY <1>1, <1>2, <1>3, <1>4, <1>5, <1>6 DEF AwaitEnds

LEMMA InitWebInv == WebInit => WebInv
<1> SUFFICES ASSUME WebInit PROVE WebInv
  OBVIOUS
<1>1. PICK r : r = revision OBVIOUS
<1>2. r = [t \in Tasks |-> 1] BY <1>1 DEF WebInit
<1>3. r \in [Tasks -> 1 .. MaxRevision] /\ r \in Listings
  BY <1>2, WebAssumption DEF Listings
<1>4. PICK a \in DevAccounts :
        web = [account |-> a, busy |-> FALSE, workflow |-> FALSE,
               hydrating |-> FALSE,
               entry |-> a \in DevAdmins, center |-> FALSE,
               library |-> [tasks |-> r, loading |-> FALSE],
               frame |-> [task |-> None, view |-> "closed",
                          listed |-> Unlisted],
               agent |-> [task |-> None, session |-> None, revision |-> 0],
               card |-> 0, escaped |-> FALSE,
               assets |-> [key |-> <<>>, task |-> None, busy |-> FALSE,
                           shows |-> None],
               stages |-> [account |-> None, task |-> None, revision |-> 0,
                           visible |-> FALSE, busy |-> FALSE, shows |-> None],
               calls |-> {}]
  BY <1>1 DEF WebInit
<1>5. PICK en \in BOOLEAN : en = (a \in DevAdmins)
  <2>1. (a \in DevAdmins) \in BOOLEAN OBVIOUS
  <2> QED BY <2>1, Zenon
<1>6. PICK lib : lib = [tasks |-> r, loading |-> FALSE] OBVIOUS
<1>7. PICK fr : fr = [task |-> None, view |-> "closed", listed |-> Unlisted]
  OBVIOUS
<1>8. PICK ag : ag = [task |-> None, session |-> None, revision |-> 0]
  OBVIOUS
<1>9. PICK as : as = [key |-> <<>>, task |-> None, busy |-> FALSE,
                      shows |-> None]
  OBVIOUS
<1>10. PICK st : st = [account |-> None, task |-> None, revision |-> 0,
                       visible |-> FALSE, busy |-> FALSE, shows |-> None]
  OBVIOUS
<1>11. lib \in LibraryPart BY <1>3, <1>6 DEF LibraryPart
<1>12. fr \in FramePart
  <2>1. Unlisted \in Listings BY WebAssumption DEF Unlisted, Listings
  <2> QED BY <1>7, <2>1 DEF FramePart, Chosen, Views
<1>13. ag \in AgentPart BY <1>8 DEF AgentPart, Chosen
<1>14. as \in AssetsPart BY <1>9 DEF AssetsPart, Chosen
<1>15. st \in StagesPart BY <1>10 DEF StagesPart, Chosen
<1>16. PICK w : w = web OBVIOUS
<1>17. w = [account |-> a, busy |-> FALSE, workflow |-> FALSE,
            hydrating |-> FALSE, entry |-> en, center |-> FALSE,
            library |-> lib, frame |-> fr, agent |-> ag, card |-> 0,
            escaped |-> FALSE, assets |-> as, stages |-> st, calls |-> {}]
  BY <1>4, <1>5, <1>6, <1>7, <1>8, <1>9, <1>10, <1>16
<1>18. w \in Pages
  BY <1>11, <1>12, <1>13, <1>14, <1>15, <1>17 DEF Pages
<1>19. /\ w.frame = fr /\ w.agent = ag /\ w.stages = st /\ w.calls = {}
  BY <1>17
<1>20. ag.session = None /\ st.shows = None /\ fr.view = "closed"
       /\ fr.task = None
  BY <1>7, <1>8, <1>10
<1>21. ShowsFit(w) BY <1>19, <1>20 DEF ShowsFit
<1>22. FlowsFit(w) /\ \A d \in w.calls : AwaitFits(w, d)
  BY <1>19 DEF FlowsFit
<1>23. FrameFits(w) BY <1>19, <1>20 DEF FrameFits
<1>24. PageFits(w) BY <1>18, <1>21, <1>22 DEF PageFits
<1>25. sessions \subseteq AgentSessions /\ IsFiniteSet(sessions)
  BY FS_EmptySet DEF WebInit
<1> QED BY <1>1, <1>3, <1>16, <1>23, <1>24, <1>25 DEF WebInv

LEMMA NextWebInv == WebInv /\ [WebNext]_webVars => WebInv'
<1> SUFFICES ASSUME WebInv, [WebNext]_webVars PROVE WebInv'
  OBVIOUS
<1>1. CASE UserActs BY <1>1, UserActsKeep
<1>2. CASE Answers BY <1>2, AnswersKeep
<1>3. CASE UNCHANGED webVars
  BY <1>3 DEF webVars, WebInv
<1> QED BY <1>1, <1>2, <1>3 DEF WebNext

LEMMA WebInvShows == WebInv => PanelsFollowSelection
<1> SUFFICES ASSUME WebInv PROVE PanelsFollowSelection
  OBVIOUS
<1>1. PICK w : w = web OBVIOUS
<1>2. PageFits(w) /\ FrameFits(w) BY <1>1 DEF WebInv
<1>3. w \in Pages BY <1>2 DEF PageFits
<1>4. /\ w.library \in LibraryPart /\ w.frame \in FramePart
      /\ w.agent \in AgentPart /\ w.assets \in AssetsPart
      /\ w.stages \in StagesPart /\ w.account \in DevAccounts
  BY <1>3 DEF Pages
<1>5. /\ w.agent.task \in Tasks \cup {None}
      /\ w.frame.task \in Tasks \cup {None}
      /\ w.frame.view \in {"closed", "overview", "assets", "planning"}
      /\ w.library.tasks \in [Tasks -> 0 .. MaxRevision]
  BY <1>4 DEF AgentPart, FramePart, LibraryPart, Chosen, Views, Listings
<1>6. \A b \in {w.busy, w.workflow, w.hydrating, w.entry, w.center,
                w.stages.busy, w.assets.busy, w.escaped} : b \in BOOLEAN
  <2>1. w.stages.busy \in BOOLEAN /\ w.assets.busy \in BOOLEAN
    BY <1>4 DEF StagesPart, AssetsPart
  <2>2. /\ w.busy \in BOOLEAN /\ w.workflow \in BOOLEAN
        /\ w.hydrating \in BOOLEAN /\ w.entry \in BOOLEAN
        /\ w.center \in BOOLEAN /\ w.escaped \in BOOLEAN
    BY <1>3 DEF Pages
  <2> QED BY <2>1, <2>2
<1>7. WebTypeOK
  BY <1>1, <1>4, <1>5, <1>6 DEF WebTypeOK, WebInv, AgentSessions
<1>8. /\ w.frame.task \in {None, w.agent.task}
      /\ w.frame.view = "planning" => w.stages.task = w.frame.task
  BY <1>2 DEF FrameFits
<1>9. ShowsFit(w) BY <1>2 DEF PageFits
<1> QED BY <1>1, <1>7, <1>8, <1>9 DEF PanelsFollowSelection, ShowsFit

LEMMA WebInvKeeps == WebInv => RunKeepsTask
<1> SUFFICES ASSUME WebInv, ~web.escaped, NEW c \in web.calls,
                    c.flow \in {"send", "execute"}
             PROVE  web.agent.task = c.task
  BY DEF RunKeepsTask, TaskIsKept
<1>1. PICK w : w = web OBVIOUS
<1>2. FlowsFit(w) /\ Held(c)
  BY <1>1 DEF WebInv, PageFits, Held
<1> QED BY <1>1, <1>2 DEF FlowsFit

\* PanelsFollowSelection for any number of accounts, tasks, sessions,
\* revisions and events.
THEOREM PanelsHold == WebSpec => []PanelsFollowSelection
<1>1. WebInit => WebInv BY InitWebInv
<1>2. WebInv /\ [WebNext]_webVars => WebInv' BY NextWebInv
<1>3. WebInv => PanelsFollowSelection BY WebInvShows
<1> QED BY <1>1, <1>2, <1>3, PTL DEF WebSpec

\* RunKeepsTask, likewise.
THEOREM RunsKeepTheirTask == WebSpec => []RunKeepsTask
<1>1. WebInit => WebInv BY InitWebInv
<1>2. WebInv /\ [WebNext]_webVars => WebInv' BY NextWebInv
<1>3. WebInv => RunKeepsTask BY WebInvKeeps
<1> QED BY <1>1, <1>2, <1>3, PTL DEF WebSpec
=============================================================================

-------------------------- MODULE WorkspaceAccess --------------------------
(***************************************************************************)
(* The administration of one tenant, and the sessions of its accounts.    *)
(*                                                                         *)
(* Brands, the versions of vehicles, the recommended assets of a vehicle  *)
(* and the access grants are one record, written by transactions of the   *)
(* administration store one at a time.  An administrator works from a     *)
(* page that shows the record as it was; a request carries the revisions  *)
(* of that page, is admitted with the grants of its session, and reaches  *)
(* the transaction later, when others have gone on.                        *)
(*                                                                         *)
(* What a fact, an asset or a style says is left out: a brand's content   *)
(* is named by its revision, a vehicle's by its version, a package's by   *)
(* the revision of the association.  A transaction validates what it is   *)
(* about to write; AdministrationIsValid says that this check never        *)
(* refuses what the operations built, so it is no guard here.             *)
(***************************************************************************)
EXTENDS Naturals, Sequences

CONSTANTS
    Admins,         \* the content administrators of the tenant
    Creators,       \* its production accounts
    BrandNames,     \* normalized names of brands
    VehicleKeys,    \* series, model year and trim, together
    VehicleIds,     \* identifiers of vehicles; generated, so in no order
    Seeds,          \* the records the tenant may begin with
    Postgres,       \* the store is PostgreSQL, which keeps a catalog as well
    MaxBrands,      \* bound: brands
    MaxVersions,    \* bound: versions of a vehicle, revisions of a package
    MaxGrants,      \* bound: access grants ever given
    MaxChanges,     \* bound: transactions, ends and switches of sessions
    NoSwitch,       \* no switch is under way
    NoRequest       \* an administrator has no request under way

ASSUME AccessAssumption ==
    /\ VehicleIds \subseteq Nat \ {0}
    /\ Postgres \in BOOLEAN
    /\ Admins \cap Creators = {}
    /\ MaxChanges \in Nat

Accounts == Admins \cup Creators

\* The vehicle of a grant that covers the whole brand
Brandwide == 0

VARIABLES
    admin,      \* the administration record the store holds
    signedIn,   \* the accounts with an active session
    switching,  \* the account whose session a switch has still to end, or NoSwitch
    page,       \* what the page of each administrator shows
    request,    \* the request each administrator has under way
    changes     \* how much of the bound is used

accessVars == <<admin, signedIn, switching, page, request, changes>>

-----------------------------------------------------------------------------
(* The record *)

Brand == [name: BrandNames, active: BOOLEAN, revision: Nat]
Vehicle == [brand: Nat, key: VehicleKeys, active: BOOLEAN]
Association == [brand: Nat, revision: Nat]
Grant == [account: Accounts, brand: Nat, vehicle: VehicleIds \cup {Brandwide},
          active: BOOLEAN, revision: Nat]

\* A vehicle without versions does not exist, an association of revision 0
\* neither
State ==
    [brands: Seq(Brand), vehicles: [VehicleIds -> Seq(Vehicle)],
     associations: [VehicleIds -> Association], grants: Seq(Grant)]

Exists(state, v) == Len(state.vehicles[v]) > 0
Latest(state, v) == state.vehicles[v][Len(state.vehicles[v])]

Holds(state, account, b, v) ==
    \E g \in DOMAIN state.grants :
        /\ state.grants[g].active
        /\ state.grants[g].account = account
        /\ state.grants[g].brand = b
        /\ state.grants[g].vehicle = v

ManagedBrands(state, account) ==
    {b \in DOMAIN state.brands : Holds(state, account, b, Brandwide)}

\* No brand has the name, except brand b
NameIsFree(state, name, b) ==
    \A o \in DOMAIN state.brands \ {b} : state.brands[o].name # name

\* No vehicle of the brand is called this today, except vehicle v
KeyIsFree(state, b, key, v) ==
    \A o \in VehicleIds \ {v} :
        Exists(state, o) => Latest(state, o).brand # b \/ Latest(state, o).key # key

\* Brands have different names, and so have the vehicles of a brand
NamesDiffer(state) ==
    /\ \A b \in DOMAIN state.brands : NameIsFree(state, state.brands[b].name, b)
    /\ \A v \in VehicleIds :
          Exists(state, v) => KeyIsFree(state, Latest(state, v).brand, Latest(state, v).key, v)

\* A vehicle belongs to one brand in all its versions, and its package too
VehiclesKeepTheirBrand(state) ==
    \A v \in VehicleIds :
        /\ \A i \in DOMAIN state.vehicles[v] :
              /\ state.vehicles[v][i].brand \in DOMAIN state.brands
              /\ state.vehicles[v][i].brand = state.vehicles[v][1].brand
        /\ state.associations[v].revision > 0 =>
              Exists(state, v) /\ state.associations[v].brand = state.vehicles[v][1].brand

\* A grant is for a brand, or for a vehicle of it and then for a creator
GrantsAreInScope(state) ==
    \A g \in DOMAIN state.grants :
        /\ state.grants[g].brand \in DOMAIN state.brands
        /\ state.grants[g].vehicle # Brandwide =>
              /\ state.grants[g].account \in Creators
              /\ Exists(state, state.grants[g].vehicle)
              /\ state.vehicles[state.grants[g].vehicle][1].brand = state.grants[g].brand

\* No two active grants give one account the same
GrantsDiffer(state) ==
    \A g, o \in DOMAIN state.grants :
        /\ g # o
        /\ state.grants[g].active /\ state.grants[o].active
        /\ state.grants[g].account = state.grants[o].account
        /\ state.grants[g].brand = state.grants[o].brand
        => state.grants[g].vehicle # state.grants[o].vehicle

\* What validateWorkspaceAdminState requires of the record, and the names the
\* operations compare besides
Valid(state) ==
    /\ NamesDiffer(state)
    /\ VehiclesKeepTheirBrand(state)
    /\ GrantsAreInScope(state)
    /\ GrantsDiffer(state)

\* The record a tenant begins with: its administrators have worked before
ASSUME SeedsAssumption == \A seed \in Seeds : seed \in State /\ Valid(seed)

\* PostgreSQL rebuilds its catalog in every transaction: version after
\* version, in the order of the vehicles, each overwrites the row of its
\* vehicle.  Two rows of one name are refused even between two of these
\* writes, and the transaction with them.
Row(old, new, v, writing) == IF v < writing THEN new[v] ELSE old[v]

Rejected(old, new) ==
    \E v \in VehicleIds : \E i \in DOMAIN new[v] : \E o \in VehicleIds \ {v} :
        LET row == Row(old, new, o, v) IN
            /\ Len(row) > 0
            /\ row[Len(row)].brand = new[v][i].brand
            /\ row[Len(row)].key = new[v][i].key

-----------------------------------------------------------------------------
(* Sessions: an account is signed in while one of its sessions is active *)

SignIn(account) ==
    /\ account \notin signedIn
    /\ signedIn' = signedIn \cup {account}
    /\ UNCHANGED <<admin, switching, page, request, changes>>

\* Its last active session is signed out, or expires
EndSession(account) ==
    /\ account \in signedIn
    /\ changes < MaxChanges
    /\ signedIn' = signedIn \ {account}
    /\ changes' = changes + 1
    /\ UNCHANGED <<admin, switching, page, request>>

\* A switch opens a session of the other account, then ends its own
Switch(account, other) ==
    /\ switching = NoSwitch
    /\ changes < MaxChanges
    /\ account \in signedIn
    /\ signedIn' = signedIn \cup {other}
    /\ switching' = account
    /\ changes' = changes + 1
    /\ UNCHANGED <<admin, page, request>>

\* That is its last active session, or another is left, or its end cannot be
\* written: then both accounts stay signed in
FinishSwitch ==
    /\ switching # NoSwitch
    /\ switching' = NoSwitch
    /\ signedIn' \in {signedIn, signedIn \ {switching}}
    /\ UNCHANGED <<admin, page, request, changes>>

-----------------------------------------------------------------------------
(* The requests of the administrators *)

LoadPage(m) ==
    /\ m \in signedIn
    /\ request[m] = NoRequest
    /\ page[m] # admin
    /\ page' = [page EXCEPT ![m] = admin]
    /\ UNCHANGED <<admin, signedIn, switching, request, changes>>

\* The session is resolved with its grants, and what the operation inspects
\* before its transaction is read: both stay as they were
Admit(m) ==
    /\ m \in signedIn
    /\ request[m] = NoRequest
    /\ request' = [request EXCEPT ![m] =
           [granted |-> ManagedBrands(admin, m),
            usable  |-> {v \in VehicleIds :
                            Exists(admin, v) /\ Latest(admin, v).active}]]
    /\ UNCHANGED <<admin, signedIn, switching, page, changes>>

Refuse(m) ==
    /\ request[m] # NoRequest
    /\ request' = [request EXCEPT ![m] = NoRequest]
    /\ UNCHANGED <<admin, signedIn, switching, page, changes>>

\* The operation runs on the record of its transaction, with the grants of
\* its session
Manages(m, b) ==
    /\ request[m] # NoRequest
    /\ b \in DOMAIN admin.brands
    /\ b \in request[m].granted

Commit(m, next) ==
    /\ ~(Postgres /\ Rejected(admin.vehicles, next.vehicles))
    /\ admin' = next
    /\ request' = [request EXCEPT ![m] = NoRequest]
    /\ changes' = changes + 1
    /\ UNCHANGED <<signedIn, switching, page>>

NewGrant(account, b, v) ==
    [account |-> account, brand |-> b, vehicle |-> v, active |-> TRUE, revision |-> 1]

\* Whoever creates a brand manages it
CreateBrand(m, name) ==
    /\ Len(admin.brands) < MaxBrands
    /\ Len(admin.grants) < MaxGrants
    /\ NameIsFree(admin, name, 0)
    /\ Commit(m, [admin EXCEPT
           !.brands = Append(@, [name |-> name, active |-> TRUE, revision |-> 1]),
           !.grants = Append(@, NewGrant(m, Len(admin.brands) + 1, Brandwide))])

\* Mutant: whatever revision the page shows
BrandKnown(m, b) == b \in DOMAIN page[m].brands

BrandAsShown(m, b) ==
    /\ b \in DOMAIN page[m].brands
    /\ page[m].brands[b].revision = admin.brands[b].revision

UpdateBrand(m, b, name, active) ==
    /\ Manages(m, b)
    /\ BrandAsShown(m, b)
    /\ NameIsFree(admin, name, b)
    /\ Commit(m, [admin EXCEPT !.brands[b] =
           [name |-> name, active |-> active, revision |-> @.revision + 1]])

CreateVehicle(m, v, b, key, active) ==
    /\ Manages(m, b)
    /\ ~Exists(admin, v)
    /\ admin.brands[b].active
    /\ KeyIsFree(admin, b, key, v)
    /\ Commit(m, [admin EXCEPT !.vehicles[v] =
           <<[brand |-> b, key |-> key, active |-> active]>>])

CreateVehicleFactVersion(m, v, key, active) ==
    LET b == Latest(admin, v).brand IN
        /\ Exists(admin, v)
        /\ Len(admin.vehicles[v]) < MaxVersions
        /\ Manages(m, b)
        /\ admin.brands[b].active
        /\ Len(page[m].vehicles[v]) = Len(admin.vehicles[v])
        /\ KeyIsFree(admin, b, key, v)
        /\ Commit(m, [admin EXCEPT !.vehicles[v] =
               Append(@, [brand |-> b, key |-> key, active |-> active])])

ReplaceVehicleAssetAssociations(m, v) ==
    LET b == Latest(admin, v).brand IN
        /\ Exists(admin, v)
        /\ admin.associations[v].revision < MaxVersions
        /\ Manages(m, b)
        /\ v \in request[m].usable
        /\ admin.brands[b].active
        /\ Latest(admin, v).active
        /\ page[m].associations[v].revision = admin.associations[v].revision
        /\ Commit(m, [admin EXCEPT !.associations[v] =
               [brand |-> b, revision |-> @.revision + 1]])

\* The scope of a grant is in use: its brand, and the vehicle it names
InUse(state, b, v) ==
    /\ state.brands[b].active
    /\ v # Brandwide =>
          Exists(state, v) /\ Latest(state, v).brand = b /\ Latest(state, v).active

CreateAccessGrant(m, account, b, v) ==
    /\ Manages(m, b)
    /\ Len(admin.grants) < MaxGrants
    /\ v # Brandwide => account \in Creators
    /\ InUse(admin, b, v)
    /\ ~Holds(admin, account, b, v)
    /\ Commit(m, [admin EXCEPT !.grants = Append(@, NewGrant(account, b, v))])

GrantAsShown(m, g) ==
    /\ g \in DOMAIN page[m].grants
    /\ page[m].grants[g].revision = admin.grants[g].revision

\* Mutant: a grant comes back without a look at the others
NeverDoubled(g) == FALSE

\* Another active grant gives the account of grant g the same
Doubled(g) ==
    \E o \in DOMAIN admin.grants \ {g} :
        /\ admin.grants[o].active
        /\ admin.grants[o].account = admin.grants[g].account
        /\ admin.grants[o].brand = admin.grants[g].brand
        /\ admin.grants[o].vehicle = admin.grants[g].vehicle

UpdateAccessGrant(m, g, active) ==
    /\ Manages(m, admin.grants[g].brand)
    /\ GrantAsShown(m, g)
    /\ active => InUse(admin, admin.grants[g].brand, admin.grants[g].vehicle)
    /\ active => ~Doubled(g)
    /\ Commit(m, [admin EXCEPT !.grants[g] =
           [account |-> @.account, brand |-> @.brand, vehicle |-> @.vehicle,
            active |-> active, revision |-> @.revision + 1]])

Administer(m) ==
    /\ request[m] # NoRequest
    /\ changes < MaxChanges
    /\ \/ \E name \in BrandNames : CreateBrand(m, name)
       \/ \E b \in DOMAIN admin.brands, name \in BrandNames, active \in BOOLEAN :
             UpdateBrand(m, b, name, active)
       \/ \E v \in VehicleIds, b \in DOMAIN admin.brands, key \in VehicleKeys, active \in BOOLEAN :
             CreateVehicle(m, v, b, key, active)
       \/ \E v \in VehicleIds, key \in VehicleKeys, active \in BOOLEAN :
             CreateVehicleFactVersion(m, v, key, active)
       \/ \E v \in VehicleIds : ReplaceVehicleAssetAssociations(m, v)
       \/ \E account \in Accounts, b \in DOMAIN admin.brands, v \in VehicleIds \cup {Brandwide} :
             CreateAccessGrant(m, account, b, v)
       \/ \E g \in DOMAIN admin.grants, active \in BOOLEAN : UpdateAccessGrant(m, g, active)

AccessInit ==
    /\ admin \in Seeds
    /\ signedIn = Accounts
    /\ switching = NoSwitch
    /\ page = [m \in Admins |-> admin]
    /\ request = [m \in Admins |-> NoRequest]
    /\ changes = 0

AccessNext ==
    \/ \E account \in Accounts : SignIn(account)
    \/ \E account \in Accounts : EndSession(account)
    \/ \E account, other \in Accounts : account # other /\ Switch(account, other)
    \/ FinishSwitch
    \/ \E m \in Admins : LoadPage(m) \/ Admit(m) \/ Refuse(m) \/ Administer(m)

AccessSpec == AccessInit /\ [][AccessNext]_accessVars
-----------------------------------------------------------------------------
(* Properties *)

TypeOK ==
    /\ admin \in State
    /\ signedIn \subseteq Accounts
    /\ switching \in Accounts \cup {NoSwitch}
    /\ page \in [Admins -> State]
    /\ request \in [Admins -> {NoRequest} \cup
                        [granted: SUBSET Nat, usable: SUBSET VehicleIds]]
    /\ changes \in 0 .. MaxChanges

\* Whatever the administrators do with pages and grants that are out of
\* date, the record stays one the store accepts.
AdministrationIsValid == Valid(admin)

\* An administrator only overwrites what the page showed: no change another
\* administrator made meanwhile, to the same brand, vehicle, package or
\* grant, is lost.
NoChangeIsLost ==
    [][\A m \in Admins : request[m] # NoRequest /\ request'[m] = NoRequest =>
        /\ \A b \in DOMAIN admin.brands :
              admin'.brands[b] # admin.brands[b] => page[m].brands[b] = admin.brands[b]
        /\ \A v \in VehicleIds :
              /\ Exists(admin, v) /\ admin'.vehicles[v] # admin.vehicles[v]
                    => page[m].vehicles[v] = admin.vehicles[v]
              /\ admin'.associations[v] # admin.associations[v]
                    => page[m].associations[v] = admin.associations[v]
        /\ \A g \in DOMAIN admin.grants :
              admin'.grants[g] # admin.grants[g] => page[m].grants[g] = admin.grants[g]
    ]_accessVars

\* The administration can go on: the catalog takes the record it holds.  It
\* does not: a name that was free when it was taken may be a former one.
CanBeWritten == ~(Postgres /\ Rejected(admin.vehicles, admin.vehicles))
=============================================================================

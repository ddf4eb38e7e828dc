---------------------------- MODULE Administration ----------------------------
(***************************************************************************)
(* What works on a collection as a whole: the role endpoints               *)
(* (modules/roles), the seeder that stores the system roles and the first  *)
(* super admin (database/seeder.js), and a client that pages through the   *)
(* list of users (GET /users, BaseRepository.paginate).                    *)
(*                                                                         *)
(* They meet in the accounts: only a super admin may write a role, the     *)
(* seeder makes one when it finds none, and whoever pages through the list *)
(* sees accounts come and go.  Registration, role changes and deletions of *)
(* accounts are one step here; Recovery and UserDirectory have their steps.*)
(***************************************************************************)
EXTENDS Naturals, FiniteSets, Pagination

CONSTANTS
  Names,        \* names of the system roles
  MaxRoles,     \* role documents ever made; bounds the run
  MaxAccounts,  \* accounts ever made; bounds the run
  Procs,        \* requests to the role endpoints in flight at once
  Seeders,      \* seeder processes
  Limit,        \* the client's page size
  Ranks,        \* roles that accounts have, "admin" and "super_admin" among them
  None,         \* "no name", "no role"
  Faults        \* "mongo" when calls to MongoDB may be rejected

RoleIds == 1 .. MaxRoles

Accounts == 1 .. MaxAccounts

ASSUME BoundsAssumption == MaxRoles \in Nat /\ MaxAccounts \in Nat \ {0}

ASSUME LimitAssumption == Limit \in Nat \ {0}

ASSUME RanksAssumption == {"employee", "admin", "super_admin"} \subseteq Ranks

ASSUME NoneIsFresh == None \notin Names \cup Ranks

ASSUME FaultsAssumption == Faults \subseteq {"mongo"}

VARIABLES
  role,     \* roles collection; name None where there is no document
  account,  \* users collection; rank None where there is no document
  h,        \* requests to the role endpoints
  seeder,   \* seeder processes
  walk,     \* the client that pages through the users; missing: accounts that
            \* have been there all the time and that it has not seen yet
  fresh,    \* history: there was no super admin or admin when all this began
  spoiled   \* history: names whose system role a request changed or deleted

vars == <<role, account, h, seeder, walk, fresh, spoiled>>

-----------------------------------------------------------------------------

NoRole == [name |-> None, system |-> FALSE, by |-> "seeder", drawn |-> FALSE]

NoAccount == [rank |-> None, default |-> FALSE, drawn |-> FALSE]

Idle == [pc |-> "idle", op |-> "none", name |-> None, id |-> 0]

Off == [pc |-> "off", todo |-> {}, lost |-> FALSE]

NoWalk == [pc |-> "idle", page |-> 1, todo |-> {}, total |-> 0, missing |-> {}]

\* In a database that is in use account 1 is the super admin.
Init ==
  /\ role = [i \in RoleIds |-> NoRole]
  /\ fresh \in BOOLEAN
  /\ account = [a \in Accounts |->
       IF a = 1 /\ ~fresh THEN [rank |-> "super_admin", default |-> FALSE, drawn |-> TRUE]
       ELSE NoAccount]
  /\ h = [p \in Procs |-> Idle]
  /\ seeder = [s \in Seeders |-> Off]
  /\ walk = NoWalk
  /\ spoiled = {}

\* MongoDB hands out _ids in order, and none twice.
NextRoleId(i) == ~role[i].drawn /\ \A j \in RoleIds : j < i => role[j].drawn

NextAccount(a) == ~account[a].drawn /\ \A b \in Accounts : b < a => account[b].drawn

Named(n) == {i \in RoleIds : role[i].name = n}

Ranked(ranks) == {a \in Accounts : account[a].rank \in ranks}

Present == Ranked(Ranks)

-----------------------------------------------------------------------------
(* role.service.js *)

Become(p, r) == h' = [h EXCEPT ![p] = r]

\* authenticate has read a super admin; the handler looks the role up next, by
\* name or by _id.
Call(p, o, n, i) ==
  /\ h[p].pc = "idle"
  /\ Ranked({"super_admin"}) # {}
  /\ IF o = "createRole" THEN i = 0 ELSE i # 0 /\ role[i].drawn /\ n = None
  /\ Become(p, [pc |-> "find", op |-> o, name |-> n, id |-> i])
  /\ UNCHANGED <<role, account, seeder, walk, fresh, spoiled>>

\* Mutant: updateRole and deleteRole do not look at isSystem.
FindRegardless(p) ==
  /\ h[p].pc = "find"
  /\ LET found == IF h[p].op = "createRole" THEN Named(h[p].name) = {}
                  ELSE role[h[p].id].name # None
     IN Become(p, IF found THEN [h[p] EXCEPT !.pc = "write"] ELSE Idle)
  /\ UNCHANGED <<role, account, seeder, walk, fresh, spoiled>>

\* createRole refuses a name that is there (409); updateRole and deleteRole a
\* role that is not (404) or that is a system role (403).
Find(p) ==
  LET i == h[p].id
      mayWrite == IF h[p].op = "createRole" THEN Named(h[p].name) = {}
                  ELSE role[i].name # None /\ ~role[i].system
  IN
  /\ h[p].pc = "find"
  /\ Become(p, IF mayWrite THEN [h[p] EXCEPT !.pc = "write"] ELSE Idle)
  /\ UNCHANGED <<role, account, seeder, walk, fresh, spoiled>>

ClientRole(n) ==
  [name |-> n, system |-> FALSE, by |-> "client", drawn |-> TRUE]

\* Mutant: no unique index on name.
CreateRoleUnindexed(p, i) ==
  /\ h[p].pc = "write" /\ h[p].op = "createRole"
  /\ NextRoleId(i)
  /\ role' = [role EXCEPT ![i] = ClientRole(h[p].name)]
  /\ Become(p, Idle)
  /\ UNCHANGED <<account, seeder, walk, fresh, spoiled>>

\* The unique index refuses a name that was taken since (409).
CreateRole(p, i) ==
  /\ h[p].pc = "write" /\ h[p].op = "createRole"
  /\ NextRoleId(i)
  /\ role' = IF Named(h[p].name) = {} THEN [role EXCEPT ![i] = ClientRole(h[p].name)]
             ELSE role
  /\ Become(p, Idle)
  /\ UNCHANGED <<account, seeder, walk, fresh, spoiled>>

\* A request writes role i: history.
Spoil(i) == spoiled' = IF role[i].system THEN spoiled \cup {role[i].name} ELSE spoiled

\* findByIdAndUpdate, whatever the role has become since; gone is a 404.  Which
\* fields the body sets (never name or isSystem) is not told apart.
UpdateRole(p) ==
  LET i == h[p].id IN
  /\ h[p].pc = "write" /\ h[p].op = "updateRole"
  /\ IF role[i].name # None
     THEN /\ role' = [role EXCEPT ![i].by = "client"]
          /\ Spoil(i)
     ELSE UNCHANGED <<role, spoiled>>
  /\ Become(p, Idle)
  /\ UNCHANGED <<account, seeder, walk, fresh>>

DeleteRole(p) ==
  LET i == h[p].id IN
  /\ h[p].pc = "write" /\ h[p].op = "deleteRole"
  /\ IF role[i].name # None
     THEN role' = [role EXCEPT ![i] = [NoRole EXCEPT !.drawn = TRUE]] /\ Spoil(i)
     ELSE UNCHANGED <<role, spoiled>>
  /\ Become(p, Idle)
  /\ UNCHANGED <<account, seeder, walk, fresh>>

\* A call rejects: 500.
RequestFails(p) ==
  /\ "mongo" \in Faults /\ h[p].pc # "idle"
  /\ Become(p, Idle)
  /\ UNCHANGED <<role, account, seeder, walk, fresh, spoiled>>

-----------------------------------------------------------------------------
(* seeder.js *)

\* npm run migrate:seed, for the first time or again: all upserts are sent.
StartSeeder(s) ==
  /\ seeder[s].pc \in {"off", "done", "failed"}
  /\ seeder' = [seeder EXCEPT ![s] = [pc |-> "roles", todo |-> Names, lost |-> FALSE]]
  /\ UNCHANGED <<role, account, h, walk, fresh, spoiled>>

SystemRole(n) ==
  [name |-> n, system |-> TRUE, by |-> "seeder", drawn |-> TRUE]

\* Mutant: the seeder stores only the roles that are missing.
UpsertMissing(s, n) ==
  /\ seeder[s].pc \in {"roles", "failed"} /\ n \in seeder[s].todo
  /\ IF Named(n) = {}
     THEN \E i \in RoleIds : NextRoleId(i) /\ role' = [role EXCEPT ![i] = SystemRole(n)]
     ELSE UNCHANGED role
  /\ seeder' = [seeder EXCEPT ![s].todo = @ \ {n}]
  /\ UNCHANGED <<account, h, walk, fresh, spoiled>>

\* findOneAndUpdate with upsert, in any order.
\* A seeder that exits leaves behind what it has sent.
Upsert(s, n) ==
  /\ seeder[s].pc \in {"roles", "failed"} /\ n \in seeder[s].todo
  /\ IF Named(n) = {}
     THEN \E i \in RoleIds : NextRoleId(i) /\ role' = [role EXCEPT ![i] = SystemRole(n)]
     ELSE role' = [i \in RoleIds |->
            IF role[i].name = n THEN [role[i] EXCEPT !.system = TRUE, !.by = "seeder"]
            ELSE role[i]]
  /\ seeder' = [seeder EXCEPT ![s].todo = @ \ {n}]
  /\ UNCHANGED <<account, h, walk, fresh, spoiled>>

\* Mutant: the upserts are not awaited.
LookForSuperAdminEarly(s) ==
  /\ seeder[s].pc = "roles"
  /\ seeder' = [seeder EXCEPT ![s].pc =
       IF Ranked({"super_admin"}) = {} THEN "create" ELSE "done"]
  /\ UNCHANGED <<role, account, h, walk, fresh, spoiled>>

\* All roles are stored; User.findOne({ role: 'super_admin' }).
LookForSuperAdmin(s) ==
  /\ seeder[s].pc = "roles" /\ seeder[s].todo = {}
  /\ seeder' = [seeder EXCEPT ![s].pc =
       IF Ranked({"super_admin"}) = {} THEN "create" ELSE "done"]
  /\ UNCHANGED <<role, account, h, walk, fresh, spoiled>>

-----------------------------------------------------------------------------
(* The accounts, and what the client that walks through them misses *)

Position(a) == Cardinality({b \in Present : b >= a})

\* Positions that the client has been given: the pages before, and this one
\* once it is read.
Given == (walk.page - 1) * Limit + (IF "find" \in walk.todo THEN 0 ELSE Limit)

\* A new account goes to the front of the list.  When one comes between the
\* count and the page the client may stop too early: it is followed no further.
Arrival == walk' = IF walk.todo = {"find"} THEN NoWalk ELSE walk

\* An account leaves and those behind it move up, perhaps into the pages that the
\* client has been given: then it is followed no further.
Departure(a) ==
  walk' = IF walk.pc = "ask" /\ Position(a) <= Given THEN NoWalk
          ELSE [walk EXCEPT !.missing = @ \ {a}]

\* History: a seeder's super admin was there, and is no more.
Loses(a) ==
  seeder' = [s \in Seeders |->
    IF account[a].rank = "super_admin" /\ seeder[s].pc = "done"
    THEN [seeder[s] EXCEPT !.lost = TRUE] ELSE seeder[s]]

\* Mutant: the seeder takes a taken address for its own super admin.
CreateSuperAdminUnlessTaken(s, a) ==
  /\ seeder[s].pc = "create"
  /\ NextAccount(a)
  /\ IF \E b \in Accounts : account[b].default
     THEN UNCHANGED <<account, walk>>
     ELSE /\ account' = [account EXCEPT ![a] =
               [rank |-> "super_admin", default |-> TRUE, drawn |-> TRUE]]
          /\ Arrival
  /\ seeder' = [seeder EXCEPT ![s].pc = "done"]
  /\ UNCHANGED <<role, h, fresh, spoiled>>

\* The unique index on email lets one account have the default address: the
\* seeder exits with an error when that is taken.
CreateSuperAdmin(s, a) ==
  /\ seeder[s].pc = "create"
  /\ NextAccount(a)
  /\ IF \E b \in Accounts : account[b].default
     THEN /\ seeder' = [seeder EXCEPT ![s].pc = "failed"]
          /\ UNCHANGED <<account, walk>>
     ELSE /\ account' = [account EXCEPT ![a] =
               [rank |-> "super_admin", default |-> TRUE, drawn |-> TRUE]]
          /\ seeder' = [seeder EXCEPT ![s].pc = "done"]
          /\ Arrival
  /\ UNCHANGED <<role, h, fresh, spoiled>>

SeederFails(s) ==
  /\ "mongo" \in Faults
  /\ seeder[s].pc \in {"roles", "create"}
  /\ seeder' = [seeder EXCEPT ![s].pc = "failed"]
  /\ UNCHANGED <<role, account, h, walk, fresh, spoiled>>

\* register: anybody, with any address.
Register(a, default) ==
  /\ NextAccount(a)
  /\ default => ~\E b \in Accounts : account[b].default
  /\ account' = [account EXCEPT ![a] =
       [rank |-> "employee", default |-> default, drawn |-> TRUE]]
  /\ Arrival
  /\ UNCHANGED <<role, h, seeder, fresh, spoiled>>

\* PATCH /users/:id/role
UpdateUserRole(a, r) ==
  /\ Ranked({"admin", "super_admin"}) # {}
  /\ a \in Present
  /\ account' = [account EXCEPT ![a].rank = r]
  /\ IF r = "super_admin" THEN UNCHANGED seeder ELSE Loses(a)
  /\ UNCHANGED <<role, h, walk, fresh, spoiled>>

\* DELETE /users/:id
DeleteUser(a) ==
  /\ Ranked({"super_admin"}) # {}
  /\ a \in Present
  /\ account' = [account EXCEPT ![a] = [NoAccount EXCEPT !.drawn = TRUE]]
  /\ Loses(a) /\ Departure(a)
  /\ UNCHANGED <<role, h, fresh, spoiled>>

-----------------------------------------------------------------------------
(* GET /users?page=1, 2, ... while hasNextPage, newest accounts first *)

Queries == {"find", "count"}

\* Mutant: pages are numbered from 0.
PageZero == 0

FirstPage == 1

StartWalk ==
  /\ walk.pc = "idle"
  /\ Present # {}
  /\ walk' = [NoWalk EXCEPT !.pc = "ask", !.page = FirstPage, !.todo = Queries,
                              !.missing = Present]
  /\ UNCHANGED <<role, account, h, seeder, fresh, spoiled>>

\* Mutant: skip is page * limit.
FindPageSkippingOne ==
  /\ walk.pc = "ask" /\ "find" \in walk.todo
  /\ walk' = [walk EXCEPT !.todo = @ \ {"find"},
       !.missing = {a \in @ : ~OnPage(Position(a), walk.page + 1, Limit)}]
  /\ UNCHANGED <<role, account, h, seeder, fresh, spoiled>>

\* The two queries of a page run side by side.
FindPage ==
  /\ walk.pc = "ask" /\ "find" \in walk.todo
  /\ walk' = [walk EXCEPT !.todo = @ \ {"find"},
       !.missing = {a \in @ : ~OnPage(Position(a), walk.page, Limit)}]
  /\ UNCHANGED <<role, account, h, seeder, fresh, spoiled>>

CountUsers ==
  /\ walk.pc = "ask" /\ "count" \in walk.todo
  /\ walk' = [walk EXCEPT !.todo = @ \ {"count"}, !.total = Cardinality(Present)]
  /\ UNCHANGED <<role, account, h, seeder, fresh, spoiled>>

\* The page is answered, and the client goes on if there is another.
AnswerPage ==
  /\ walk.pc = "ask" /\ walk.todo = {}
  /\ walk' = IF BuildPaginationMeta(walk.total, walk.page, Limit).hasNextPage
             THEN [walk EXCEPT !.page = @ + 1, !.todo = Queries, !.total = 0]
             ELSE [walk EXCEPT !.pc = "ended"]
  /\ UNCHANGED <<role, account, h, seeder, fresh, spoiled>>

EndWalk ==
  /\ walk.pc = "ended"
  /\ walk' = NoWalk
  /\ UNCHANGED <<role, account, h, seeder, fresh, spoiled>>

-----------------------------------------------------------------------------

HandlerStep(p) ==
  \/ Find(p) \/ UpdateRole(p) \/ DeleteRole(p)
  \/ \E i \in RoleIds : CreateRole(p, i)

SeederStep(s) ==
  \/ \E n \in Names : Upsert(s, n)
  \/ LookForSuperAdmin(s)
  \/ \E a \in Accounts : CreateSuperAdmin(s, a)

Page == FindPage \/ CountUsers \/ AnswerPage

Next ==
  \/ \E p \in Procs :
       \/ \E n \in Names : Call(p, "createRole", n, 0)
       \/ \E i \in RoleIds : Call(p, "updateRole", None, i) \/ Call(p, "deleteRole", None, i)
       \/ HandlerStep(p) \/ RequestFails(p)
  \/ \E s \in Seeders : StartSeeder(s) \/ SeederStep(s) \/ SeederFails(s)
  \/ \E a \in Accounts :
       \/ \E default \in BOOLEAN : Register(a, default)
       \/ \E r \in Ranks : UpdateUserRole(a, r)
       \/ DeleteUser(a)
  \/ StartWalk \/ Page \/ EndWalk

Spec == Init /\ [][Next]_vars

-----------------------------------------------------------------------------
(* Properties *)

Roles == [name : Names \cup {None}, system : BOOLEAN, by : {"seeder", "client"},
          drawn : BOOLEAN]

Users == [rank : Ranks \cup {None}, default : BOOLEAN, drawn : BOOLEAN]

Requests == [pc : {"idle", "find", "write"},
             op : {"none", "createRole", "updateRole", "deleteRole"},
             name : Names \cup {None}, id : {0} \cup RoleIds]

Seedings == [pc : {"off", "roles", "create", "done", "failed"}, todo : SUBSET Names,
             lost : BOOLEAN]

Walks == [pc : {"idle", "ask", "ended"}, page : Nat \ {0}, todo : SUBSET Queries,
          total : Nat, missing : SUBSET Accounts]

TypeOK ==
  /\ role \in [RoleIds -> Roles]
  /\ account \in [Accounts -> Users]
  /\ h \in [Procs -> Requests]
  /\ seeder \in [Seeders -> Seedings]
  /\ walk \in Walks
  /\ fresh \in BOOLEAN
  /\ spoiled \in SUBSET Names

\* createRole and the seeder look before they insert: whoever comes second, the
\* index leaves one document for a name.
OneRolePerName ==
  \A i, j \in RoleIds : role[i].name # None /\ role[i].name = role[j].name => i = j

\* In a database that began without an admin nobody gets at the roles before
\* they are system roles: the seeder stores them first and the super admin
\* last, and only he can call the endpoints.
FreshRolesAreSystem ==
  fresh => /\ spoiled = {}
           /\ \A i \in RoleIds : role[i].name # None => role[i].system /\ role[i].by = "seeder"

HasSystemRole(n) == \E i \in Named(n) : role[i].system

Seeded(s) == seeder[s].pc \in {"create", "done"}

\* A seeder that has got past the roles has made each of them a system role,
\* and it still is one unless a request that had read it before has spoiled it.
SeededRolesStay ==
  (\E s \in Seeders : Seeded(s)) => \A n \in Names : HasSystemRole(n) \/ n \in spoiled

\* A seeder that ends well leaves a super admin, who is there until somebody
\* deletes or demotes one.
SeededSuperAdmin ==
  \A s \in Seeders :
    seeder[s].pc = "done" => Ranked({"super_admin"}) # {} \/ seeder[s].lost

\* No request in flight has seen role i as one that may be written.
Unwatched(i) == \A p \in Procs : h[p].pc = "write" => h[p].id # i

Frozen(i) == role[i].system /\ role[i].by = "seeder" /\ Unwatched(i)

\* Once the seeder has taken a role and the requests that had read it before
\* have ended, nothing changes or removes it any more.
SystemRolesFreeze == [][\A i \in RoleIds : Frozen(i) => Frozen(i)' /\ role'[i] = role[i]]_vars

\* A client that follows hasNextPage to the end has seen every account that was
\* there all the time, unless one in the pages it had was deleted, or one was
\* registered after the count of a page and before the page.
WalkSeesAll == walk.pc = "ended" => walk.missing = {}

\* Accounts that are there or have been.
Registered == {a \in Accounts : account[a].drawn}

\* Nor is it led on for ever: however accounts come and go, it asks for no page
\* that starts behind all who have ever been registered.
WalkComesToEnd ==
  /\ walk.total <= Cardinality(Registered)
  /\ walk.page = 1 \/ Skip(walk.page, Limit) < Cardinality(Registered)

=============================================================================

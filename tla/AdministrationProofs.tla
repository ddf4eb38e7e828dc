-------------------------- MODULE AdministrationProofs --------------------------
(***************************************************************************)
(* The invariants of Administration for any number of roles, accounts,     *)
(* requests and seeders, any page size, and rejected calls.                *)
(***************************************************************************)
EXTENDS Administration, FiniteSetTheorems, TLAPS

-----------------------------------------------------------------------------
(* The inductive invariant *)

\* A request names the role it is about.
RequestsInv ==
  \A p \in Procs : h[p].pc # "idle" =>
    /\ h[p].op # "none"
    /\ h[p].op = "createRole" => h[p].name \in Names /\ h[p].id = 0
    /\ h[p].op # "createRole" => h[p].id \in RoleIds

\* Documents have an _id that was handed out.
DrawnInv ==
  /\ \A i \in RoleIds : /\ role[i].name # None => role[i].drawn
                        /\ role[i].system => role[i].name # None
  /\ \A a \in Accounts : account[a].rank # None => account[a].drawn

\* What a seeder has stored is there, or spoiled.
SeedInv ==
  \A s \in Seeders :
    /\ Seeded(s) => seeder[s].todo = {}
    /\ \A n \in Names : seeder[s].pc # "off" /\ n \notin seeder[s].todo =>
         HasSystemRole(n) \/ n \in spoiled

Admins == Ranked({"admin", "super_admin"})

\* Nobody who may call the role endpoints comes before the roles, and after them
\* no call gets as far as to write.
FreshInv ==
  fresh => /\ spoiled = {}
           /\ \A i \in RoleIds : role[i].name # None => role[i].system /\ role[i].by = "seeder"
           /\ \A p \in Procs : h[p].pc # "write"
           /\ Admins # {} \/ (\E p \in Procs : h[p].pc # "idle") =>
                \A n \in Names : HasSystemRole(n)

\* The accounts that the client has missed so far are on pages to come, and the
\* count does not let it stop before them.
WalkInv ==
  /\ walk.pc # "ask" => walk.todo = {}
  /\ walk.pc = "ended" => walk.missing = {}
  /\ walk.pc = "ask" =>
       /\ \A a \in walk.missing : a \in Present /\ Position(a) > Given
       /\ walk.todo = {"find"} => \A a \in walk.missing : Position(a) <= walk.total
       /\ walk.todo = {} /\ walk.total <= walk.page * Limit => walk.missing = {}

AdminInv ==
  /\ TypeOK
  /\ RequestsInv /\ DrawnInv /\ OneRolePerName
  /\ SeedInv /\ FreshInv /\ SeededSuperAdmin /\ WalkInv

-----------------------------------------------------------------------------
(* Types *)

Handlers == [Procs -> Requests]

\* Every request but p stays as it was.
Others(p) == \A q \in Procs \ {p} : h'[q] = h[q]

LEMMA BecomeFacts ==
  ASSUME h \in Handlers, NEW p \in Procs, NEW r \in Requests, Become(p, r)
  PROVE  h' \in Handlers /\ h'[p] = r /\ Others(p)
  BY DEF Become, Handlers, Others

LEMMA IdleFacts ==
  ASSUME h \in Handlers, NEW p \in Procs, Become(p, Idle)
  PROVE  h' \in Handlers /\ h'[p].pc = "idle" /\ Others(p)
<1>1. Idle \in Requests /\ Idle.pc = "idle"
  BY DEF Idle, Requests
<1> QED
  BY <1>1, BecomeFacts

\* What a role request does to itself, whatever it does to the roles.
LEMMA FindFacts ==
  ASSUME TypeOK, NEW p \in Procs, Find(p)
  PROVE  /\ h' \in Handlers /\ Others(p)
         /\ \/ h'[p].pc = "idle"
            \/ /\ h'[p].pc = "write" /\ h'[p].op = h[p].op
               /\ h'[p].name = h[p].name /\ h'[p].id = h[p].id
               /\ IF h[p].op = "createRole" THEN Named(h[p].name) = {}
                  ELSE role[h[p].id].name # None /\ ~role[h[p].id].system
<1>1. h \in Handlers /\ h[p] \in Requests
  BY DEF TypeOK, Handlers
<1> DEFINE r == [h[p] EXCEPT !.pc = "write"]
<1>2. /\ r \in Requests /\ r.pc = "write" /\ r.op = h[p].op
      /\ r.name = h[p].name /\ r.id = h[p].id
  BY <1>1 DEF Requests
<1> HIDE DEF r
<1>3. \/ Become(p, Idle)
      \/ /\ Become(p, r)
         /\ IF h[p].op = "createRole" THEN Named(h[p].name) = {}
            ELSE role[h[p].id].name # None /\ ~role[h[p].id].system
  BY DEF Find, r
<1> QED
  BY <1>1, <1>2, <1>3, BecomeFacts, IdleFacts

LEMMA CallFacts ==
  ASSUME TypeOK, NEW p \in Procs, NEW o \in {"createRole", "updateRole", "deleteRole"},
         NEW n \in Names \cup {None}, NEW i \in {0} \cup RoleIds,
         Call(p, o, n, i), o = "createRole" => n \in Names
  PROVE  /\ h' \in Handlers /\ Others(p) /\ h'[p].pc = "find" /\ h'[p].op = o
         /\ o = "createRole" => h'[p].name \in Names /\ h'[p].id = 0
         /\ o # "createRole" => h'[p].id \in RoleIds
<1> DEFINE r == [pc |-> "find", op |-> o, name |-> n, id |-> i]
<1>1. r \in Requests /\ r.pc = "find" /\ r.op = o /\ r.name = n /\ r.id = i
  BY DEF Requests
<1> HIDE DEF r
<1>2. Become(p, r) /\ h \in Handlers
  BY DEF Call, TypeOK, Handlers, r
<1>3. IF o = "createRole" THEN i = 0 ELSE i # 0
  BY DEF Call
<1> QED
  BY <1>1, <1>2, <1>3, BecomeFacts

-----------------------------------------------------------------------------
(* What each step does to the roles, role by role *)

Collection == [RoleIds -> Roles]

NewRole(i, d) ==
  /\ role' \in Collection
  /\ ~role[i].drawn /\ role'[i] = d
  /\ \A j \in RoleIds \ {i} : role'[j] = role[j]

LEMMA NewRoleFacts ==
  ASSUME TypeOK, NEW i \in RoleIds, NEW d \in Roles, NextRoleId(i),
         role' = [role EXCEPT ![i] = d]
  PROVE  NewRole(i, d)
  BY DEF TypeOK, NewRole, Collection, NextRoleId

LEMMA RoleTypes ==
  ASSUME NEW n \in Names
  PROVE  /\ ClientRole(n) \in Roles /\ ClientRole(n).name = n
         /\ ~ClientRole(n).system /\ ClientRole(n).drawn
         /\ SystemRole(n) \in Roles /\ SystemRole(n).name = n /\ SystemRole(n).system
         /\ SystemRole(n).by = "seeder" /\ SystemRole(n).drawn
         /\ n # None
  BY NoneIsFresh DEF ClientRole, SystemRole, Roles

LEMMA UpdateRoleFacts ==
  ASSUME TypeOK, NEW p \in Procs, h[p].id \in RoleIds,
         role' = [role EXCEPT ![h[p].id].by = "client"]
  PROVE  /\ role' \in Collection
         /\ \A j \in RoleIds \ {h[p].id} : role'[j] = role[j]
         /\ \A j \in RoleIds : /\ role'[j].name = role[j].name
                               /\ role'[j].system = role[j].system
                               /\ role'[j].drawn = role[j].drawn
<1>1. PICK i : i = h[p].id
  OBVIOUS
<1>2. i \in RoleIds /\ role[i] \in Roles
  BY <1>1 DEF TypeOK
<1> DEFINE d == [role[i] EXCEPT !.by = "client"]
<1>3. /\ d \in Roles /\ d.name = role[i].name /\ d.system = role[i].system
      /\ d.drawn = role[i].drawn
  BY <1>2 DEF Roles
<1>4. role' = [role EXCEPT ![i] = d]
  BY <1>1, <1>2 DEF TypeOK
<1> HIDE DEF d
<1> QED
  BY <1>1, <1>2, <1>3, <1>4 DEF TypeOK, Collection

LEMMA DeleteRoleFacts ==
  ASSUME TypeOK, NEW i \in RoleIds,
         role' = [role EXCEPT ![i] = [NoRole EXCEPT !.drawn = TRUE]]
  PROVE  /\ role' \in Collection
         /\ role'[i].name = None /\ ~role'[i].system /\ role'[i].drawn
         /\ \A j \in RoleIds \ {i} : role'[j] = role[j]
<1> DEFINE d == [NoRole EXCEPT !.drawn = TRUE]
<1>1. d \in Roles /\ d.name = None /\ ~d.system /\ d.drawn
  BY DEF NoRole, Roles
<1> HIDE DEF d
<1>2. role' = [role EXCEPT ![i] = d]
  BY DEF d
<1> QED
  BY <1>1, <1>2 DEF TypeOK, Collection

\* The seeder's update of role n.
Overwrite(n) ==
  /\ role' \in Collection
  /\ \A i \in RoleIds :
       /\ role'[i].name = role[i].name /\ role'[i].drawn = role[i].drawn
       /\ role[i].name = n => role'[i].system /\ role'[i].by = "seeder"
       /\ role[i].name # n \/ (role[i].system /\ role[i].by = "seeder") => role'[i] = role[i]

LEMMA OverwriteFacts ==
  ASSUME TypeOK, NEW n \in Names,
         role' = [i \in RoleIds |->
            IF role[i].name = n THEN [role[i] EXCEPT !.system = TRUE, !.by = "seeder"]
            ELSE role[i]]
  PROVE  Overwrite(n)
<1>1. ASSUME NEW i \in RoleIds
      PROVE  /\ role'[i] \in Roles /\ role'[i].name = role[i].name
             /\ role'[i].drawn = role[i].drawn
             /\ role[i].name = n => role'[i].system /\ role'[i].by = "seeder"
             /\ role[i].name # n \/ (role[i].system /\ role[i].by = "seeder") =>
                  role'[i] = role[i]
  <2>1. role[i] \in Roles
    BY DEF TypeOK
  <2> DEFINE d == [role[i] EXCEPT !.system = TRUE, !.by = "seeder"]
  <2>2. /\ d \in Roles /\ d.name = role[i].name /\ d.drawn = role[i].drawn
        /\ d.system = TRUE /\ d.by = "seeder"
    BY <2>1 DEF Roles
  <2>3. role[i].system /\ role[i].by = "seeder" => d = role[i]
    BY <2>1 DEF Roles
  <2> HIDE DEF d
  <2>4. role'[i] = IF role[i].name = n THEN d ELSE role[i]
    BY DEF d
  <2> QED
    BY <2>1, <2>2, <2>3, <2>4
<1>2. role' = [i \in RoleIds |-> role'[i]]
  OBVIOUS
<1> QED
  BY <1>1, <1>2 DEF Overwrite, Collection

-----------------------------------------------------------------------------
(* Parts that a step leaves alone *)

LEMMA WalkSame ==
  ASSUME WalkInv, UNCHANGED <<walk, account>>
  PROVE  WalkInv'
  BY DEF WalkInv, Given, Position, Present, Ranked

LEMMA SuperSame ==
  ASSUME SeededSuperAdmin, UNCHANGED <<account, seeder>>
  PROVE  SeededSuperAdmin'
  BY DEF SeededSuperAdmin, Ranked

LEMMA RolesSame ==
  ASSUME UNCHANGED role
  PROVE  /\ OneRolePerName => OneRolePerName'
         /\ \A n : HasSystemRole(n)' <=> HasSystemRole(n)
         /\ \A n : Named(n)' = Named(n)
  BY DEF OneRolePerName, HasSystemRole, Named

\* A request that writes nothing.
LEMMA QuietRequest ==
  ASSUME AdminInv, NEW p \in Procs, h' \in Handlers, Others(p),
         UNCHANGED <<role, account, seeder, walk, fresh, spoiled>>,
         h'[p].pc # "idle" =>
           /\ h'[p].op # "none"
           /\ h'[p].op = "createRole" => h'[p].name \in Names /\ h'[p].id = 0
           /\ h'[p].op # "createRole" => h'[p].id \in RoleIds,
         fresh => /\ h'[p].pc # "write"
                  /\ h'[p].pc # "idle" => \A n \in Names : HasSystemRole(n)
  PROVE  AdminInv'
<1>1. TypeOK'
  BY DEF AdminInv, TypeOK, Handlers
<1>2. RequestsInv' /\ DrawnInv'
  BY DEF AdminInv, RequestsInv, DrawnInv, Others
<1>3. OneRolePerName' /\ \A n : HasSystemRole(n)' <=> HasSystemRole(n)
  BY RolesSame DEF AdminInv
<1>4. SeedInv'
  BY <1>3 DEF AdminInv, SeedInv, Seeded
<1>5. FreshInv'
  <2>1. Admins' = Admins
    BY DEF Admins, Ranked
  <2>2. FreshInv
    BY DEF AdminInv
  <2>3. SUFFICES ASSUME fresh
                 PROVE  /\ \A q \in Procs : h'[q].pc # "write"
                        /\ Admins # {} \/ (\E q \in Procs : h'[q].pc # "idle") =>
                             \A n \in Names : HasSystemRole(n)
    BY <1>3, <2>1, <2>2 DEF FreshInv
  <2>4. \A q \in Procs : h'[q].pc # "write"
    BY <2>2, <2>3 DEF FreshInv, Others
  <2>5. ASSUME NEW q \in Procs, h'[q].pc # "idle" PROVE \A n \in Names : HasSystemRole(n)
    BY <2>2, <2>3, <2>5 DEF FreshInv, Others
  <2> QED
    BY <2>2, <2>3, <2>4, <2>5 DEF FreshInv
<1>6. SeededSuperAdmin' /\ WalkInv'
  BY WalkSame, SuperSame DEF AdminInv
<1> QED
  BY <1>1, <1>2, <1>3, <1>4, <1>5, <1>6 DEF AdminInv

LEMMA CallInv ==
  ASSUME AdminInv, NEW p \in Procs, NEW o \in {"createRole", "updateRole", "deleteRole"},
         NEW n \in Names \cup {None}, NEW i \in {0} \cup RoleIds,
         Call(p, o, n, i), o = "createRole" => n \in Names
  PROVE  AdminInv'
<1>1. /\ h' \in Handlers /\ Others(p) /\ h'[p].pc = "find" /\ h'[p].op = o
      /\ o = "createRole" => h'[p].name \in Names /\ h'[p].id = 0
      /\ o # "createRole" => h'[p].id \in RoleIds
  BY CallFacts DEF AdminInv
<1>2. UNCHANGED <<role, account, seeder, walk, fresh, spoiled>>
  BY DEF Call
<1>3. fresh => \A m \in Names : HasSystemRole(m)
  <2>1. Admins # {}
    BY DEF Call, Admins, Ranked
  <2> QED
    BY <2>1 DEF AdminInv, FreshInv
<1> QED
  BY <1>1, <1>2, <1>3, QuietRequest

LEMMA FindInv ==
  ASSUME AdminInv, NEW p \in Procs, Find(p)
  PROVE  AdminInv'
<1>1. /\ h' \in Handlers /\ Others(p)
      /\ \/ h'[p].pc = "idle"
         \/ /\ h'[p].pc = "write" /\ h'[p].op = h[p].op
            /\ h'[p].name = h[p].name /\ h'[p].id = h[p].id
            /\ IF h[p].op = "createRole" THEN Named(h[p].name) = {}
               ELSE role[h[p].id].name # None /\ ~role[h[p].id].system
  BY FindFacts DEF AdminInv
<1>2. h[p].pc = "find" /\ UNCHANGED <<role, account, seeder, walk, fresh, spoiled>>
  BY DEF Find
<1>3. /\ h[p].op # "none"
      /\ h[p].op = "createRole" => h[p].name \in Names /\ h[p].id = 0
      /\ h[p].op # "createRole" => h[p].id \in RoleIds
  BY <1>2 DEF AdminInv, RequestsInv
<1>4. fresh => h'[p].pc = "idle"
  <2>1. SUFFICES ASSUME fresh, h'[p].pc # "idle" PROVE FALSE
    OBVIOUS
  <2>2. \A n \in Names : HasSystemRole(n)
    BY <1>2, <2>1 DEF AdminInv, FreshInv
  <2>3. \A i \in RoleIds : role[i].name # None => role[i].system
    BY <2>1 DEF AdminInv, FreshInv
  <2> QED
    BY <1>1, <1>3, <2>1, <2>2, <2>3 DEF HasSystemRole
<1> QED
  BY <1>1, <1>2, <1>3, <1>4, QuietRequest

LEMMA RequestFailsInv ==
  ASSUME AdminInv, NEW p \in Procs, Become(p, Idle),
         UNCHANGED <<role, account, seeder, walk, fresh, spoiled>>
  PROVE  AdminInv'
<1>1. h' \in Handlers /\ h'[p].pc = "idle" /\ Others(p)
  BY IdleFacts DEF AdminInv, TypeOK, Handlers
<1> QED
  BY <1>1, QuietRequest

-----------------------------------------------------------------------------
(* The writes of the role endpoints *)

\* A write ends its request; the system roles it takes are spoiled, and it makes
\* none.
LEMMA WriteInv ==
  ASSUME AdminInv, NEW p \in Procs, h[p].pc = "write", Become(p, Idle),
         UNCHANGED <<account, seeder, walk, fresh>>,
         role' \in Collection, OneRolePerName', DrawnInv',
         spoiled' \in SUBSET Names, spoiled \subseteq spoiled',
         \A n \in Names : HasSystemRole(n) => HasSystemRole(n)' \/ n \in spoiled'
  PROVE  AdminInv'
<1>1. h' \in Handlers /\ h'[p].pc = "idle" /\ Others(p)
  BY IdleFacts DEF AdminInv, TypeOK, Handlers
<1>2. TypeOK'
  BY <1>1 DEF AdminInv, TypeOK, Handlers, Collection
<1>3. RequestsInv'
  BY <1>1 DEF AdminInv, RequestsInv, Others
<1>4. SeedInv'
  <2>1. SeedInv
    BY DEF AdminInv
  <2>2. \A n \in Names : HasSystemRole(n) \/ n \in spoiled => HasSystemRole(n)' \/ n \in spoiled'
    OBVIOUS
  <2> QED
    BY <2>1, <2>2 DEF SeedInv, Seeded
<1>5. ~fresh
  BY DEF AdminInv, FreshInv
<1>6. FreshInv'
  BY <1>5 DEF FreshInv
<1>7. SeededSuperAdmin' /\ WalkInv'
  BY WalkSame, SuperSame DEF AdminInv
<1> QED
  BY <1>2, <1>3, <1>4, <1>6, <1>7 DEF AdminInv

LEMMA CreateRoleInv ==
  ASSUME AdminInv, NEW p \in Procs, NEW i \in RoleIds, CreateRole(p, i)
  PROVE  AdminInv'
<1>1. CASE role' = role
  BY <1>1, RequestFailsInv DEF CreateRole
<1>2. CASE Named(h[p].name) = {} /\ role' = [role EXCEPT ![i] = ClientRole(h[p].name)]
  <2>1. PICK n : n = h[p].name
    OBVIOUS
  <2>2. h[p].pc = "write" /\ n \in Names
    BY <2>1 DEF CreateRole, AdminInv, RequestsInv
  <2> DEFINE d == ClientRole(n)
  <2>3. d \in Roles /\ d.name = n /\ ~d.system /\ d.drawn /\ n # None
    BY <2>2, RoleTypes
  <2> HIDE DEF d
  <2>4. NewRole(i, d)
    BY <1>2, <2>1, <2>3, NewRoleFacts DEF CreateRole, AdminInv, d
  <2>5. \A j \in RoleIds : role[j].name # n
    BY <1>2, <2>1 DEF Named
  <2>6. ~role[i].system
    BY <2>4 DEF AdminInv, DrawnInv, NewRole
  <2>7. OneRolePerName'
    BY <2>3, <2>4, <2>5 DEF AdminInv, OneRolePerName, NewRole
  <2>8. DrawnInv'
    BY <2>3, <2>4 DEF AdminInv, DrawnInv, NewRole, CreateRole
  <2>9. \A m \in Names : HasSystemRole(m) => HasSystemRole(m)'
    BY <2>4, <2>6 DEF HasSystemRole, Named, NewRole
  <2>10. /\ role' \in Collection /\ Become(p, Idle) /\ spoiled' = spoiled
         /\ spoiled' \in SUBSET Names /\ UNCHANGED <<account, seeder, walk, fresh>>
    BY <2>4 DEF NewRole, CreateRole, AdminInv, TypeOK
  <2> QED
    BY <2>2, <2>7, <2>8, <2>9, <2>10, WriteInv
<1> QED
  BY <1>1, <1>2 DEF CreateRole

LEMMA UpdateRoleInv ==
  ASSUME AdminInv, NEW p \in Procs, UpdateRole(p)
  PROVE  AdminInv'
<1>1. /\ h[p].pc = "write" /\ Become(p, Idle) /\ h[p].id \in RoleIds
      /\ UNCHANGED <<account, seeder, walk, fresh>>
  BY DEF UpdateRole, AdminInv, RequestsInv
<1>2. CASE UNCHANGED <<role, spoiled>>
  BY <1>1, <1>2, RequestFailsInv
<1>3. CASE /\ role' = [role EXCEPT ![h[p].id].by = "client"]
           /\ role[h[p].id].name # None /\ Spoil(h[p].id)
  <2>1. /\ role' \in Collection
        /\ \A j \in RoleIds : /\ role'[j].name = role[j].name
                              /\ role'[j].system = role[j].system
                              /\ role'[j].drawn = role[j].drawn
    BY <1>1, <1>3, UpdateRoleFacts DEF AdminInv
  <2>2. OneRolePerName'
    BY <2>1 DEF AdminInv, OneRolePerName
  <2>3. DrawnInv'
    BY <1>1, <2>1 DEF AdminInv, DrawnInv
  <2>4. \A n \in Names : HasSystemRole(n) => HasSystemRole(n)'
    BY <2>1 DEF HasSystemRole, Named
  <2>5. spoiled' \in SUBSET Names /\ spoiled \subseteq spoiled'
    BY <1>1, <1>3 DEF Spoil, AdminInv, TypeOK, Roles
  <2> QED
    BY <1>1, <2>1, <2>2, <2>3, <2>4, <2>5, WriteInv
<1> QED
  BY <1>2, <1>3 DEF UpdateRole

LEMMA DeleteRoleInv ==
  ASSUME AdminInv, NEW p \in Procs, DeleteRole(p)
  PROVE  AdminInv'
<1>1. PICK i : i = h[p].id
  OBVIOUS
<1>2. /\ h[p].pc = "write" /\ Become(p, Idle) /\ i \in RoleIds
      /\ UNCHANGED <<account, seeder, walk, fresh>>
  BY <1>1 DEF DeleteRole, AdminInv, RequestsInv
<1>3. CASE UNCHANGED <<role, spoiled>>
  BY <1>2, <1>3, RequestFailsInv
<1>4. CASE /\ role' = [role EXCEPT ![i] = [NoRole EXCEPT !.drawn = TRUE]]
           /\ role[i].name # None /\ Spoil(i)
  <2>1. /\ role' \in Collection
        /\ role'[i].name = None /\ ~role'[i].system /\ role'[i].drawn
        /\ \A j \in RoleIds \ {i} : role'[j] = role[j]
    BY <1>2, <1>4, DeleteRoleFacts DEF AdminInv
  <2>2. OneRolePerName'
    BY <2>1 DEF AdminInv, OneRolePerName
  <2>3. DrawnInv'
    BY <1>2, <2>1 DEF AdminInv, DrawnInv
  <2>4. spoiled' \in SUBSET Names /\ spoiled \subseteq spoiled'
    BY <1>2, <1>4 DEF Spoil, AdminInv, TypeOK, Roles
  <2>5. ASSUME NEW n \in Names, HasSystemRole(n) PROVE HasSystemRole(n)' \/ n \in spoiled'
    <3>1. PICK j \in RoleIds : role[j].name = n /\ role[j].system
      BY <2>5 DEF HasSystemRole, Named
    <3>2. CASE j = i
      BY <1>4, <3>1, <3>2 DEF Spoil
    <3>3. CASE j # i
      BY <2>1, <3>1, <3>3 DEF HasSystemRole, Named
    <3> QED
      BY <3>2, <3>3
  <2> QED
    BY <1>2, <2>1, <2>2, <2>3, <2>4, <2>5, WriteInv
<1> QED
  BY <1>1, <1>3, <1>4 DEF DeleteRole

-----------------------------------------------------------------------------
(* The seeder *)

\* Seeder s becomes r, every other one stays as it was.
Turns(s, r) ==
  /\ seeder' \in [Seeders -> Seedings]
  /\ seeder'[s] = r
  /\ \A t \in Seeders \ {s} : seeder'[t] = seeder[t]

LEMMA TurnsFacts ==
  ASSUME TypeOK, NEW s \in Seeders, NEW r \in Seedings, seeder' = [seeder EXCEPT ![s] = r]
  PROVE  Turns(s, r)
  BY DEF TypeOK, Turns

\* A seeder's process changes, and it has stored nothing more.
LEMMA QuietSeeder ==
  ASSUME AdminInv, NEW s \in Seeders, NEW r \in Seedings, Turns(s, r),
         UNCHANGED <<role, account, h, walk, fresh, spoiled>>,
         r.pc \in {"create", "done"} => r.todo = {},
         r.pc # "off" =>
           \A n \in Names \ r.todo : HasSystemRole(n) \/ n \in spoiled,
         r.pc = "done" => Ranked({"super_admin"}) # {} \/ r.lost
  PROVE  AdminInv'
<1>1. TypeOK'
  BY DEF AdminInv, TypeOK, Turns
<1>2. RequestsInv' /\ DrawnInv'
  BY DEF AdminInv, RequestsInv, DrawnInv
<1>3. OneRolePerName' /\ \A n : HasSystemRole(n)' <=> HasSystemRole(n)
  BY RolesSame DEF AdminInv
<1>4. SeedInv'
  BY <1>3 DEF AdminInv, SeedInv, Seeded, Turns
<1>5. FreshInv'
  BY <1>3 DEF AdminInv, FreshInv, Admins, Ranked
<1>6. SeededSuperAdmin'
  BY DEF AdminInv, SeededSuperAdmin, Ranked, Turns
<1>7. WalkInv'
  BY WalkSame DEF AdminInv
<1> QED
  BY <1>1, <1>2, <1>3, <1>4, <1>5, <1>6, <1>7 DEF AdminInv

LEMMA StartSeederInv ==
  ASSUME AdminInv, NEW s \in Seeders, StartSeeder(s)
  PROVE  AdminInv'
<1> DEFINE r == [pc |-> "roles", todo |-> Names, lost |-> FALSE]
<1>1. r \in Seedings /\ r.pc = "roles" /\ r.todo = Names
  BY DEF Seedings
<1> HIDE DEF r
<1>2. Turns(s, r) /\ UNCHANGED <<role, account, h, walk, fresh, spoiled>>
  BY <1>1, TurnsFacts DEF StartSeeder, AdminInv, r
<1> QED
  BY <1>1, <1>2, QuietSeeder

\* The seeder moves to another point of its program.
LEMMA PcFacts ==
  ASSUME TypeOK, NEW s \in Seeders, NEW c \in {"create", "done", "failed"},
         seeder' = [seeder EXCEPT ![s].pc = c]
  PROVE  \E r \in Seedings : /\ Turns(s, r) /\ r.pc = c
                             /\ r.todo = seeder[s].todo /\ r.lost = seeder[s].lost
<1>1. seeder \in [Seeders -> Seedings] /\ seeder[s] \in Seedings
  BY DEF TypeOK
<1> DEFINE r == [seeder[s] EXCEPT !.pc = c]
<1>2. /\ r \in Seedings /\ r.pc = c /\ r.todo = seeder[s].todo
      /\ r.lost = seeder[s].lost
  BY <1>1 DEF Seedings
<1>3. seeder' = [seeder EXCEPT ![s] = r]
  BY <1>1
<1> HIDE DEF r
<1> QED
  BY <1>2, <1>3, TurnsFacts

LEMMA LookInv ==
  ASSUME AdminInv, NEW s \in Seeders, LookForSuperAdmin(s)
  PROVE  AdminInv'
<1>1. PICK c \in {"create", "done"} :
        c = IF Ranked({"super_admin"}) = {} THEN "create" ELSE "done"
  OBVIOUS
<1>2. /\ seeder' = [seeder EXCEPT ![s].pc = c] /\ seeder[s].todo = {}
      /\ seeder[s].pc = "roles" /\ UNCHANGED <<role, account, h, walk, fresh, spoiled>>
  BY <1>1 DEF LookForSuperAdmin
<1>3. PICK r \in Seedings : /\ Turns(s, r) /\ r.pc = c
                            /\ r.todo = seeder[s].todo /\ r.lost = seeder[s].lost
  BY <1>2, PcFacts DEF AdminInv
<1>4. \A n \in Names : HasSystemRole(n) \/ n \in spoiled
  BY <1>2 DEF AdminInv, SeedInv
<1> QED
  BY <1>1, <1>2, <1>3, <1>4, QuietSeeder

LEMMA SeederFailsInv ==
  ASSUME AdminInv, NEW s \in Seeders, seeder[s].pc # "off",
         seeder' = [seeder EXCEPT ![s].pc = "failed"],
         UNCHANGED <<role, account, h, walk, fresh, spoiled>>
  PROVE  AdminInv'
<1>1. PICK r \in Seedings : /\ Turns(s, r) /\ r.pc = "failed"
                            /\ r.todo = seeder[s].todo /\ r.lost = seeder[s].lost
  BY PcFacts DEF AdminInv
<1>2. \A n \in Names \ r.todo : HasSystemRole(n) \/ n \in spoiled
  BY <1>1 DEF AdminInv, SeedInv
<1> QED
  BY <1>1, <1>2, QuietSeeder

\* What an upsert does to the roles.
Upserted(n) ==
  /\ role' \in Collection /\ OneRolePerName' /\ DrawnInv'
  /\ HasSystemRole(n)' /\ \A m \in Names : HasSystemRole(m) => HasSystemRole(m)'
  /\ \A i \in RoleIds : role'[i] = role[i] \/ (role'[i].system /\ role'[i].by = "seeder")

LEMMA InsertFacts ==
  ASSUME AdminInv, NEW n \in Names, NEW i \in RoleIds, Named(n) = {}, NextRoleId(i),
         role' = [role EXCEPT ![i] = SystemRole(n)], UNCHANGED account
  PROVE  Upserted(n)
<1> DEFINE d == SystemRole(n)
<1>1. d \in Roles /\ d.name = n /\ d.system /\ d.by = "seeder" /\ d.drawn /\ n # None
  BY RoleTypes
<1> HIDE DEF d
<1>2. NewRole(i, d)
  BY <1>1, NewRoleFacts DEF AdminInv, d
<1>3. \A j \in RoleIds : role[j].name # n
  BY DEF Named
<1>4. ~role[i].system
  BY <1>2 DEF AdminInv, DrawnInv, NewRole
<1>5. OneRolePerName'
  BY <1>1, <1>2, <1>3 DEF AdminInv, OneRolePerName, NewRole
<1>6. DrawnInv'
  BY <1>1, <1>2 DEF AdminInv, DrawnInv, NewRole
<1>7. HasSystemRole(n)' /\ \A m \in Names : HasSystemRole(m) => HasSystemRole(m)'
  BY <1>1, <1>2, <1>4 DEF HasSystemRole, Named, NewRole
<1> QED
  BY <1>1, <1>2, <1>5, <1>6, <1>7 DEF Upserted, NewRole

LEMMA TakeOverFacts ==
  ASSUME AdminInv, NEW n \in Names, Named(n) # {}, Overwrite(n), UNCHANGED account
  PROVE  Upserted(n)
<1>1. OneRolePerName'
  BY DEF AdminInv, OneRolePerName, Overwrite
<1>2. n # None
  BY NoneIsFresh
<1>3. DrawnInv'
  BY <1>2 DEF AdminInv, DrawnInv, Overwrite
<1>4. HasSystemRole(n)'
  BY DEF HasSystemRole, Named, Overwrite
<1>5. \A m \in Names : HasSystemRole(m) => HasSystemRole(m)'
  BY DEF HasSystemRole, Named, Overwrite
<1>6. \A i \in RoleIds : role'[i] = role[i] \/ (role'[i].system /\ role'[i].by = "seeder")
  BY DEF Overwrite
<1> QED
  BY <1>1, <1>3, <1>4, <1>5, <1>6 DEF Upserted, Overwrite

LEMMA UpsertInv ==
  ASSUME AdminInv, NEW s \in Seeders, NEW n \in Names, Upsert(s, n)
  PROVE  AdminInv'
<1>1. /\ seeder[s].pc \in {"roles", "failed"} /\ n \in seeder[s].todo
      /\ UNCHANGED <<account, h, walk, fresh, spoiled>>
  BY DEF Upsert
<1>2. Upserted(n)
  <2>1. CASE Named(n) = {}
    BY <1>1, <2>1, InsertFacts DEF Upsert
  <2>2. CASE Named(n) # {}
    BY <1>1, <2>2, TakeOverFacts, OverwriteFacts DEF Upsert, AdminInv
  <2> QED
    BY <2>1, <2>2
<1>3. PICK r \in Seedings : /\ Turns(s, r) /\ r.pc = seeder[s].pc
                            /\ r.todo = seeder[s].todo \ {n} /\ r.lost = seeder[s].lost
  <2>1. seeder \in [Seeders -> Seedings] /\ seeder[s] \in Seedings
    BY DEF AdminInv, TypeOK
  <2> DEFINE q == seeder[s].todo \ {n}
             r == [seeder[s] EXCEPT !.todo = q]
  <2>2. seeder' = [seeder EXCEPT ![s] = r]
    BY <2>1 DEF Upsert
  <2>3. q \in SUBSET Names
    BY <2>1 DEF Seedings
  <2> HIDE DEF q
  <2>4. r \in Seedings /\ r.pc = seeder[s].pc /\ r.todo = q /\ r.lost = seeder[s].lost
    BY <2>1, <2>3 DEF Seedings
  <2> HIDE DEF r
  <2>5. Turns(s, r)
    BY <2>2, <2>4, TurnsFacts DEF AdminInv
  <2> QED
    BY <2>4, <2>5 DEF q
<1>4. TypeOK'
  BY <1>1, <1>2, <1>3 DEF AdminInv, TypeOK, Upserted, Collection, Turns
<1>5. RequestsInv'
  BY <1>1 DEF AdminInv, RequestsInv
<1>6. \A m \in Names : HasSystemRole(m) => HasSystemRole(m)'
  BY <1>2 DEF Upserted
<1>7. SeedInv'
  <2>1. ASSUME NEW t \in Seeders, NEW m \in Names, seeder'[t].pc # "off", m \notin seeder'[t].todo
        PROVE  HasSystemRole(m)' \/ m \in spoiled
    <3>1. CASE t = s /\ m = n
      BY <1>2, <3>1 DEF Upserted
    <3>2. CASE t # s \/ m # n
      <4>1. seeder[t].pc # "off" /\ m \notin seeder[t].todo
        BY <1>1, <1>3, <2>1, <3>2 DEF Turns
      <4> QED
        BY <1>6, <4>1 DEF AdminInv, SeedInv
    <3> QED
      BY <3>1, <3>2
  <2>2. \A t \in Seeders : Seeded(t)' => seeder'[t].todo = {}
    BY <1>1, <1>3 DEF AdminInv, SeedInv, Seeded, Turns
  <2> QED
    BY <1>1, <2>1, <2>2 DEF SeedInv
<1>8. FreshInv'
  <2>1. Admins' = Admins
    BY <1>1 DEF Admins, Ranked
  <2>2. fresh => \A i \in RoleIds : role'[i].name # None =>
                   role'[i].system /\ role'[i].by = "seeder"
    BY <1>2 DEF AdminInv, FreshInv, Upserted
  <2>3. FreshInv
    BY DEF AdminInv
  <2> QED
    BY <1>1, <1>6, <2>1, <2>2, <2>3 DEF FreshInv
<1>9. SeededSuperAdmin'
  BY <1>1, <1>3 DEF AdminInv, SeededSuperAdmin, Ranked, Turns
<1>10. WalkInv'
  BY <1>1, WalkSame DEF AdminInv
<1> QED
  BY <1>2, <1>4, <1>5, <1>7, <1>8, <1>9, <1>10 DEF AdminInv, Upserted

-----------------------------------------------------------------------------
(* Positions in the list of accounts *)

Newer(S, a) == {b \in S : b >= a}

LEMMA PositionIsNewer == \A a : Position(a) = Cardinality(Newer(Present, a))
  BY DEF Position, Newer

LEMMA AccountsFinite == \A S \in SUBSET Accounts : IsFiniteSet(S) /\ Cardinality(S) \in Nat
<1>1. IsFiniteSet(Accounts)
  BY BoundsAssumption, FS_Interval DEF Accounts
<1> QED
  BY <1>1, FS_Subset, FS_CardinalityType

LEMMA NewerType ==
  ASSUME NEW S \in SUBSET Accounts, NEW a
  PROVE  /\ Newer(S, a) \in SUBSET S /\ Newer(S, a) \in SUBSET Accounts
         /\ IsFiniteSet(Newer(S, a))
         /\ Cardinality(Newer(S, a)) \in Nat
         /\ Cardinality(Newer(S, a)) <= Cardinality(S)
<1>1. Newer(S, a) \in SUBSET S /\ Newer(S, a) \in SUBSET Accounts
  BY DEF Newer
<1> QED
  BY <1>1, AccountsFinite, FS_Subset

\* Accounts that come push the others back.
LEMMA NewerGrows ==
  ASSUME NEW S \in SUBSET Accounts, NEW T \in SUBSET Accounts, S \subseteq T, NEW a
  PROVE  Cardinality(Newer(S, a)) <= Cardinality(Newer(T, a))
<1>1. Newer(S, a) \in SUBSET Newer(T, a)
  BY DEF Newer
<1> QED
  BY <1>1, NewerType, FS_Subset

\* When d leaves, nobody moves up to d's own position or before.
LEMMA NewerStays ==
  ASSUME NEW S \in SUBSET Accounts, NEW d \in S, NEW a \in S \ {d}, NEW g \in Int,
         Cardinality(Newer(S, d)) > g, Cardinality(Newer(S, a)) > g
  PROVE  Cardinality(Newer(S \ {d}, a)) > g
<1>1. a \in Int /\ d \in Int /\ a # d /\ S \ {d} \in SUBSET Accounts
  BY BoundsAssumption DEF Accounts
<1>2. CASE a > d
  <2>1. Newer(S \ {d}, a) = Newer(S, a)
    BY <1>1, <1>2, BoundsAssumption DEF Newer, Accounts
  <2> QED
    BY <2>1
<1>3. CASE a < d
  <2> DEFINE N == Newer(S, d)
  <2>1. IsFiniteSet(N) /\ d \in N /\ a \notin N
    BY <1>1, <1>3, NewerType DEF Newer
  <2>2. (N \ {d}) \cup {a} \in SUBSET Newer(S \ {d}, a)
    <3>1. ASSUME NEW b \in N \ {d} PROVE b \in S \ {d} /\ b >= a
      <4>1. b \in S /\ b # d /\ b >= d
        BY DEF Newer
      <4>2. b \in Int
        BY <4>1, BoundsAssumption DEF Accounts
      <4> QED
        BY <1>1, <1>3, <4>1, <4>2
    <3>2. a \in S \ {d} /\ a >= a
      BY <1>1
    <3> QED
      BY <3>1, <3>2 DEF Newer
  <2>3. Cardinality(N) \in Nat
    BY NewerType
  <2> HIDE DEF N
  <2>4. Cardinality((N \ {d}) \cup {a}) = Cardinality(N)
    <3>1. IsFiniteSet(N \ {d}) /\ Cardinality(N \ {d}) = Cardinality(N) - 1
      BY <2>1, FS_RemoveElement
    <3>2. a \notin N \ {d}
      BY <2>1
    <3>3. Cardinality((N \ {d}) \cup {a}) = Cardinality(N \ {d}) + 1
      BY <3>1, <3>2, FS_AddElement
    <3> QED
      BY <2>3, <3>1, <3>3
  <2>5. IsFiniteSet(Newer(S \ {d}, a)) /\ Cardinality(Newer(S \ {d}, a)) \in Nat
    BY <1>1, NewerType
  <2>6. Cardinality(N) <= Cardinality(Newer(S \ {d}, a))
    BY <2>2, <2>4, <2>5, FS_Subset
  <2> QED
    BY <2>3, <2>5, <2>6 DEF N
<1> QED
  BY <1>1, <1>2, <1>3

LEMMA PresentType == Present \in SUBSET Accounts
  BY DEF Present, Ranked

LEMMA PresentTypeNext == Present' \in SUBSET Accounts
  BY DEF Present, Ranked

LEMMA WalkTypes ==
  ASSUME TypeOK
  PROVE  /\ walk.page \in Nat \ {0} /\ walk.total \in Nat /\ Limit \in Nat \ {0}
         /\ walk.todo \in SUBSET Queries /\ walk.missing \in SUBSET Accounts
         /\ walk.pc \in {"idle", "ask", "ended"}
         /\ (walk.page - 1) * Limit \in Int /\ walk.page * Limit \in Int /\ Given \in Int
         /\ walk.page * Limit = (walk.page - 1) * Limit + Limit
<1>1. /\ walk.page \in Nat \ {0} /\ walk.total \in Nat /\ walk.todo \in SUBSET Queries
      /\ walk.missing \in SUBSET Accounts /\ walk.pc \in {"idle", "ask", "ended"}
  BY DEF TypeOK, Walks
<1>2. Limit \in Nat \ {0}
  BY LimitAssumption
<1>3. \A m, l \in Int : (m - 1) * l \in Int /\ m * l \in Int /\ m * l = (m - 1) * l + l
  OBVIOUS
<1>4. (walk.page - 1) * Limit \in Int /\ walk.page * Limit \in Int
      /\ walk.page * Limit = (walk.page - 1) * Limit + Limit
  BY <1>1, <1>2, <1>3
<1>5. Given \in Int
  BY <1>2, <1>4 DEF Given
<1> QED
  BY <1>1, <1>2, <1>4, <1>5

LEMMA NoWalkFacts ==
  ASSUME walk' = NoWalk
  PROVE  walk' \in Walks /\ WalkInv'
<1>1. walk' \in Walks /\ walk'.pc = "idle" /\ walk'.todo = {}
  BY DEF NoWalk, Walks
<1> QED
  BY <1>1 DEF WalkInv

LEMMA ArrivalFacts ==
  ASSUME AdminInv, Arrival, Present \subseteq Present'
  PROVE  walk' \in Walks /\ WalkInv'
<1>1. CASE walk.todo = {"find"}
  BY <1>1, NoWalkFacts DEF Arrival
<1>2. CASE walk.todo # {"find"}
  <2>1. walk' = walk /\ WalkInv /\ walk \in Walks /\ Given' = Given
    BY <1>2 DEF Arrival, AdminInv, TypeOK, Given
  <2>2. Given \in Int
    BY WalkTypes DEF AdminInv
  <2>3. ASSUME walk.pc = "ask", NEW a \in walk.missing
        PROVE  a \in Present' /\ Position(a)' > Given
    <3>1. a \in Present /\ Position(a) > Given
      BY <2>1, <2>3 DEF WalkInv
    <3>2. Position(a) = Cardinality(Newer(Present, a))
      BY PositionIsNewer
    <3>3. Position(a)' = Cardinality(Newer(Present', a))
      BY DEF Position, Newer
    <3>4. /\ Cardinality(Newer(Present, a)) \in Nat /\ Cardinality(Newer(Present', a)) \in Nat
          /\ Cardinality(Newer(Present, a)) <= Cardinality(Newer(Present', a))
      BY PresentType, PresentTypeNext, NewerType, NewerGrows
    <3> QED
      BY <2>2, <3>1, <3>2, <3>3, <3>4
  <2> QED
    BY <1>2, <2>1, <2>3 DEF WalkInv
<1> QED
  BY <1>1, <1>2

LEMMA DepartureFacts ==
  ASSUME AdminInv, NEW d \in Present, Departure(d), Present' = Present \ {d}
  PROVE  walk' \in Walks /\ WalkInv'
<1>1. CASE walk.pc = "ask" /\ Position(d) <= Given
  BY <1>1, NoWalkFacts DEF Departure
<1>2. CASE ~(walk.pc = "ask" /\ Position(d) <= Given)
  <2> DEFINE m == walk.missing \ {d}
  <2>1. walk' = [walk EXCEPT !.missing = m]
    BY <1>2 DEF Departure
  <2>2. WalkInv /\ walk \in Walks /\ m \in SUBSET Accounts
    BY DEF AdminInv, TypeOK, Walks
  <2>3. m \subseteq walk.missing /\ d \notin m /\ (walk.missing = {} => m = {})
    OBVIOUS
  <2> HIDE DEF m
  <2>4. /\ walk' \in Walks /\ walk'.pc = walk.pc /\ walk'.page = walk.page
        /\ walk'.todo = walk.todo /\ walk'.total = walk.total /\ walk'.missing = m
    BY <2>1, <2>2 DEF Walks
  <2>5. Given' = Given /\ Given \in Int
    BY <2>4, WalkTypes DEF Given, AdminInv
  <2>6. ASSUME walk.pc = "ask", NEW a \in m
        PROVE  /\ a \in Present' /\ Position(a)' > Given
               /\ Position(a)' \in Nat /\ Position(a) \in Nat
               /\ Position(a)' <= Position(a)
    <3>1. a \in Present \ {d} /\ Position(a) > Given
      BY <2>2, <2>3, <2>6 DEF WalkInv
    <3>2. /\ Position(a) = Cardinality(Newer(Present, a))
          /\ Position(d) = Cardinality(Newer(Present, d))
      BY PositionIsNewer
    <3>3. Position(a)' = Cardinality(Newer(Present \ {d}, a))
      BY DEF Position, Newer
    <3>4. /\ Cardinality(Newer(Present, a)) \in Nat /\ Cardinality(Newer(Present, d)) \in Nat
          /\ Cardinality(Newer(Present \ {d}, a)) \in Nat
          /\ Cardinality(Newer(Present \ {d}, a)) <= Cardinality(Newer(Present, a))
      BY PresentType, NewerType, NewerGrows
    <3>5. Cardinality(Newer(Present, d)) > Given
      BY <1>2, <2>5, <2>6, <3>2, <3>4
    <3>6. Cardinality(Newer(Present, a)) > Given
      BY <3>1, <3>2
    <3>7. Cardinality(Newer(Present \ {d}, a)) > Given
      BY <2>5, <3>1, <3>5, <3>6, PresentType, NewerStays
    <3> QED
      BY <3>1, <3>2, <3>3, <3>4, <3>7
  <2>7. walk.pc = "ask" /\ walk.todo = {"find"} =>
          \A a \in m : Position(a)' <= walk.total
    <3>1. SUFFICES ASSUME walk.pc = "ask", walk.todo = {"find"}, NEW a \in m
                   PROVE  Position(a)' <= walk.total
      OBVIOUS
    <3>2. Position(a) <= walk.total /\ walk.total \in Nat
      BY <2>2, <2>3, <3>1, WalkTypes DEF WalkInv, AdminInv
    <3> QED
      BY <2>6, <3>1, <3>2
  <2>8. /\ walk.pc # "ask" => walk.todo = {}
        /\ walk.pc = "ended" => m = {}
        /\ walk.pc = "ask" /\ walk.todo = {} /\ walk.total <= walk.page * Limit => m = {}
    BY <2>2, <2>3 DEF WalkInv
  <2> QED
    BY <2>4, <2>5, <2>6, <2>7, <2>8 DEF WalkInv
<1> QED
  BY <1>1, <1>2

-----------------------------------------------------------------------------
(* The accounts *)

\* Somebody may become an admin where all roles are stored.
LEMMA AccountsInv ==
  ASSUME AdminInv, account' \in [Accounts -> Users], UNCHANGED <<role, h, fresh, spoiled>>,
         seeder' \in [Seeders -> Seedings],
         \A t \in Seeders :
           /\ seeder'[t].todo = seeder[t].todo
           /\ seeder'[t].pc # "off" => seeder[t].pc # "off"
           /\ Seeded(t)' => Seeded(t),
         \A a \in Accounts : account'[a].rank # None => account'[a].drawn,
         fresh => Admins' = {} \/ \A n \in Names : HasSystemRole(n),
         SeededSuperAdmin', walk' \in Walks, WalkInv'
  PROVE  AdminInv'
<1>1. TypeOK'
  BY DEF AdminInv, TypeOK
<1>2. RequestsInv' /\ DrawnInv'
  BY DEF AdminInv, RequestsInv, DrawnInv
<1>3. OneRolePerName' /\ \A n : HasSystemRole(n)' <=> HasSystemRole(n)
  BY RolesSame DEF AdminInv
<1>4. SeedInv'
  BY <1>3 DEF AdminInv, SeedInv
<1>5. FreshInv'
  BY <1>3 DEF AdminInv, FreshInv
<1> QED
  BY <1>1, <1>2, <1>3, <1>4, <1>5 DEF AdminInv

\* Account a becomes d, every other one stays as it was.
LEMMA AccountFacts ==
  ASSUME TypeOK, NEW a \in Accounts, NEW d \in Users, account' = [account EXCEPT ![a] = d]
  PROVE  /\ account' \in [Accounts -> Users] /\ account'[a] = d
         /\ \A b \in Accounts \ {a} : account'[b] = account[b]
  BY DEF TypeOK

LEMMA NewAccountFacts ==
  ASSUME AdminInv, NEW a \in Accounts, NEW r \in {"employee", "super_admin"},
         NEW e \in BOOLEAN, NextAccount(a), Arrival,
         account' = [account EXCEPT ![a] = [rank |-> r, default |-> e, drawn |-> TRUE]]
  PROVE  /\ account' \in [Accounts -> Users] /\ account'[a].rank = r
         /\ \A b \in Accounts \ {a} : account'[b] = account[b]
         /\ account[a].rank = None
         /\ \A b \in Accounts : account'[b].rank # None => account'[b].drawn
         /\ walk' \in Walks /\ WalkInv'
<1> DEFINE d == [rank |-> r, default |-> e, drawn |-> TRUE]
<1>1. d \in Users /\ d.rank = r /\ d.drawn /\ r # None /\ r \in Ranks
  BY RanksAssumption, NoneIsFresh DEF Users
<1> HIDE DEF d
<1>2. /\ account' \in [Accounts -> Users] /\ account'[a] = d
      /\ \A b \in Accounts \ {a} : account'[b] = account[b]
  BY <1>1, AccountFacts DEF d, AdminInv
<1>3. account[a].rank = None
  BY DEF NextAccount, AdminInv, DrawnInv
<1>4. \A b \in Accounts : account'[b].rank # None => account'[b].drawn
  BY <1>1, <1>2 DEF AdminInv, DrawnInv
<1>5. Present \subseteq Present'
  BY <1>1, <1>2 DEF Present, Ranked
<1> QED
  BY <1>1, <1>2, <1>3, <1>4, <1>5, ArrivalFacts

LEMMA RegisterInv ==
  ASSUME AdminInv, NEW a \in Accounts, NEW e \in BOOLEAN, Register(a, e)
  PROVE  AdminInv'
<1>1. /\ account' \in [Accounts -> Users] /\ account'[a].rank = "employee"
      /\ \A b \in Accounts \ {a} : account'[b] = account[b]
      /\ account[a].rank = None
      /\ \A b \in Accounts : account'[b].rank # None => account'[b].drawn
      /\ walk' \in Walks /\ WalkInv'
  BY NewAccountFacts DEF Register
<1>2. UNCHANGED <<role, h, seeder, fresh, spoiled>>
  BY DEF Register
<1>3. Ranked({"super_admin"}) \subseteq Ranked({"super_admin"})'
  BY <1>1, NoneIsFresh, RanksAssumption DEF Ranked
<1>4. Admins' \subseteq Admins
  BY <1>1 DEF Admins, Ranked
<1>5. fresh => Admins' = {} \/ \A n \in Names : HasSystemRole(n)
  BY <1>4 DEF AdminInv, FreshInv
<1>6. SeededSuperAdmin'
  BY <1>2, <1>3 DEF AdminInv, SeededSuperAdmin
<1>7. seeder' \in [Seeders -> Seedings] /\ \A t \in Seeders : Seeded(t)' => Seeded(t)
  BY <1>2 DEF AdminInv, TypeOK, Seeded
<1> QED
  BY <1>1, <1>2, <1>5, <1>6, <1>7, AccountsInv

LEMMA CreateSuperAdminInv ==
  ASSUME AdminInv, NEW s \in Seeders, NEW a \in Accounts, CreateSuperAdmin(s, a)
  PROVE  AdminInv'
<1>1. seeder[s].pc = "create" /\ UNCHANGED <<role, h, fresh, spoiled>>
  BY DEF CreateSuperAdmin
<1>2. CASE seeder' = [seeder EXCEPT ![s].pc = "failed"] /\ UNCHANGED <<account, walk>>
  BY <1>1, <1>2, SeederFailsInv
<1>3. CASE /\ account' = [account EXCEPT ![a] =
                [rank |-> "super_admin", default |-> TRUE, drawn |-> TRUE]]
           /\ seeder' = [seeder EXCEPT ![s].pc = "done"]
           /\ Arrival
  <2>1. /\ account' \in [Accounts -> Users] /\ account'[a].rank = "super_admin"
        /\ \A b \in Accounts : account'[b].rank # None => account'[b].drawn
        /\ walk' \in Walks /\ WalkInv'
    BY <1>3, NewAccountFacts DEF CreateSuperAdmin
  <2>2. PICK r \in Seedings : /\ Turns(s, r) /\ r.pc = "done"
                              /\ r.todo = seeder[s].todo /\ r.lost = seeder[s].lost
    BY <1>3, PcFacts DEF AdminInv
  <2>3. \A t \in Seeders :
          /\ seeder'[t].todo = seeder[t].todo
          /\ seeder'[t].pc # "off" => seeder[t].pc # "off"
          /\ Seeded(t)' => Seeded(t)
    BY <1>1, <2>2 DEF Turns, Seeded
  <2>4. SeededSuperAdmin'
    BY <2>1 DEF SeededSuperAdmin, Ranked
  <2>5. fresh => \A n \in Names : HasSystemRole(n)
    <3>1. seeder[s].todo = {}
      BY <1>1 DEF AdminInv, SeedInv, Seeded
    <3> QED
      BY <1>1, <3>1 DEF AdminInv, SeedInv, FreshInv
  <2>6. seeder' \in [Seeders -> Seedings]
    BY <2>2 DEF Turns
  <2> QED
    BY <1>1, <2>1, <2>3, <2>4, <2>5, <2>6, AccountsInv
<1> QED
  BY <1>2, <1>3 DEF CreateSuperAdmin

\* A super admin goes, and with him what the seeders that are done stand for.
LEMMA LosesFacts ==
  ASSUME AdminInv, NEW a \in Accounts, Loses(a),
         \A b \in Accounts \ {a} : account'[b] = account[b]
  PROVE  /\ seeder' \in [Seeders -> Seedings]
         /\ \A t \in Seeders :
              /\ seeder'[t].todo = seeder[t].todo
              /\ seeder'[t].pc # "off" => seeder[t].pc # "off"
              /\ Seeded(t)' => Seeded(t)
         /\ SeededSuperAdmin'
<1>1. ASSUME NEW t \in Seeders
      PROVE  /\ seeder'[t] \in Seedings /\ seeder'[t].pc = seeder[t].pc
             /\ seeder'[t].todo = seeder[t].todo
             /\ seeder'[t].lost = (seeder[t].lost \/ (account[a].rank = "super_admin"
                                                      /\ seeder[t].pc = "done"))
  <2>1. seeder[t] \in Seedings
    BY DEF AdminInv, TypeOK
  <2> DEFINE r == [seeder[t] EXCEPT !.lost = TRUE]
  <2>2. r \in Seedings /\ r.pc = seeder[t].pc /\ r.todo = seeder[t].todo /\ r.lost = TRUE
    BY <2>1 DEF Seedings
  <2>3. seeder[t].lost \in BOOLEAN
    BY <2>1 DEF Seedings
  <2> HIDE DEF r
  <2>4. seeder'[t] = IF account[a].rank = "super_admin" /\ seeder[t].pc = "done"
                     THEN r ELSE seeder[t]
    BY DEF Loses, r
  <2> QED
    BY <2>1, <2>2, <2>3, <2>4
<1>2. seeder' \in [Seeders -> Seedings]
  <2>1. seeder' = [t \in Seeders |-> seeder'[t]]
    BY DEF Loses
  <2> QED
    BY <1>1, <2>1
<1>3. SeededSuperAdmin'
  <2>1. SUFFICES ASSUME NEW t \in Seeders, seeder'[t].pc = "done", ~seeder'[t].lost
                 PROVE  Ranked({"super_admin"})' # {}
    BY DEF SeededSuperAdmin
  <2>2. seeder[t].pc = "done" /\ ~seeder[t].lost /\ account[a].rank # "super_admin"
    BY <1>1, <2>1
  <2>3. PICK b \in Accounts : account[b].rank = "super_admin"
    BY <2>2 DEF AdminInv, SeededSuperAdmin, Ranked
  <2>4. account'[b].rank = "super_admin"
    BY <2>2, <2>3
  <2> QED
    BY <2>4 DEF Ranked
<1> QED
  BY <1>1, <1>2, <1>3 DEF Seeded

LEMMA UpdateUserRoleInv ==
  ASSUME AdminInv, NEW a \in Accounts, NEW r \in Ranks, UpdateUserRole(a, r)
  PROVE  AdminInv'
<1>1. /\ account' = [account EXCEPT ![a].rank = r] /\ a \in Present /\ Admins # {}
      /\ UNCHANGED <<role, h, walk, fresh, spoiled>>
  BY DEF UpdateUserRole, Admins
<1>2. account[a] \in Users /\ r # None
  BY NoneIsFresh DEF AdminInv, TypeOK
<1> DEFINE d == [account[a] EXCEPT !.rank = r]
<1>3. d \in Users /\ d.rank = r /\ d.drawn = account[a].drawn
  BY <1>2 DEF Users
<1>4. account' = [account EXCEPT ![a] = d]
  BY <1>1 DEF AdminInv, TypeOK
<1> HIDE DEF d
<1>5. /\ account' \in [Accounts -> Users] /\ account'[a] = d
      /\ \A b \in Accounts \ {a} : account'[b] = account[b]
  BY <1>3, <1>4, AccountFacts DEF AdminInv
<1>6. account[a].rank \in Ranks /\ account[a].rank # None
  BY <1>1, NoneIsFresh DEF Present, Ranked
<1>7. \A b \in Accounts : account'[b].rank # None => account'[b].drawn
  BY <1>3, <1>5, <1>6 DEF AdminInv, DrawnInv
<1>8. Present' = Present
  BY <1>3, <1>5, <1>6 DEF Present, Ranked
<1>9. walk' \in Walks /\ WalkInv'
  BY <1>1, <1>8 DEF AdminInv, TypeOK, WalkInv, Given, Position
<1>10. /\ seeder' \in [Seeders -> Seedings]
       /\ \A t \in Seeders :
            /\ seeder'[t].todo = seeder[t].todo
            /\ seeder'[t].pc # "off" => seeder[t].pc # "off"
            /\ Seeded(t)' => Seeded(t)
       /\ SeededSuperAdmin'
  <2>1. CASE r = "super_admin"
    <3>1. UNCHANGED seeder /\ account'[a].rank = "super_admin"
      BY <1>3, <1>5, <2>1 DEF UpdateUserRole
    <3> QED
      BY <3>1 DEF AdminInv, TypeOK, Seeded, SeededSuperAdmin, Ranked
  <2>2. CASE r # "super_admin"
    BY <1>5, <2>2, LosesFacts DEF UpdateUserRole
  <2> QED
    BY <2>1, <2>2
<1>11. fresh => \A n \in Names : HasSystemRole(n)
  BY <1>1 DEF AdminInv, FreshInv
<1> QED
  BY <1>1, <1>5, <1>7, <1>9, <1>10, <1>11, AccountsInv

LEMMA DeleteUserInv ==
  ASSUME AdminInv, NEW a \in Accounts, DeleteUser(a)
  PROVE  AdminInv'
<1>1. /\ account' = [account EXCEPT ![a] = [NoAccount EXCEPT !.drawn = TRUE]]
      /\ a \in Present /\ Loses(a) /\ Departure(a)
      /\ UNCHANGED <<role, h, fresh, spoiled>>
  BY DEF DeleteUser
<1> DEFINE d == [NoAccount EXCEPT !.drawn = TRUE]
<1>2. d \in Users /\ d.rank = None
  BY DEF NoAccount, Users
<1> HIDE DEF d
<1>3. /\ account' \in [Accounts -> Users] /\ account'[a] = d
      /\ \A b \in Accounts \ {a} : account'[b] = account[b]
  BY <1>1, <1>2, AccountFacts DEF AdminInv, d
<1>4. \A b \in Accounts : account'[b].rank # None => account'[b].drawn
  BY <1>2, <1>3 DEF AdminInv, DrawnInv
<1>5. Present' = Present \ {a}
  BY <1>2, <1>3, NoneIsFresh DEF Present, Ranked
<1>6. walk' \in Walks /\ WalkInv'
  BY <1>1, <1>5, DepartureFacts
<1>7. /\ seeder' \in [Seeders -> Seedings]
      /\ \A t \in Seeders :
           /\ seeder'[t].todo = seeder[t].todo
           /\ seeder'[t].pc # "off" => seeder[t].pc # "off"
           /\ Seeded(t)' => Seeded(t)
      /\ SeededSuperAdmin'
  BY <1>1, <1>3, LosesFacts
<1>8. fresh => Admins' = {} \/ \A n \in Names : HasSystemRole(n)
  <2>1. Ranked({"super_admin"}) # {} => Admins # {}
    BY DEF Ranked, Admins
  <2> QED
    BY <2>1 DEF DeleteUser, AdminInv, FreshInv
<1> QED
  BY <1>1, <1>3, <1>4, <1>6, <1>7, <1>8, AccountsInv

-----------------------------------------------------------------------------
(* The client that pages through the accounts *)

\* Only the client changes.
LEMMA QuietWalk ==
  ASSUME AdminInv, UNCHANGED <<role, account, h, seeder, fresh, spoiled>>,
         walk' \in Walks, WalkInv'
  PROVE  AdminInv'
<1>1. TypeOK'
  BY DEF AdminInv, TypeOK
<1>2. RequestsInv' /\ DrawnInv'
  BY DEF AdminInv, RequestsInv, DrawnInv
<1>3. OneRolePerName' /\ \A n : HasSystemRole(n)' <=> HasSystemRole(n)
  BY RolesSame DEF AdminInv
<1>4. SeedInv'
  BY <1>3 DEF AdminInv, SeedInv, Seeded
<1>5. FreshInv'
  BY <1>3 DEF AdminInv, FreshInv, Admins, Ranked
<1>6. SeededSuperAdmin'
  BY SuperSame DEF AdminInv
<1> QED
  BY <1>1, <1>2, <1>3, <1>4, <1>5, <1>6 DEF AdminInv

\* Everybody has a place in the list, and none is behind its end.
LEMMA PositionType ==
  ASSUME NEW a \in Present
  PROVE  /\ Position(a) \in Nat \ {0} /\ Cardinality(Present) \in Nat
         /\ Position(a) <= Cardinality(Present)
<1>1. Position(a) = Cardinality(Newer(Present, a))
  BY PositionIsNewer
<1>2. /\ IsFiniteSet(Newer(Present, a)) /\ Cardinality(Newer(Present, a)) \in Nat
      /\ Cardinality(Newer(Present, a)) <= Cardinality(Present)
  BY PresentType, NewerType
<1>3. a \in Newer(Present, a)
  BY PresentType, BoundsAssumption DEF Newer, Accounts
<1>4. Cardinality(Newer(Present, a)) # 0
  BY <1>2, <1>3, FS_EmptySet
<1>5. Cardinality(Present) \in Nat
  BY PresentType, AccountsFinite
<1> QED
  BY <1>1, <1>2, <1>4, <1>5

LEMMA StartWalkInv ==
  ASSUME AdminInv, StartWalk
  PROVE  AdminInv'
<1>1. UNCHANGED <<role, account, h, seeder, fresh, spoiled>>
  BY DEF StartWalk
<1>2. PICK S : S = Present
  OBVIOUS
<1>3. /\ walk' \in Walks /\ walk'.pc = "ask" /\ walk'.page = 1
      /\ walk'.todo = Queries /\ walk'.missing = Present
  <2>1. walk' = [NoWalk EXCEPT !.pc = "ask", !.page = 1, !.todo = Queries, !.missing = S]
    BY <1>2 DEF StartWalk, FirstPage
  <2>2. S \in SUBSET Accounts
    BY <1>2, PresentType
  <2>3. 1 \in Nat \ {0} /\ 0 \in Nat /\ Queries \in SUBSET Queries
    OBVIOUS
  <2> QED
    BY <1>2, <2>1, <2>2, <2>3 DEF NoWalk, Walks
<1>4. Given' = 0
  <2>1. Limit \in Nat
    BY LimitAssumption
  <2> QED
    BY <1>3, <2>1 DEF Given, Queries
<1>5. \A a \in Present : a \in Present' /\ Position(a)' > 0
  <2>1. Present' = Present /\ \A a : Position(a)' = Position(a)
    BY <1>1 DEF Present, Ranked, Position
  <2> QED
    BY <2>1, PositionType
<1>6. walk'.todo # {"find"} /\ walk'.todo # {}
  BY <1>3 DEF Queries
<1>7. WalkInv'
  BY <1>3, <1>4, <1>5, <1>6 DEF WalkInv
<1> QED
  BY <1>1, <1>3, <1>7, QuietWalk

\* The page that is read holds everybody up to its end that the pages before
\* do not hold.
LEMMA FindPageInv ==
  ASSUME AdminInv, FindPage
  PROVE  AdminInv'
<1>1. /\ UNCHANGED <<role, account, h, seeder, fresh, spoiled>>
      /\ walk.pc = "ask" /\ "find" \in walk.todo
  BY DEF FindPage
<1> DEFINE m == {a \in walk.missing : ~OnPage(Position(a), walk.page, Limit)}
           t == walk.todo \ {"find"}
<1>2. walk' = [walk EXCEPT !.todo = t, !.missing = m]
  BY DEF FindPage, AdminInv, TypeOK, Walks
<1>3. /\ walk \in Walks /\ m \in SUBSET Accounts /\ t \in SUBSET Queries /\ m \subseteq walk.missing
      /\ "find" \notin t
  BY DEF AdminInv, TypeOK, Walks
<1>4. ASSUME NEW a \in m
      PROVE  /\ a \in Present /\ Position(a) > walk.page * Limit
             /\ walk.todo = {"find"} => Position(a) <= walk.total
  <2>1. /\ a \in Present /\ Position(a) > Given /\ a \in walk.missing
        /\ walk.todo = {"find"} => Position(a) <= walk.total
    BY <1>1 DEF AdminInv, WalkInv
  <2>2. Position(a) \in Nat
    BY <2>1, PositionType
  <2>3. Given = (walk.page - 1) * Limit
    <3>1. (walk.page - 1) * Limit \in Int
      BY WalkTypes DEF AdminInv
    <3> QED
      BY <1>1, <3>1 DEF Given
  <2>4. ~(/\ (walk.page - 1) * Limit < Position(a)
          /\ Position(a) <= (walk.page - 1) * Limit + Limit)
    BY DEF OnPage, Skip
  <2>5. /\ walk.page * Limit = (walk.page - 1) * Limit + Limit
        /\ walk.page * Limit \in Int /\ (walk.page - 1) * Limit \in Int
    BY WalkTypes DEF AdminInv
  <2>6. Position(a) > walk.page * Limit
    BY <2>1, <2>2, <2>3, <2>4, <2>5
  <2> QED
    BY <2>1, <2>6
<1> HIDE DEF m, t
<1>5. /\ walk' \in Walks /\ walk'.pc = "ask" /\ walk'.page = walk.page /\ walk'.todo = t
      /\ walk'.total = walk.total /\ walk'.missing = m
  BY <1>1, <1>2, <1>3 DEF Walks
<1>6. Given' = walk.page * Limit
  BY <1>3, <1>5, WalkTypes DEF Given, AdminInv
<1>7. Present' = Present /\ \A a : Position(a)' = Position(a)
  BY <1>1 DEF Present, Ranked, Position
<1>8. walk'.todo # {"find"}
  BY <1>3, <1>5
<1>9. t = {} /\ walk.total <= walk.page * Limit => m = {}
  <2>1. SUFFICES ASSUME t = {}, walk.total <= walk.page * Limit, NEW a \in m PROVE FALSE
    OBVIOUS
  <2>2. walk.todo = {"find"}
    BY <1>1, <2>1 DEF t
  <2>3. /\ walk.total \in Nat /\ walk.page * Limit \in Int /\ Position(a) \in Nat
    BY <1>4, WalkTypes, PositionType DEF AdminInv
  <2> QED
    BY <1>4, <2>1, <2>2, <2>3
<1>10. WalkInv'
  BY <1>4, <1>5, <1>6, <1>7, <1>8, <1>9 DEF WalkInv
<1> QED
  BY <1>1, <1>5, <1>10, QuietWalk

LEMMA CountUsersInv ==
  ASSUME AdminInv, CountUsers
  PROVE  AdminInv'
<1>1. /\ UNCHANGED <<role, account, h, seeder, fresh, spoiled>>
      /\ walk.pc = "ask" /\ "count" \in walk.todo
  BY DEF CountUsers
<1> DEFINE t == walk.todo \ {"count"}
           k == Cardinality(Present)
<1>2. walk' = [walk EXCEPT !.todo = t, !.total = k]
  BY DEF CountUsers, AdminInv, TypeOK, Walks
<1>3. walk \in Walks /\ t \in SUBSET Queries /\ k \in Nat
  BY PresentType, AccountsFinite DEF AdminInv, TypeOK, Walks
<1>4. ("find" \in t <=> "find" \in walk.todo) /\ (t = {} => "find" \notin walk.todo)
  OBVIOUS
<1>5. ASSUME NEW a \in walk.missing
      PROVE  /\ a \in Present /\ Position(a) > Given
             /\ Position(a) \in Nat /\ Position(a) <= k
  <2>1. a \in Present /\ Position(a) > Given
    BY <1>1 DEF AdminInv, WalkInv
  <2> QED
    BY <2>1, PositionType
<1> HIDE DEF t, k
<1>6. /\ walk' \in Walks /\ walk'.pc = "ask" /\ walk'.page = walk.page /\ walk'.todo = t
      /\ walk'.total = k /\ walk'.missing = walk.missing
  BY <1>1, <1>2, <1>3 DEF Walks
<1>7. Given' = Given
  BY <1>4, <1>6 DEF Given
<1>8. Present' = Present /\ \A a : Position(a)' = Position(a)
  BY <1>1 DEF Present, Ranked, Position
<1>9. t = {} /\ k <= walk.page * Limit => walk.missing = {}
  <2>1. SUFFICES ASSUME t = {}, k <= walk.page * Limit, NEW a \in walk.missing PROVE FALSE
    OBVIOUS
  <2>2. Given = walk.page * Limit /\ walk.page * Limit \in Int
    BY <1>4, <2>1, WalkTypes DEF Given, AdminInv
  <2> QED
    BY <1>3, <1>5, <2>1, <2>2
<1>10. WalkInv'
  BY <1>5, <1>6, <1>7, <1>8, <1>9 DEF WalkInv
<1> QED
  BY <1>1, <1>6, <1>10, QuietWalk

LEMMA AnswerPageInv ==
  ASSUME AdminInv, AnswerPage
  PROVE  AdminInv'
<1>1. /\ UNCHANGED <<role, account, h, seeder, fresh, spoiled>>
      /\ walk.pc = "ask" /\ walk.todo = {} /\ walk \in Walks /\ WalkInv
  BY DEF AnswerPage, AdminInv, TypeOK
<1>2. /\ walk.page \in Nat \ {0} /\ walk.total \in Nat
      /\ walk.page * Limit \in Int
      /\ walk.page * Limit = (walk.page - 1) * Limit + Limit
  BY WalkTypes DEF AdminInv
<1>3. CASE walk.page * Limit < walk.total
  <2>1. walk' = [walk EXCEPT !.page = walk.page + 1, !.todo = Queries, !.total = 0]
    BY <1>1, <1>3 DEF AnswerPage, BuildPaginationMeta, Walks
  <2>2. /\ walk' \in Walks /\ walk'.pc = "ask" /\ walk'.page = walk.page + 1
        /\ walk'.todo = Queries /\ walk'.missing = walk.missing
    <3>1. walk.page + 1 \in Nat \ {0} /\ 0 \in Nat /\ Queries \in SUBSET Queries
      BY <1>2
    <3> QED
      BY <1>1, <2>1, <3>1 DEF Walks
  <2>3. Given' = walk.page * Limit
    <3>1. walk'.page - 1 = walk.page /\ "find" \in walk'.todo
      BY <1>2, <2>2 DEF Queries
    <3> QED
      BY <1>2, <3>1 DEF Given
  <2>4. Given = walk.page * Limit
    BY <1>1, <1>2 DEF Given
  <2>5. \A a \in walk.missing : a \in Present' /\ Position(a)' > Given'
    <3>1. Present' = Present /\ \A a : Position(a)' = Position(a)
      BY <1>1 DEF Present, Ranked, Position
    <3> QED
      BY <1>1, <2>3, <2>4, <3>1 DEF WalkInv
  <2>6. walk'.todo # {"find"} /\ walk'.todo # {}
    BY <2>2 DEF Queries
  <2>7. WalkInv'
    BY <2>2, <2>5, <2>6 DEF WalkInv
  <2> QED
    BY <1>1, <2>2, <2>7, QuietWalk
<1>4. CASE ~(walk.page * Limit < walk.total)
  <2>1. walk' = [walk EXCEPT !.pc = "ended"]
    BY <1>4 DEF AnswerPage, BuildPaginationMeta
  <2>2. walk' \in Walks /\ walk'.pc = "ended" /\ walk'.todo = {} /\ walk'.missing = walk.missing
    BY <1>1, <2>1 DEF Walks
  <2>3. walk.missing = {}
    BY <1>1, <1>2, <1>4 DEF WalkInv
  <2>4. WalkInv'
    BY <2>2, <2>3 DEF WalkInv
  <2> QED
    BY <1>1, <2>2, <2>4, QuietWalk
<1> QED
  BY <1>3, <1>4

LEMMA EndWalkInv ==
  ASSUME AdminInv, EndWalk
  PROVE  AdminInv'
  BY NoWalkFacts, QuietWalk DEF EndWalk

-----------------------------------------------------------------------------
(* The invariant *)

LEMMA AdminInvInit == Init => AdminInv
<1> SUFFICES ASSUME Init PROVE AdminInv
  OBVIOUS
<1>1. NoRole \in Roles /\ NoRole.name = None /\ ~NoRole.system
  BY DEF NoRole, Roles
<1>2. TypeOK
  <2>1. role \in [RoleIds -> Roles] /\ fresh \in BOOLEAN /\ spoiled \in SUBSET Names
    BY <1>1 DEF Init
  <2>2. account \in [Accounts -> Users]
    BY RanksAssumption DEF Init, NoAccount, Users
  <2>3. h \in [Procs -> Requests]
    BY DEF Init, Idle, Requests
  <2>4. seeder \in [Seeders -> Seedings]
    BY DEF Init, Off, Seedings
  <2>5. walk \in Walks
    BY NoWalkFacts DEF Init, NoWalk, Walks
  <2> QED
    BY <2>1, <2>2, <2>3, <2>4, <2>5 DEF TypeOK
<1>3. RequestsInv
  BY DEF Init, Idle, RequestsInv
<1>4. DrawnInv
  <2>1. \A i \in RoleIds : role[i].name = None /\ ~role[i].system
    BY <1>1 DEF Init
  <2>2. \A a \in Accounts : account[a].rank # None => account[a].drawn
    BY DEF Init, NoAccount
  <2> QED
    BY <2>1, <2>2 DEF DrawnInv
<1>5. OneRolePerName
  BY <1>1 DEF Init, OneRolePerName
<1>6. SeedInv /\ SeededSuperAdmin
  BY DEF Init, Off, SeedInv, Seeded, SeededSuperAdmin
<1>7. FreshInv
  <2>1. SUFFICES ASSUME fresh
                 PROVE  /\ spoiled = {}
                        /\ \A i \in RoleIds : role[i].name = None
                        /\ \A p \in Procs : h[p].pc = "idle"
                        /\ Admins = {}
    BY DEF FreshInv
  <2>2. \A a \in Accounts : account[a].rank = None
    BY <2>1 DEF Init, NoAccount
  <2>3. Admins = {}
    BY <2>2, RanksAssumption, NoneIsFresh DEF Admins, Ranked
  <2> QED
    BY <1>1, <2>3 DEF Init, Idle
<1>8. WalkInv
  BY DEF Init, NoWalk, WalkInv
<1> QED
  BY <1>2, <1>3, <1>4, <1>5, <1>6, <1>7, <1>8 DEF AdminInv

LEMMA AdminInvNext == AdminInv /\ [Next]_vars => AdminInv'
<1> SUFFICES ASSUME AdminInv, [Next]_vars PROVE AdminInv'
  OBVIOUS
<1>1. CASE UNCHANGED vars
  BY <1>1, WalkSame, QuietWalk DEF vars, AdminInv, TypeOK
<1>2. ASSUME NEW p \in Procs, NEW n \in Names, Call(p, "createRole", n, 0)
      PROVE  AdminInv'
  BY <1>2, CallInv
<1>3. ASSUME NEW p \in Procs, NEW i \in RoleIds,
             Call(p, "updateRole", None, i) \/ Call(p, "deleteRole", None, i)
      PROVE  AdminInv'
  BY <1>3, CallInv
<1>4. ASSUME NEW p \in Procs, HandlerStep(p) PROVE AdminInv'
  BY <1>4, FindInv, CreateRoleInv, UpdateRoleInv, DeleteRoleInv DEF HandlerStep
<1>5. ASSUME NEW p \in Procs, RequestFails(p) PROVE AdminInv'
  BY <1>5, RequestFailsInv DEF RequestFails
<1>6. ASSUME NEW s \in Seeders, StartSeeder(s) \/ SeederStep(s) \/ SeederFails(s)
      PROVE  AdminInv'
  <2>1. CASE StartSeeder(s)
    BY <2>1, StartSeederInv
  <2>2. CASE SeederStep(s)
    BY <2>2, UpsertInv, LookInv, CreateSuperAdminInv DEF SeederStep
  <2>3. CASE SeederFails(s)
    BY <2>3, SeederFailsInv DEF SeederFails
  <2> QED
    BY <1>6, <2>1, <2>2, <2>3
<1>7. ASSUME NEW a \in Accounts,
             \/ \E default \in BOOLEAN : Register(a, default)
             \/ \E r \in Ranks : UpdateUserRole(a, r)
             \/ DeleteUser(a)
      PROVE  AdminInv'
  BY <1>7, RegisterInv, UpdateUserRoleInv, DeleteUserInv
<1>8. CASE StartWalk \/ Page \/ EndWalk
  BY <1>8, StartWalkInv, FindPageInv, CountUsersInv, AnswerPageInv, EndWalkInv DEF Page
<1> QED
  BY <1>1, <1>2, <1>3, <1>4, <1>5, <1>6, <1>7, <1>8 DEF Next

-----------------------------------------------------------------------------
(* Frozen roles *)

\* A request that ends, or goes on to something else, leaves role i unwatched.
LEMMA StillUnwatched ==
  ASSUME NEW i \in RoleIds, NEW p \in Procs, Frozen(i), Others(p), role'[i] = role[i],
         h'[p].pc = "write" => h'[p].id # i
  PROVE  Frozen(i)'
  BY DEF Frozen, Unwatched, Others

LEMMA RequestFreezes ==
  ASSUME AdminInv, NEW i \in RoleIds, Frozen(i), NEW p \in Procs, HandlerStep(p)
  PROVE  Frozen(i)' /\ role'[i] = role[i]
<1>1. TypeOK /\ h \in Handlers
  BY DEF AdminInv, TypeOK, Handlers
<1>2. CASE Find(p)
  <2>1. /\ Others(p)
        /\ \/ h'[p].pc = "idle"
           \/ /\ h'[p].id = h[p].id
              /\ h[p].op # "createRole" => ~role[h[p].id].system
    BY <1>1, <1>2, FindFacts
  <2>2. h[p].op = "createRole" => h[p].id = 0
    BY <1>2 DEF Find, AdminInv, RequestsInv
  <2>3. i # 0 /\ role[i].system
    BY BoundsAssumption DEF RoleIds, Frozen
  <2>4. UNCHANGED role
    BY <1>2 DEF Find
  <2> QED
    BY <2>1, <2>2, <2>3, <2>4, StillUnwatched
<1>3. ASSUME NEW j \in RoleIds, CreateRole(p, j) PROVE Frozen(i)' /\ role'[i] = role[i]
  <2>1. h'[p].pc = "idle" /\ Others(p)
    BY <1>1, <1>3, IdleFacts DEF CreateRole
  <2>2. i # j
    BY <1>3 DEF CreateRole, NextRoleId, Frozen, AdminInv, DrawnInv
  <2>3. role'[i] = role[i]
    BY <1>1, <1>3, <2>2 DEF CreateRole, TypeOK
  <2> QED
    BY <2>1, <2>3, StillUnwatched
<1>4. CASE UpdateRole(p) \/ DeleteRole(p)
  <2>1. h[p].pc = "write" /\ h[p].op # "createRole" /\ Become(p, Idle)
    BY <1>4 DEF UpdateRole, DeleteRole
  <2>2. h'[p].pc = "idle" /\ Others(p)
    BY <1>1, <2>1, IdleFacts
  <2>3. h[p].id \in RoleIds /\ h[p].id # i
    BY <2>1 DEF AdminInv, RequestsInv, Frozen, Unwatched
  <2>4. role'[i] = role[i]
    BY <1>1, <1>4, <2>3, UpdateRoleFacts, DeleteRoleFacts DEF UpdateRole, DeleteRole
  <2> QED
    BY <2>2, <2>4, StillUnwatched
<1> QED
  BY <1>2, <1>3, <1>4 DEF HandlerStep

LEMMA UpsertFreezes ==
  ASSUME AdminInv, NEW i \in RoleIds, Frozen(i), NEW s \in Seeders, NEW n \in Names,
         Upsert(s, n)
  PROVE  Frozen(i)' /\ role'[i] = role[i]
<1>1. UNCHANGED h /\ TypeOK
  BY DEF Upsert, AdminInv
<1>2. role'[i] = role[i]
  <2>1. CASE Named(n) = {}
    <3>1. PICK j \in RoleIds : NextRoleId(j) /\ role' = [role EXCEPT ![j] = SystemRole(n)]
      BY <2>1 DEF Upsert
    <3>2. i # j
      BY <3>1 DEF NextRoleId, Frozen, AdminInv, DrawnInv
    <3> QED
      BY <1>1, <3>1, <3>2 DEF TypeOK
  <2>2. CASE Named(n) # {}
    <3>1. Overwrite(n)
      BY <1>1, <2>2, OverwriteFacts DEF Upsert
    <3> QED
      BY <3>1 DEF Overwrite, Frozen
  <2> QED
    BY <2>1, <2>2
<1> QED
  BY <1>1, <1>2 DEF Frozen, Unwatched

LEMMA FrozenStep ==
  AdminInv /\ [Next]_vars => \A i \in RoleIds : Frozen(i) => Frozen(i)' /\ role'[i] = role[i]
<1> SUFFICES ASSUME AdminInv, [Next]_vars, NEW i \in RoleIds, Frozen(i)
             PROVE  Frozen(i)' /\ role'[i] = role[i]
  OBVIOUS
<1>1. CASE UNCHANGED <<role, h>>
  BY <1>1 DEF Frozen, Unwatched
<1>2. ASSUME NEW p \in Procs, NEW n \in Names, Call(p, "createRole", n, 0)
      PROVE  Frozen(i)' /\ role'[i] = role[i]
  <2>1. h'[p].pc = "find" /\ Others(p)
    BY <1>2, CallFacts DEF AdminInv
  <2> QED
    BY <1>2, <2>1, StillUnwatched DEF Call
<1>3. ASSUME NEW p \in Procs, NEW j \in RoleIds,
             Call(p, "updateRole", None, j) \/ Call(p, "deleteRole", None, j)
      PROVE  Frozen(i)' /\ role'[i] = role[i]
  <2>1. h'[p].pc = "find" /\ Others(p)
    BY <1>3, CallFacts DEF AdminInv
  <2> QED
    BY <1>3, <2>1, StillUnwatched DEF Call
<1>4. ASSUME NEW p \in Procs, HandlerStep(p) PROVE Frozen(i)' /\ role'[i] = role[i]
  BY <1>4, RequestFreezes
<1>5. ASSUME NEW p \in Procs, RequestFails(p) PROVE Frozen(i)' /\ role'[i] = role[i]
  <2>1. h'[p].pc = "idle" /\ Others(p)
    BY <1>5, IdleFacts DEF RequestFails, AdminInv, TypeOK, Handlers
  <2> QED
    BY <1>5, <2>1, StillUnwatched DEF RequestFails
<1>6. ASSUME NEW s \in Seeders, NEW n \in Names, Upsert(s, n)
      PROVE  Frozen(i)' /\ role'[i] = role[i]
  BY <1>6, UpsertFreezes
<1>7. CASE \E s \in Seeders : StartSeeder(s) \/ LookForSuperAdmin(s) \/ SeederFails(s)
                               \/ \E a \in Accounts : CreateSuperAdmin(s, a)
  BY <1>1, <1>7 DEF StartSeeder, LookForSuperAdmin, SeederFails, CreateSuperAdmin
<1>8. CASE \E a \in Accounts : \/ \E default \in BOOLEAN : Register(a, default)
                               \/ \E r \in Ranks : UpdateUserRole(a, r)
                               \/ DeleteUser(a)
  BY <1>1, <1>8 DEF Register, UpdateUserRole, DeleteUser
<1>9. CASE StartWalk \/ Page \/ EndWalk
  BY <1>1, <1>9 DEF StartWalk, Page, EndWalk, FindPage, CountUsers, AnswerPage
<1>10. CASE UNCHANGED vars
  BY <1>1, <1>10 DEF vars
<1> QED
  BY <1>2, <1>3, <1>4, <1>5, <1>6, <1>7, <1>8, <1>9, <1>10 DEF Next, SeederStep

-----------------------------------------------------------------------------
(* Theorems *)

\* The invariant holds of the role endpoints, the seeder and the listing, in
\* any number.
THEOREM Invariance == Spec => []AdminInv
<1> QED
  BY AdminInvInit, AdminInvNext, PTL DEF Spec

\* Requests, documents and processes keep their shape.
THEOREM TypeCorrectness == Spec => []TypeOK
<1>1. AdminInv => TypeOK
  BY DEF AdminInv
<1> QED
  BY <1>1, Invariance, PTL

\* createRole and the seeder never leave two documents for a name.
THEOREM UniqueRoleNames == Spec => []OneRolePerName
<1>1. AdminInv => OneRolePerName
  BY DEF AdminInv
<1> QED
  BY <1>1, Invariance, PTL

\* In a database without an admin the system roles come before anybody who
\* could write a role.
THEOREM FirstSeedUndisturbed == Spec => []FreshRolesAreSystem
<1>1. AdminInv => FreshRolesAreSystem
  BY DEF AdminInv, FreshInv, FreshRolesAreSystem
<1> QED
  BY <1>1, Invariance, PTL

\* What a seeder has stored stays stored, but for what requests in flight spoil.
THEOREM SeededRoles == Spec => []SeededRolesStay
<1>1. AdminInv => SeededRolesStay
  BY DEF AdminInv, SeedInv, Seeded, SeededRolesStay
<1> QED
  BY <1>1, Invariance, PTL

\* A seeder that ends well leaves a super admin.
THEOREM SuperAdminAfterSeeding == Spec => []SeededSuperAdmin
<1>1. AdminInv => SeededSuperAdmin
  BY DEF AdminInv
<1> QED
  BY <1>1, Invariance, PTL

\* Who follows hasNextPage to the end misses nobody, for any page size.
THEOREM CompleteWalks == Spec => []WalkSeesAll
<1>1. AdminInv => WalkSeesAll
  BY DEF AdminInv, WalkInv, WalkSeesAll
<1> QED
  BY <1>1, Invariance, PTL

\* A system role that no request had read as another is never changed again.
THEOREM FrozenForGood == Spec => SystemRolesFreeze
<1>1. AdminInv /\ [Next]_vars =>
        [\A i \in RoleIds : Frozen(i) => Frozen(i)' /\ role'[i] = role[i]]_vars
  BY FrozenStep
<1> QED
  BY <1>1, Invariance, PTL DEF Spec, SystemRolesFreeze

-----------------------------------------------------------------------------
(* The length of a walk *)

LEMMA RegisteredType == Registered \in SUBSET Accounts /\ Registered' \in SUBSET Accounts
  BY DEF Registered

\* Account a changes to x, which was handed out.
LEMMA RegisteredGrows ==
  ASSUME account \in [Accounts -> Users], NEW a \in Accounts, NEW x, x.drawn,
         account' = [account EXCEPT ![a] = x]
  PROVE  Registered \subseteq Registered'
  BY DEF Registered

\* Nobody is forgotten who was ever registered.
LEMMA RegisteredStay == AdminInv /\ [Next]_vars => Registered \subseteq Registered'
<1> SUFFICES ASSUME AdminInv, [Next]_vars PROVE Registered \subseteq Registered'
  OBVIOUS
<1>1. account \in [Accounts -> Users]
  BY DEF AdminInv, TypeOK
<1>2. CASE account' = account
  BY <1>2 DEF Registered
<1>3. ASSUME NEW a \in Accounts, NEW x, x.drawn, account' = [account EXCEPT ![a] = x]
      PROVE  Registered \subseteq Registered'
  BY <1>1, <1>3, RegisteredGrows
<1>4. ASSUME NEW s \in Seeders, NEW a \in Accounts, CreateSuperAdmin(s, a)
      PROVE  Registered \subseteq Registered'
  <2> DEFINE x == [rank |-> "super_admin", default |-> TRUE, drawn |-> TRUE]
  <2>1. x.drawn
    OBVIOUS
  <2>2. account' = account \/ account' = [account EXCEPT ![a] = x]
    BY <1>4 DEF CreateSuperAdmin
  <2> HIDE DEF x
  <2> QED
    BY <1>2, <1>3, <2>1, <2>2
<1>5. ASSUME NEW a \in Accounts, NEW default \in BOOLEAN, Register(a, default)
      PROVE  Registered \subseteq Registered'
  <2> DEFINE x == [rank |-> "employee", default |-> default, drawn |-> TRUE]
  <2>1. x.drawn
    OBVIOUS
  <2>2. account' = [account EXCEPT ![a] = x]
    BY <1>5 DEF Register
  <2> HIDE DEF x
  <2> QED
    BY <1>3, <2>1, <2>2
<1>6. ASSUME NEW a \in Accounts, NEW r \in Ranks, UpdateUserRole(a, r)
      PROVE  Registered \subseteq Registered'
  <2>1. account' = [account EXCEPT ![a].rank = r]
    BY <1>6 DEF UpdateUserRole
  <2>2. \A b \in Accounts : account'[b].drawn = account[b].drawn
    BY <1>1, <2>1 DEF Users
  <2> QED
    BY <2>2 DEF Registered
<1>7. ASSUME NEW a \in Accounts, DeleteUser(a)
      PROVE  Registered \subseteq Registered'
  <2> DEFINE x == [NoAccount EXCEPT !.drawn = TRUE]
  <2>1. x.drawn
    BY DEF NoAccount
  <2>2. account' = [account EXCEPT ![a] = x]
    BY <1>7 DEF DeleteUser
  <2> HIDE DEF x
  <2> QED
    BY <1>3, <2>1, <2>2
<1>8. ASSUME NEW p \in Procs,
             \/ \E n \in Names : Call(p, "createRole", n, 0)
             \/ \E i \in RoleIds : Call(p, "updateRole", None, i) \/ Call(p, "deleteRole", None, i)
             \/ HandlerStep(p) \/ RequestFails(p)
      PROVE  account' = account
  BY <1>8 DEF Call, HandlerStep, Find, UpdateRole, DeleteRole, CreateRole, RequestFails
<1>9. ASSUME NEW s \in Seeders,
             \/ StartSeeder(s) \/ SeederFails(s) \/ LookForSuperAdmin(s)
             \/ \E n \in Names : Upsert(s, n)
      PROVE  account' = account
  BY <1>9 DEF StartSeeder, SeederFails, LookForSuperAdmin, Upsert
<1>10. CASE StartWalk \/ Page \/ EndWalk \/ UNCHANGED vars
  BY <1>2, <1>10 DEF StartWalk, Page, FindPage, CountUsers, AnswerPage, EndWalk, vars
<1> QED
  BY <1>2, <1>4, <1>5, <1>6, <1>7, <1>8, <1>9, <1>10 DEF Next, SeederStep

\* Page number and count of a walk: they start anew, stay, or move by an answer or
\* a count.
LEMMA WalkMoves ==
  ASSUME AdminInv, [Next]_vars
  PROVE  \/ walk'.page = 1 /\ walk'.total = 0
         \/ walk'.page = walk.page /\ walk'.total \in {walk.total, Cardinality(Present)}
         \/ /\ walk.page * Limit < walk.total
            /\ walk'.page = walk.page + 1 /\ walk'.total = 0
<1> DEFINE Anew == walk'.page = 1 /\ walk'.total = 0
           Stays == walk'.page = walk.page /\ walk'.total \in {walk.total, Cardinality(Present)}
<1>1. walk \in Walks
  BY DEF AdminInv, TypeOK
<1>2. CASE walk' = walk
  BY <1>2
<1>3. CASE walk' = NoWalk
  BY <1>3 DEF NoWalk
<1>4. CASE Arrival
  BY <1>2, <1>3, <1>4 DEF Arrival
<1>5. ASSUME NEW a \in Accounts, Departure(a) PROVE Anew \/ Stays
  BY <1>1, <1>5 DEF Departure, NoWalk, Walks
<1>6. CASE StartWalk
  BY <1>6 DEF StartWalk, NoWalk, FirstPage
<1>7. CASE FindPage
  BY <1>1, <1>7 DEF FindPage, Walks
<1>8. CASE CountUsers
  BY <1>1, <1>8 DEF CountUsers, Walks
<1>9. CASE AnswerPage
  BY <1>1, <1>9 DEF AnswerPage, BuildPaginationMeta, Walks
<1>10. ASSUME NEW p \in Procs,
             \/ \E n \in Names : Call(p, "createRole", n, 0)
             \/ \E i \in RoleIds : Call(p, "updateRole", None, i) \/ Call(p, "deleteRole", None, i)
             \/ HandlerStep(p) \/ RequestFails(p)
       PROVE  walk' = walk
  BY <1>10 DEF Call, HandlerStep, Find, UpdateRole, DeleteRole, CreateRole, RequestFails
<1>11. ASSUME NEW s \in Seeders, StartSeeder(s) \/ SeederStep(s) \/ SeederFails(s)
       PROVE  walk' = walk \/ Arrival
  BY <1>11 DEF StartSeeder, SeederStep, SeederFails, LookForSuperAdmin, Upsert, CreateSuperAdmin
<1>12. ASSUME NEW a \in Accounts,
              \/ \E default \in BOOLEAN : Register(a, default)
              \/ \E r \in Ranks : UpdateUserRole(a, r)
              \/ DeleteUser(a)
       PROVE  walk' = walk \/ Arrival \/ Departure(a)
  BY <1>12 DEF Register, UpdateUserRole, DeleteUser
<1>13. CASE EndWalk
  BY <1>3, <1>13 DEF EndWalk
<1>14. CASE UNCHANGED vars
  BY <1>2, <1>14 DEF vars
<1> QED
  BY <1>2, <1>4, <1>5, <1>6, <1>7, <1>8, <1>9, <1>10, <1>11, <1>12, <1>13, <1>14 DEF Next, Page

LEMMA WalkComesNext == AdminInv /\ WalkComesToEnd /\ [Next]_vars => WalkComesToEnd'
<1> SUFFICES ASSUME AdminInv, WalkComesToEnd, [Next]_vars PROVE WalkComesToEnd'
  OBVIOUS
<1> DEFINE n == Cardinality(Registered)
           m == Cardinality(Registered')
<1>1. n \in Nat /\ m \in Nat /\ n <= m
  BY RegisteredType, RegisteredStay, AccountsFinite, FS_Subset
<1>2. Cardinality(Present) \in Nat /\ Cardinality(Present) <= n
  <2>1. Present \subseteq Registered
    BY NoneIsFresh DEF Present, Ranked, Registered, AdminInv, DrawnInv
  <2> QED
    BY <2>1, PresentType, RegisteredType, AccountsFinite, FS_Subset
<1>3. /\ walk.page \in Nat \ {0} /\ walk.total \in Nat
      /\ walk.page * Limit \in Int /\ (walk.page - 1) * Limit \in Int
  BY WalkTypes DEF AdminInv
<1>4. walk.total <= n /\ (walk.page = 1 \/ (walk.page - 1) * Limit < n)
  BY DEF WalkComesToEnd, Skip
<1>5. WalkComesToEnd' <=> /\ walk'.total <= m
                          /\ walk'.page = 1 \/ (walk'.page - 1) * Limit < m
  BY DEF WalkComesToEnd, Skip
<1> HIDE DEF n, m
<1>6. CASE walk'.page = 1 /\ walk'.total = 0
  BY <1>1, <1>5, <1>6
<1>7. CASE walk'.page = walk.page /\ walk'.total \in {walk.total, Cardinality(Present)}
  BY <1>1, <1>2, <1>3, <1>4, <1>5, <1>7
<1>8. CASE /\ walk.page * Limit < walk.total
           /\ walk'.page = walk.page + 1 /\ walk'.total = 0
  <2>1. walk'.page - 1 = walk.page
    BY <1>3, <1>8
  <2> QED
    BY <1>1, <1>3, <1>4, <1>5, <1>8, <2>1
<1> QED
  BY <1>6, <1>7, <1>8, WalkMoves

\* Who follows hasNextPage is not led on for ever: no page is asked for that starts
\* behind all accounts ever registered (BaseRepository.paginate).
THEOREM WalksEnd == Spec => []WalkComesToEnd
<1>1. Init => WalkComesToEnd
  <2>1. Cardinality(Registered) \in Nat
    BY RegisteredType, AccountsFinite
  <2> QED
    BY <2>1 DEF Init, NoWalk, WalkComesToEnd
<1> QED
  BY <1>1, WalkComesNext, Invariance, PTL DEF Spec

=============================================================================

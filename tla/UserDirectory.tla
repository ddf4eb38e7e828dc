---------------------------- MODULE UserDirectory ----------------------------
(***************************************************************************)
(* The user endpoints (modules/users): who may call which route, what the  *)
(* validation lets through, and the profile copies that Redis keeps beside *)
(* the users collection (cache/user.cache.js).                             *)
(*                                                                         *)
(* A request runs on one of Procs.  The middleware reads its user and then *)
(* guard, validation and handler run on to the first await of the handler: *)
(* that is one step here; afterwards each call to MongoDB or Redis is one. *)
(***************************************************************************)
EXTENDS Naturals, FiniteSets

CONSTANTS
  Users,   \* accounts
  Procs,   \* requests that can be in flight at once
  Names,   \* values of the profile fields: names, phone, metadata, avatar
  Held,    \* the roles that accounts have or are given
  None,    \* "no user", "no copy"
  Ops,     \* the routes in use, and "auth" for the writes of the auth module
  Faults   \* "redis" when calls to Redis may be rejected

Roles == {"employee", "manager", "admin", "super_admin"}

Permissions ==
  {"user:read", "user:create", "user:update", "user:delete", "role:read",
   "role:create", "role:update", "role:delete", "auth:manage", "audit:read"}

RolePermissions ==
  [employee    |-> {"user:read"},
   manager     |-> {"user:read", "user:create", "user:update"},
   admin       |-> {"user:read", "user:create", "user:update", "user:delete",
                    "role:read", "audit:read"},
   super_admin |-> Permissions]

Reads == {"getProfile", "getUserById"}

Writes == {"updateProfile", "uploadAvatar", "updateUser", "updateRole",
           "deactivateUser", "deleteUser"}

Routes == Reads \cup Writes \cup {"getUsers"}

ASSUME NoneIsFresh == None \notin Users \cup Procs

ASSUME ScopeAssumption ==
  /\ Ops \subseteq Routes \cup {"auth"}
  /\ Faults \subseteq {"redis"}
  /\ Held \subseteq Roles

VARIABLES
  user,   \* users collection
  cache,  \* Redis keys user:<id>: the copy; history: has it missed a write
  h       \* requests

vars == <<user, cache, h>>

-----------------------------------------------------------------------------
(* Guards and validation *)

AuthorizeRoles(r, allowed) == r \in allowed

RequirePermission(r, permission) == permission \in RolePermissions[r]

AuthorizeOwnerOrRole(a, r, t, admins) == a = t \/ r \in admins

\* The routes without :id act on the caller.
HasId(o) == o \in {"getUserById", "updateUser", "updateRole", "deactivateUser",
                   "deleteUser"}

\* Mutant: deleteUser has the guard of deactivateUser.
PermitsAdmins(o, a, r, t) ==
  \/ o \in {"getProfile", "updateProfile", "uploadAvatar"}
  \/ o \in {"getUsers", "getUserById"} /\ RequirePermission(r, "user:read")
  \/ o = "updateUser" /\ AuthorizeOwnerOrRole(a, r, t, {"admin", "super_admin"})
  \/ o \in {"updateRole", "deactivateUser", "deleteUser"}
       /\ AuthorizeRoles(r, {"admin", "super_admin"})

\* user.routes.js: may account a, of role r, call route o on account t?
Permits(o, a, r, t) ==
  \/ o \in {"getProfile", "updateProfile", "uploadAvatar"}
  \/ o \in {"getUsers", "getUserById"} /\ RequirePermission(r, "user:read")
  \/ o = "updateUser" /\ AuthorizeOwnerOrRole(a, r, t, {"admin", "super_admin"})
  \/ o \in {"updateRole", "deactivateUser"}
       /\ AuthorizeRoles(r, {"admin", "super_admin"})
  \/ o = "deleteUser" /\ AuthorizeRoles(r, {"super_admin"})

\* A body: "name" stands for all the profile fields, None for an absent key.
Bodies == [name : Names \cup {None}, role : Held \cup {None}]

Empty == [name |-> None, role |-> None]

TakesName(o) == o \in {"updateUser", "updateProfile", "uploadAvatar"}

\* Joi: the schema of updateUser has params.id, whichever route it is used on;
\* a body without a known key is refused; unknown keys are dropped.
Valid(o, body) ==
  /\ o = "updateProfile" => HasId(o)
  /\ TakesName(o) => body.name # None
  /\ o = "updateRole" => body.role # None

\* Mutant: unknown keys stay in the body.
KeepsUnknown(o, body) == body

StripUnknown(o, body) ==
  [name |-> IF TakesName(o) THEN body.name ELSE None,
   role |-> IF o = "updateRole" THEN body.role ELSE None]

-----------------------------------------------------------------------------

Idle == [pc |-> "idle", op |-> "none", actor |-> None, role |-> "employee",
         target |-> None, body |-> Empty, copy |-> None,
         missed |-> FALSE, todo |-> {}, status |-> 0]

NoCopy == [val |-> None, missed |-> FALSE]

Become(p, r) == h' = [h EXCEPT ![p] = r]

\* The answer of a request r: its status, and the body if that was refused.
Answered(r, s) ==
  [Idle EXCEPT !.pc = "answered", !.op = r.op, !.status = s,
               !.body = IF s = 400 THEN r.body ELSE Empty]

Answer(p, s) == Become(p, Answered(h[p], s))

Init ==
  /\ user \in [Users -> [there : {TRUE}, active : {TRUE}, role : Held,
                         name : Names, seen : {FALSE}]]
  /\ cache = [u \in Users |-> NoCopy]
  /\ h = [p \in Procs |-> Idle]

\* The first await of each handler.
Entry(o) ==
  IF o \in Reads THEN "get" ELSE IF o = "getUsers" THEN "list" ELSE "write"

\* authenticate has read account a; guard and validation of route o follow.
Call(p, a, o, t, body) ==
  LET request == [Idle EXCEPT !.op = o, !.actor = a, !.role = user[a].role,
                              !.target = t, !.body = body] IN
  /\ o \in Ops \ {"auth"}
  /\ h[p].pc = "idle"
  /\ user[a].there /\ user[a].active
  /\ ~HasId(o) => t = a
  /\ ~TakesName(o) /\ o # "updateRole" => body = Empty
  /\ \/ /\ ~Permits(o, a, user[a].role, t)
        /\ Become(p, Answered(request, 403))
     \/ /\ Permits(o, a, user[a].role, t) /\ ~Valid(o, body)
        /\ Become(p, Answered(request, 400))
     \/ /\ Permits(o, a, user[a].role, t) /\ Valid(o, body)
        /\ Become(p, [request EXCEPT !.pc = Entry(o), !.body = StripUnknown(o, body)])
  /\ UNCHANGED <<user, cache>>

-----------------------------------------------------------------------------
(* getUserById: cache-aside *)

\* cache.get answers null on a miss and when Redis fails.
GetUserFromCache(p) ==
  LET t == h[p].target IN
  /\ h[p].pc = "get"
  /\ \/ cache[t].val # None /\ Answer(p, 200)
     \/ /\ cache[t].val = None \/ "redis" \in Faults
        /\ Become(p, [h[p] EXCEPT !.pc = "find"])
  /\ UNCHANGED <<user, cache>>

FindById(p) ==
  LET t == h[p].target IN
  /\ h[p].pc = "find"
  /\ IF user[t].there
     THEN Become(p, [h[p] EXCEPT !.pc = "set", !.copy = user[t]])
     ELSE Answer(p, 404)
  /\ UNCHANGED <<user, cache>>

SetUserInCache(p) ==
  LET t == h[p].target IN
  /\ h[p].pc = "set"
  /\ \/ cache' = [cache EXCEPT ![t] = [val |-> h[p].copy, missed |-> h[p].missed]]
     \/ "redis" \in Faults /\ UNCHANGED cache
  /\ Answer(p, 200)
  /\ UNCHANGED user

\* getUsers goes to MongoDB each time.
List(p) ==
  /\ h[p].pc = "list"
  /\ Answer(p, 200)
  /\ UNCHANGED <<user, cache>>

-----------------------------------------------------------------------------
(* The writes: update the document, then delete the copy *)

\* Mutant: $set with the keys that are absent from the body.
UpdatedBlindly(d, r) ==
  CASE r.op = "deleteUser"     -> [d EXCEPT !.there = FALSE]
    [] r.op = "deactivateUser" -> [d EXCEPT !.active = FALSE]
    [] OTHER -> [d EXCEPT !.name = r.body.name, !.role = r.body.role]

\* The document d after the write that request r asks for.
Updated(d, r) ==
  CASE r.op = "deleteUser"     -> [d EXCEPT !.there = FALSE]
    [] r.op = "deactivateUser" -> [d EXCEPT !.active = FALSE]
    [] OTHER -> [d EXCEPT !.name = IF r.body.name # None THEN r.body.name ELSE @,
                          !.role = IF r.body.role # None THEN r.body.role ELSE @]

\* A write to u passes by the requests that have read u and have yet to fill
\* the cache; the writer p becomes r.
PassBy(u, p, r) ==
  h' = [q \in Procs |->
          IF q = p THEN r
          ELSE IF h[q].pc = "set" /\ h[q].target = u THEN [h[q] EXCEPT !.missed = TRUE]
          ELSE h[q]]

\* Mutant: updateUserRole forgets the cache.
UpdateByIdNoRole(p) ==
  LET t == h[p].target IN
  /\ h[p].pc = "write"
  /\ IF user[t].there
     THEN /\ user' = [user EXCEPT ![t] = Updated(user[t], h[p])]
          /\ PassBy(t, p, [h[p] EXCEPT !.pc = "invalidate",
                    !.todo = IF h[p].op = "updateRole" THEN {} ELSE {"user"}])
     ELSE Answer(p, 404) /\ UNCHANGED user
  /\ UNCHANGED cache

\* findByIdAndUpdate or findByIdAndDelete; then one or two deletions in Redis.
UpdateById(p) ==
  LET t == h[p].target IN
  /\ h[p].pc = "write"
  /\ IF user[t].there
     THEN /\ user' = [user EXCEPT ![t] = Updated(user[t], h[p])]
          /\ PassBy(t, p, [h[p] EXCEPT !.pc = "invalidate",
                    !.todo = IF h[p].op \in {"updateUser", "updateProfile", "deleteUser"}
                             THEN {"user", "list"} ELSE {"user"}])
     ELSE Answer(p, 404) /\ UNCHANGED user
  /\ UNCHANGED cache

\* cache.del swallows a rejection.
DeleteUserFromCache(p) ==
  /\ h[p].pc = "invalidate" /\ "user" \in h[p].todo
  /\ \/ cache' = [cache EXCEPT ![h[p].target] = NoCopy]
     \/ /\ "redis" \in Faults
        /\ cache' = [cache EXCEPT ![h[p].target].missed = cache[h[p].target].val # None]
  /\ Become(p, [h[p] EXCEPT !.todo = @ \ {"user"}])
  /\ UNCHANGED user

\* Nothing ever fills the users:list:* keys that this deletes.
InvalidateUserListCache(p) ==
  /\ h[p].pc = "invalidate" /\ "list" \in h[p].todo
  /\ Become(p, [h[p] EXCEPT !.todo = @ \ {"list"}])
  /\ UNCHANGED <<user, cache>>

Respond(p) ==
  /\ h[p].pc = "invalidate" /\ h[p].todo = {}
  /\ Answer(p, 200)
  /\ UNCHANGED <<user, cache>>

Close(p) ==
  /\ h[p].pc = "answered"
  /\ Become(p, Idle)
  /\ UNCHANGED <<user, cache>>

-----------------------------------------------------------------------------

\* Writes of the auth module that show in a profile (isEmailVerified,
\* lastLogin, passwordChangedAt): they leave the cache alone.
AuthWrite(u) ==
  /\ "auth" \in Ops
  /\ user[u].there
  /\ user' = [user EXCEPT ![u].seen = ~@]
  /\ PassBy(u, None, Idle)
  /\ cache' = [cache EXCEPT ![u].missed = cache[u].val # None]

\* Mutant: SET without EX.
NeverExpires(u) ==
  /\ cache[u].val # None /\ FALSE
  /\ UNCHANGED vars

\* The 900 seconds of the key are over.
Expire(u) ==
  /\ cache[u].val # None
  /\ cache' = [cache EXCEPT ![u] = NoCopy]
  /\ UNCHANGED <<user, h>>

HandlerStep(p) ==
  \/ GetUserFromCache(p) \/ FindById(p) \/ SetUserInCache(p) \/ List(p)
  \/ UpdateById(p) \/ DeleteUserFromCache(p) \/ InvalidateUserListCache(p)
  \/ Respond(p) \/ Close(p)

Next ==
  \/ \E p \in Procs, a, t \in Users, o \in Ops, body \in Bodies : Call(p, a, o, t, body)
  \/ \E p \in Procs : HandlerStep(p)
  \/ \E u \in Users : AuthWrite(u) \/ Expire(u)

Spec == Init /\ [][Next]_vars

\* Handlers go on once their call has answered or been rejected, and Redis
\* drops a key when its time is over.
FairSpec ==
  /\ Spec
  /\ \A p \in Procs : WF_vars(HandlerStep(p))
  /\ \A u \in Users : WF_vars(Expire(u))

-----------------------------------------------------------------------------
(* Properties *)

Accounts == [there : BOOLEAN, active : BOOLEAN, role : Roles, name : Names,
             seen : BOOLEAN]

TypeOK ==
  /\ user \in [Users -> Accounts]
  /\ cache \in [Users -> [val : Accounts \cup {None}, missed : BOOLEAN]]
  /\ h \in [Procs ->
       [pc : {"idle", "get", "find", "set", "list", "write", "invalidate", "answered"},
        op : Routes \cup {"none"}, actor : Users \cup {None}, role : Roles,
        target : Users \cup {None},
        body : [name : Names \cup {None}, role : Roles \cup {None}],
        copy : Accounts \cup {None},
        missed : BOOLEAN, todo : SUBSET {"user", "list"},
        status : {0, 200, 400, 403, 404}]]

Stale(u) == cache[u].val # None /\ cache[u].val # user[u]

Invalidating(u) ==
  \E p \in Procs :
    h[p].pc = "invalidate" /\ h[p].target = u /\ "user" \in h[p].todo

\* A copy differs from its document only while the writer has yet to delete it,
\* or when it has missed a write for good: its reader had read before the write
\* and filled the cache after it, the deletion was rejected, or the auth module
\* wrote.
StaleOnlyIfMissed ==
  \A u \in Users : Stale(u) => Invalidating(u) \/ cache[u].missed

\* Once the documents are no longer written the copies come to agree with
\* them, whatever races and Redis failures left behind: the time to live is
\* what makes up for the missed invalidations.
CopiesConverge ==
  <>[][user' = user]_vars => <>[](\A u \in Users : ~Stale(u))

\* Requests that will fill the cache with what is no longer so.
Late == {p \in Procs : h[p].pc = "set" /\ h[p].copy # user[h[p].target]}

\* How the copies get well: while no document is written no request comes to hold
\* outdated data, and a copy goes stale only when a request fills it that had
\* outdated data before and holds none any more.  So each request in flight can
\* spoil one copy at most, and what is stale can only expire, be deleted or be
\* filled anew.
CopiesHeal ==
  [][user' = user =>
       /\ Late' \subseteq Late
       /\ \A u \in Users : Stale(u)' /\ ~Stale(u) =>
            \E p \in Late \ Late' : h[p].target = u]_vars

\* How many steps request r can still take before it is through.
StepsLeft(r) ==
  LET pending(x) == IF x \in r.todo THEN 1 ELSE 0 IN
  CASE r.pc = "write"      -> 5
    [] r.pc = "get"        -> 4
    [] r.pc = "find"       -> 3
    [] r.pc = "invalidate" -> 2 + pending("user") + pending("list")
    [] r.pc \in {"set", "list"} -> 2
    [] r.pc = "answered"   -> 1
    [] OTHER -> 0

\* A request gets on: each of its steps leaves fewer to take, and no step of
\* another adds to them.
HandlersGetOn ==
  [][\A p \in Procs :
       /\ h[p].pc # "idle" => StepsLeft(h'[p]) <= StepsLeft(h[p])
       /\ HandlerStep(p) => StepsLeft(h'[p]) < StepsLeft(h[p])]_vars

Admin == {"admin", "super_admin"}

\* Requests by their caller: those of u, and those of the given roles.
Owner(u) == {p \in Procs : h[p].actor = u}

Callers(roles) == {p \in Procs : h[p].role \in roles}

\* This step is the write to u of one of the given requests.
WrittenFor(u, requests) ==
  \E p \in requests : h[p].pc = "write" /\ h[p].target = u /\ h'[p].pc # "write"

\* Each change of an account is made for a caller whom the API's table of
\* endpoints allows it: the profile by its owner or an admin, role and
\* activity by an admin, deletion by a super admin, where the role counts that
\* the caller had when the request was admitted.
ChangesAreAuthorised ==
  [][\A u \in Users :
       /\ user'[u].name # user[u].name
            => WrittenFor(u, Owner(u) \cup Callers(Admin))
       /\ (user'[u].role # user[u].role \/ user'[u].active # user[u].active)
            => WrittenFor(u, Callers(Admin))
       /\ user'[u].there # user[u].there
            => WrittenFor(u, Callers({"super_admin"}))]_vars

\* A write that has been admitted has a caller who is entitled to it, and a body
\* with no field but its own.
Entitled(r) ==
  /\ r.op \in Writes
  /\ r.op = "deleteUser" => r.role = "super_admin"
  /\ r.op \in {"updateRole", "deactivateUser"} => r.role \in Admin
  /\ r.op \in {"updateUser", "updateProfile", "uploadAvatar"} =>
       r.actor = r.target \/ r.role \in Admin
  /\ r.body.role # None => r.op = "updateRole"
  /\ r.body.name # None => r.op \in {"updateUser", "updateProfile", "uploadAvatar"}

\* The inductive invariant of UserDirectoryProofs: a request at work is about an
\* account, a write is entitled, and a copy on its way to the cache or in it is
\* up to date, marked or about to be deleted.
DirectoryInv ==
  /\ TypeOK
  /\ \A p \in Procs :
       /\ h[p].pc \notin {"idle", "answered"} => h[p].target \in Users
       /\ h[p].pc = "write" => Entitled(h[p])
       /\ h[p].pc = "set" => h[p].missed \/ h[p].copy = user[h[p].target]
  /\ StaleOnlyIfMissed

\* The integration test "updates own profile fields" (user.test.js) sends a
\* first name to PATCH /users/profile and expects 200.
ProfileUpdateAccepted ==
  \A p \in Procs :
    h[p].pc = "answered" /\ h[p].op = "updateProfile" /\ h[p].body.name # None
      => h[p].status # 400

=============================================================================

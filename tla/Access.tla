------------------------------ MODULE Access ------------------------------
(***************************************************************************)
(* Who may do what in which organization: users with a home organization   *)
(* and memberships in others, roles and their permissions, the cache of    *)
(* permissions, what a person leaves behind when they go, sessions and     *)
(* their refresh tokens, upgrades, and the end of an organization.         *)
(*                                                                         *)
(* One permission, "manage", stands for those the handlers here ask for;   *)
(* "chat" for the ones of an agent; "new" for one a later release added    *)
(* and that "manage" implies in custom roles.  The roles of an             *)
(* organization are the system roles admin and agent and one custom role.  *)
(* A request that writes a row it read earlier is two steps, with at most  *)
(* two such requests in flight; a write whose row was changed in between   *)
(* is one that raced.  Passwords, names and settings are left out.         *)
(***************************************************************************)
EXTENDS Naturals, FiniteSets

CONSTANTS
  Users,
  Orgs,
  Founder,       \* the installation's first administrator
  Others,        \* whether the organizations start sharing their people
  MaxEntries,    \* cache entries at a time
  MaxRequests    \* requests and upgrades in one behaviour

ASSUME AccessAssumption ==
  /\ Founder \in Users
  /\ Orgs # {} /\ (\A o \in Orgs : Orgs # {o}) /\ "base" \notin Orgs
  /\ MaxRequests \in Nat /\ MaxEntries \in Nat \ {0}
  /\ Others \subseteq BOOLEAN

VARIABLES
  org,        \* organizations that exist
  user,       \* users rows
  member,     \* user_organizations rows
  role,       \* custom_roles rows with their permissions
  revoked,    \* role_permission_revocations
  upgraded,   \* the data migration of this release is in schema_migrations
  cached,     \* permission entries in Redis
  fill,       \* a cache miss that has read and not stored yet
  draft,      \* two requests between their read and their write
  held,       \* who has work assigned where
  key,        \* api_keys, one for each user and organization
  session,    \* refresh tokens of each user's browser
  spent,      \* requests made
  excused     \* what the code is known not to keep up, see the properties

accessVars == <<org, user, member, role, revoked, upgraded, cached, fill, draft,
                held, key, session, spent, excused>>

Perms == {"manage", "chat", "new"}
RoleNames == {"admin", "agent", "custom"}
Roles == Orgs \X RoleNames
Slots == Users \X Orgs
Keys == Orgs \cup {"base"}
Asked == {{}, {"manage"}, {"manage", "new"}}   \* permission sets a request resolves to

Nothing == [k |-> "none"]
Miss == [k |-> "miss"]
Denied == [k |-> "denied"]

UserRow == [st: {"none", "live", "gone"}, home: Orgs, role: Roles, active: BOOLEAN, super: BOOLEAN]
Entry == [k: {"hit"}, super: BOOLEAN, perms: SUBSET Perms]

OrgOf(r) == r[1]
IsSystem(r) == r[2] # "custom"
RolesOf(o) == {r \in Roles : OrgOf(r) = o}
LiveRoles(o) == {r \in RolesOf(o) : role[r].st = "live"}
Admins(o) == {u \in Users : member[<<u, o>>].st = "live" /\ member[<<u, o>>].role = <<o, "admin">>}
DefaultRoles(o) == {r \in LiveRoles(o) : role[r].dflt}

-----------------------------------------------------------------------------
(* Permissions and their cache *)

\* SystemRolePermissions
SystemPerms(name) == CASE name = "admin" -> Perms [] name = "agent" -> {"chat"} [] OTHER -> {}

\* the role a user has in an organization: the membership's, and in the home
\* organization the user's own when there is no membership
RoleIn(u, k) ==
  IF k # "base" /\ member[<<u, k>>].st = "live" THEN {member[<<u, k>>].role}
  ELSE IF k \in {"base", user[u].home} THEN {user[u].role} ELSE {}

\* getUserPermissionsCached on a miss
DBPerms(u, k) ==
  IF user[u].st # "live" THEN Denied
  ELSE IF RoleIn(u, k) = {}
       THEN IF user[u].super THEN [k |-> "hit", super |-> TRUE, perms |-> {}] ELSE Denied
       ELSE LET r == CHOOSE x \in RoleIn(u, k) : TRUE
            IN IF role[r].st # "live" THEN Denied
               ELSE [k |-> "hit", super |-> user[u].super, perms |-> role[r].perms]

Lookup(u, k) == IF cached[<<u, k>>] = Miss THEN DBPerms(u, k) ELSE cached[<<u, k>>]

\* IsSuperAdmin
IsSuperAdmin(u) == LET e == Lookup(u, "base") IN e # Denied /\ e.super

\* HasPermission and requireAuth, in the organization of the request
May(u, p, o) == LET e == Lookup(u, o) IN e # Denied /\ (e.super \/ p \in e.perms)

\* somebody else with the permission makes the request
SomeoneElse(u, o) == \E a \in Users \ {u} : May(a, "manage", o)
Someone(o) == \E a \in Users : May(a, "manage", o)

\* a miss reads ...
LoadPermissions(u, k) ==
  /\ fill = Nothing /\ cached[<<u, k>>] = Miss /\ DBPerms(u, k) # Denied
  /\ Cardinality({e \in Users \X Keys : cached[e] # Miss}) < MaxEntries
  /\ fill' = [k |-> "fill", u |-> u, key |-> k, entry |-> DBPerms(u, k), raced |-> FALSE]
  /\ UNCHANGED <<org, user, member, role, revoked, upgraded, cached, draft, held, key, session, spent, excused>>

\* ... and stores
StorePermissions ==
  /\ fill # Nothing
  /\ cached' = [cached EXCEPT ![<<fill.u, fill.key>>] = fill.entry]
  /\ excused' = IF fill.raced THEN [excused EXCEPT !.cache = @ \cup {<<fill.u, fill.key>>}] ELSE excused
  /\ fill' = Nothing
  /\ UNCHANGED <<org, user, member, role, revoked, upgraded, draft, held, key, session, spent>>

\* an entry's five minutes pass
EntryExpires(u, k) ==
  /\ cached[<<u, k>>] # Miss
  /\ cached' = [cached EXCEPT ![<<u, k>>] = Miss]
  /\ excused' = [excused EXCEPT !.cache = @ \ {<<u, k>>}]
  /\ UNCHANGED <<org, user, member, role, revoked, upgraded, fill, draft, held, key, session, spent>>

\* a fill in flight that a change of these users has overtaken
Overtaken(us) ==
  fill' = IF fill # Nothing /\ fill.u \in us THEN [fill EXCEPT !.raced = TRUE] ELSE fill

Emptied(us) == [e \in Users \X Keys |-> IF e[1] \in us THEN Miss ELSE cached[e]]

\* InvalidateUserPermissionsCache: the base key and every key of an organization
InvalidateUser(us) ==
  /\ cached' = Emptied(us)
  /\ Overtaken(us)

\* the keys that keep an entry nobody invalidates after a change to these users
Left(us) == {e \in us \X Keys : cached[e] # Miss}

\* a change the handler does not tell the cache about
Untold(us) == UNCHANGED cached /\ Overtaken(us)

\* InvalidateRolePermissionsCache: who holds the role, in a users row or a membership
Holders(r) == {u \in Users : \/ user[u].st = "live" /\ user[u].role = r
                             \/ member[<<u, OrgOf(r)>>].st = "live" /\ member[<<u, OrgOf(r)>>].role = r}

\* the users row alone
HomeHolders(r) == {u \in Users : user[u].st = "live" /\ user[u].role = r}

\* Holders as the role's own update computes them
InvalidatedBy(r) == Holders(r)

-----------------------------------------------------------------------------
(* Requests that are one step *)

Spend == spent < MaxRequests /\ spent' = spent + 1

\* a row read by the request in flight has been changed by another
Raced(d, us) == IF d.k = "user" /\ d.u \in us THEN [d EXCEPT !.raced = TRUE] ELSE d
Touch(us) == draft' = [i \in 1..2 |-> Raced(draft[i], us)]

RacedRole(d, o) == IF d.k = "role" /\ OrgOf(d.r) = o THEN [d EXCEPT !.raced = TRUE] ELSE d
TouchRoles(o) == draft' = [i \in 1..2 |-> RacedRole(draft[i], o)]

\* the first free place for a request in flight
FreePlace(i) == draft[i] = Nothing /\ (i = 2 => draft[1] # Nothing)

\* organizations a step takes the last administrator from, where nothing checks
Unguarded(after(_)) ==
  {o \in org : Admins(o) # {} /\ \A u \in Admins(o) : ~after(<<u, o>>)}

NewUser(o, r, s) == [st |-> "live", home |-> o, role |-> r, active |-> TRUE, super |-> s]
LiveMember(r) == [st |-> "live", role |-> r]

\* in this organization
ReleaseUser(u, o) ==
  /\ held' = held \ {<<u, o>>}
  /\ key' = [key EXCEPT ![<<u, o>>] = IF @ = "on" THEN "off" ELSE @]

\* nothing released
KeepWork == UNCHANGED <<held, key>>

\* what stays with somebody who is no longer entitled to it
InUse == {x \in Slots : x \in held \/ key[x] = "on"}
Stranded(us, os) == InUse \cap (us \X os)

\* CreateUser, for an address nobody has or one of a deleted user, who comes back
CreateUser(o, u, r, s) ==
  /\ Spend /\ Someone(o) /\ user[u].st # "live"
  /\ r \in LiveRoles(o)
  /\ s => \E a \in Users : IsSuperAdmin(a) /\ May(a, "manage", o)
  /\ user' = [user EXCEPT ![u] = NewUser(o, r, s)]
  /\ member' = [member EXCEPT ![<<u, o>>] = LiveMember(r)]
  /\ Untold({u}) /\ Touch({u})
  /\ excused' = [excused EXCEPT !.cache = @ \cup Left({u})]
  /\ UNCHANGED <<org, role, revoked, upgraded, held, key, session>>

\* Register: a new account, or a member more; a membership that was ended is in the way
Register(u, o) ==
  /\ Spend /\ o \in org
  /\ LET rs == IF DefaultRoles(o) # {} THEN DefaultRoles(o) ELSE {<<o, "agent">>}
     IN \E r \in rs :
          \/ /\ user[u].st = "none"
             /\ user' = [user EXCEPT ![u] = NewUser(o, r, FALSE)]
             /\ member' = [member EXCEPT ![<<u, o>>] = LiveMember(r)]
             /\ session' = [session EXCEPT ![u].live = @ + 1, ![u].issued = @ + 1]
          \/ /\ user[u].st = "live" /\ user[u].active /\ member[<<u, o>>].st = "none"
             /\ member' = [member EXCEPT ![<<u, o>>] = LiveMember(r)]
             /\ session' = [session EXCEPT ![u].live = @ + 1, ![u].issued = @ + 1]
             /\ UNCHANGED user
  /\ Untold({u}) /\ Touch({u})
  /\ excused' = [excused EXCEPT !.cache = @ \cup Left({u})]
  /\ UNCHANGED <<org, role, revoked, upgraded, held, key>>

\* CallbackSSO: an account made on first sight; an existing one may sign in
CallbackSSO(u, o) ==
  /\ Spend /\ o \in org
  /\ \/ /\ user[u].st = "none" /\ role[<<o, "agent">>].st = "live"
        /\ user' = [user EXCEPT ![u] = NewUser(o, <<o, "agent">>, FALSE)]
        /\ member' = [member EXCEPT ![<<u, o>>] = LiveMember(<<o, "agent">>)]
     \/ /\ user[u].st = "live" /\ user[u].active
        /\ UNCHANGED <<user, member>>
  /\ session' = [session EXCEPT ![u].live = @ + 1, ![u].issued = @ + 1]
  /\ Untold({u}) /\ Touch({u})
  /\ excused' = [excused EXCEPT !.cache = @ \cup Left({u})]
  /\ UNCHANGED <<org, role, revoked, upgraded, held, key>>

\* AddOrganizationMember: a new row, or the ended one revived
AddOrganizationMember(o, u, r) ==
  /\ Spend /\ Someone(o) /\ user[u].st = "live" /\ member[<<u, o>>].st # "live"
  /\ r \in LiveRoles(o)
  /\ member' = [member EXCEPT ![<<u, o>>] = LiveMember(r)]
  /\ InvalidateUser({u})
  /\ excused' = [excused EXCEPT !.cache = @ \ ({u} \X Keys)]
  /\ UNCHANGED <<org, user, role, revoked, upgraded, draft, held, key, session>>

\* RemoveOrganizationMember: the membership only
RemoveOrganizationMember(o, u) ==
  /\ Spend /\ SomeoneElse(u, o) /\ member[<<u, o>>].st = "live"
  /\ member' = [member EXCEPT ![<<u, o>>].st = "gone"]
  /\ InvalidateUser({u})
  /\ excused' = [excused EXCEPT !.cache = @ \ ({u} \X Keys),
                                !.work = @ \cup Stranded({u}, {o}),
                                !.admin = @ \cup Unguarded(LAMBDA x : x # <<u, o>>)]
  /\ UNCHANGED <<org, user, role, revoked, upgraded, draft, held, key, session>>

\* UpdateOrganizationMemberRole: the membership only, anyone's
UpdateOrganizationMemberRole(o, u, r) ==
  /\ Spend /\ Someone(o) /\ r \in LiveRoles(o)
  /\ member[<<u, o>>].st = "live" /\ member[<<u, o>>].role # r
  /\ member' = [member EXCEPT ![<<u, o>>].role = r]
  /\ InvalidateUser({u})
  /\ excused' = [excused EXCEPT !.cache = @ \ ({u} \X Keys),
                                !.admin = @ \cup Unguarded(LAMBDA x : x # <<u, o>>)]
  /\ UNCHANGED <<org, user, role, revoked, upgraded, draft, held, key, session>>

\* DeleteUser of a member from elsewhere
RemoveMember(o, u) ==
  /\ Spend /\ SomeoneElse(u, o)
  /\ user[u].st = "live" /\ member[<<u, o>>].st = "live" /\ user[u].home # o
  /\ member' = [member EXCEPT ![<<u, o>>].st = "gone"]
  /\ InvalidateUser({u}) /\ ReleaseUser(u, o)
  /\ excused' = [excused EXCEPT !.cache = @ \ ({u} \X Keys),
                                !.work = @ \ {<<u, o>>},
                                !.admin = @ \cup Unguarded(LAMBDA x : x # <<u, o>>)]
  /\ UNCHANGED <<org, user, role, revoked, upgraded, draft, session>>

\* the last administrator of the organization
LastAdmin(o, u) == u \in Admins(o) /\ Cardinality(Admins(o)) <= 1

\* DeleteUser in the home organization: released there, and every membership ends
DeleteUser(o, u) ==
  /\ Spend /\ SomeoneElse(u, o)
  /\ user[u].st = "live" /\ member[<<u, o>>].st = "live" /\ user[u].home = o
  /\ ~LastAdmin(o, u)
  /\ user' = [user EXCEPT ![u].st = "gone"]
  /\ member' = [x \in Slots |-> IF x[1] = u /\ member[x].st = "live"
                                THEN [member[x] EXCEPT !.st = "gone"] ELSE member[x]]
  /\ Untold({u}) /\ ReleaseUser(u, o) /\ Touch({u})
  /\ excused' = [excused EXCEPT !.cache = @ \cup Left({u}),
                                !.work = (@ \ {<<u, o>>}) \cup Stranded({u}, Orgs \ {o}),
                                !.admin = @ \cup (Unguarded(LAMBDA x : x[1] # u) \ {o})]
  /\ UNCHANGED <<org, role, revoked, upgraded, session>>

\* CreateRole, the organization's custom one
CreateRole(o, ps, d) ==
  /\ Spend /\ Someone(o) /\ role[<<o, "custom">>].st = "none"
  /\ role' = [r \in Roles |-> IF r = <<o, "custom">> THEN [st |-> "live", perms |-> ps, dflt |-> d]
                              ELSE IF d /\ r \in DefaultRoles(o) THEN [role[r] EXCEPT !.dflt = FALSE]
                              ELSE role[r]]
  /\ TouchRoles(o)
  /\ UNCHANGED <<org, user, member, revoked, upgraded, cached, fill, held, key, session, excused>>

\* DeleteRole: refused while a users row has it; memberships are not looked at
DeleteRole(r) ==
  /\ Spend /\ Someone(OrgOf(r)) /\ role[r].st = "live" /\ ~IsSystem(r) /\ HomeHolders(r) = {}
  /\ role' = [role EXCEPT ![r].st = "gone"]
  /\ Untold(Holders(r)) /\ TouchRoles(OrgOf(r))
  /\ excused' = [excused EXCEPT !.cache = @ \cup Left(Holders(r))]
  /\ UNCHANGED <<org, user, member, revoked, upgraded, held, key, session>>

\* an active member
Entitled(u, o) == user[u].st = "live" /\ user[u].active /\ member[<<u, o>>].st = "live"

\* CreateAPIKey: one's own
CreateAPIKey(u, o) ==
  /\ Spend /\ May(u, "manage", o) /\ key[<<u, o>>] = "none" /\ user[u].st # "none"
  /\ key' = [key EXCEPT ![<<u, o>>] = "on"]
  /\ excused' = [excused EXCEPT !.work = IF Entitled(u, o) THEN @ ELSE @ \cup {<<u, o>>}]
  /\ UNCHANGED <<org, user, member, role, revoked, upgraded, cached, fill, draft, held, session>>

\* UpdateAPIKey: anyone's, off or on again
UpdateAPIKey(u, o) ==
  /\ Spend /\ Someone(o) /\ key[<<u, o>>] # "none"
  /\ key' = [key EXCEPT ![<<u, o>>] = IF @ = "on" THEN "off" ELSE "on"]
  /\ excused' = [excused EXCEPT !.work = IF Entitled(u, o) THEN @ ELSE @ \cup {<<u, o>>}]
  /\ UNCHANGED <<org, user, member, role, revoked, upgraded, cached, fill, draft, held, session>>

DeleteAPIKey(u, o) ==
  /\ Spend /\ Someone(o) /\ key[<<u, o>>] # "none"
  /\ key' = [key EXCEPT ![<<u, o>>] = "none"]
  /\ UNCHANGED <<org, user, member, role, revoked, upgraded, cached, fill, draft, held, session, excused>>

\* an organization has an id of its own: one that was purged and that a request in
\* flight still names is not made again
Unnamed(o) == \A i \in 1..2 : /\ draft[i].k = "user" => draft[i].o # o
                              /\ draft[i].k = "role" => OrgOf(draft[i].r) # o

\* CreateOrganization: system roles, and its creator as administrator
CreateOrganization(a, o) ==
  /\ Spend /\ o \notin org /\ Unnamed(o) /\ user[a].st = "live"
  /\ \E p \in org : May(a, "manage", p)
  /\ org' = org \cup {o}
  /\ role' = [r \in Roles |-> IF OrgOf(r) = o /\ IsSystem(r)
                              THEN [st |-> "live", perms |-> SystemPerms(r[2]), dflt |-> r[2] = "agent"]
                              ELSE role[r]]
  /\ member' = [member EXCEPT ![<<a, o>>] = LiveMember(<<o, "admin">>)]
  /\ Untold({a})
  /\ excused' = [excused EXCEPT !.cache = @ \cup Left({a})]
  /\ UNCHANGED <<user, revoked, upgraded, draft, held, key, session>>

\* work given to a member (the inbox's part)
AssignWork(u, o) ==
  /\ <<u, o>> \notin held /\ user[u].st = "live" /\ user[u].active /\ member[<<u, o>>].st = "live"
  /\ Spend
  /\ held' = held \cup {<<u, o>>}
  /\ UNCHANGED <<org, user, member, role, revoked, upgraded, cached, fill, draft, key, session, excused>>

-----------------------------------------------------------------------------
(* Requests that save a row they read *)

Changes == {[f |-> "none", v |-> FALSE]}
           \cup [f: {"role"}, v: RoleNames] \cup [f: {"active", "super"}, v: BOOLEAN]

ReadRow(u, o, c) ==
  /\ \E i \in 1..2 :
       /\ FreePlace(i)
       /\ draft' = [draft EXCEPT ![i] = [k |-> "user", u |-> u, o |-> o, row |-> user[u],
                                         change |-> c, raced |-> FALSE]]
  /\ UNCHANGED <<org, user, member, role, revoked, upgraded, cached, fill, held, key, session, excused>>

\* ListMyOrganizations: where a user works
WorksIn(u, o) == user[u].st = "live" /\ member[<<u, o>>].st = "live"

\* UpdateUser in the home organization: one field
UpdateUser(u, o, c) ==
  /\ Spend /\ WorksIn(u, o) /\ user[u].home = o
  /\ c.f = "role" => <<o, c.v>> \in LiveRoles(o) /\ <<o, c.v>> # user[u].role
  /\ c.f = "active" => c.v # user[u].active
  /\ c.f = "super" => c.v # user[u].super
  /\ \/ SomeoneElse(u, o)
     \/ /\ May(u, "manage", o)
        /\ ~(c.f = "role" /\ user[u].role[2] = "admin")
        /\ ~(c.f = "active" /\ ~c.v) /\ ~(c.f = "super" /\ ~c.v)
  /\ c.f = "super" => \E a \in Users : IsSuperAdmin(a) /\ (~c.v => a # u) /\ May(a, "manage", o)
  /\ ReadRow(u, o, c)

\* UpdateUser for a member from elsewhere: the role, in the membership
UpdateMember(u, o, r) ==
  /\ Spend /\ Someone(o) /\ WorksIn(u, o) /\ user[u].home # o
  /\ r \in LiveRoles(o) /\ member[<<u, o>>].role # r
  /\ member' = [member EXCEPT ![<<u, o>>].role = r]
  /\ InvalidateUser({u})
  /\ excused' = [excused EXCEPT !.cache = @ \ ({u} \X Keys),
                                !.admin = @ \cup Unguarded(LAMBDA x : x # <<u, o>>)]
  /\ UNCHANGED <<org, user, role, revoked, upgraded, draft, held, key, session>>

\* UpdateAvailability, UpdateCurrentUserSettings and ChangePassword: the user's
\* own row, for a field that is not modelled
UpdateAvailability(u) == Spend /\ user[u].st = "live" /\ ReadRow(u, user[u].home, [f |-> "none", v |-> FALSE])
UpdateCurrentUserSettings(u) == Spend /\ user[u].st = "live" /\ ReadRow(u, user[u].home, [f |-> "none", v |-> FALSE])
ChangePassword(u) == Spend /\ user[u].st = "live" /\ ReadRow(u, user[u].home, [f |-> "none", v |-> FALSE])

\* the row the request writes
Written(d) ==
  CASE d.change.f = "role" -> [d.row EXCEPT !.role = <<d.o, d.change.v>>]
    [] d.change.f = "active" -> [d.row EXCEPT !.active = d.change.v]
    [] d.change.f = "super" -> [d.row EXCEPT !.super = d.change.v]
    [] OTHER -> d.row

\* the request is over; the other one's row may have changed under it
Done(i, us) == draft' = [j \in 1..2 |-> IF j = i THEN Nothing ELSE Raced(draft[j], us)]

\* db.Save: the whole row, deleted or not; after a purge there is nothing to save to
SaveRow(i) ==
  /\ draft[i].k = "user" /\ user[draft[i].u].st # "none" /\ draft[i].row.home \in org
  /\ LET d == draft[i]  u == d.u  o == d.o  c == d.change IN
     /\ user' = [user EXCEPT ![u] = Written(d)]
     /\ IF c.f = "role"
        THEN /\ member' = IF member[<<u, o>>].st = "live"
                          THEN [member EXCEPT ![<<u, o>>].role = Written(d).role] ELSE member
             /\ InvalidateUser({u})
        ELSE UNCHANGED member /\ Untold({u})
     /\ IF c.f = "active" /\ ~c.v /\ d.row.active THEN ReleaseUser(u, o) ELSE KeepWork
     /\ excused' = [excused EXCEPT
          !.cache = IF c.f = "role" THEN @ \ ({u} \X Keys) ELSE @ \cup Left({u}),
          !.work = IF c.f = "active" /\ ~c.v
                   THEN (@ \ {<<u, o>>}) \cup Stranded({u}, Orgs \ {o})
                   ELSE IF d.raced THEN @ \cup Stranded({u}, Orgs) ELSE @,
          !.role = IF role[Written(d).role].st = "live" THEN @ ELSE @ \cup {Written(d).role},
          !.admin = IF c.f = "role" THEN @ \cup Unguarded(LAMBDA x : x # <<u, o>> \/ c.v = "admin") ELSE @]
     /\ Done(i, {u})
  /\ UNCHANGED <<org, role, revoked, upgraded, session, spent>>

\* the request fails: the row it read was purged with its organization
SaveFails(i) ==
  /\ draft[i].k = "user" /\ (user[draft[i].u].st = "none" \/ draft[i].row.home \notin org)
  /\ Done(i, {})
  /\ UNCHANGED <<org, user, member, role, revoked, upgraded, cached, fill, held, key, session, spent, excused>>

\* UpdateRole: reads the role ...
UpdateRole(r, ps, d) ==
  /\ Spend /\ Someone(OrgOf(r)) /\ role[r].st = "live"
  /\ IsSystem(r) => d = role[r].dflt /\ \E a \in Users : IsSuperAdmin(a) /\ May(a, "manage", OrgOf(r))
  /\ ps # role[r].perms \/ d # role[r].dflt
  /\ \E i \in 1..2 :
       /\ FreePlace(i)
       /\ draft' = [draft EXCEPT ![i] = [k |-> "role", r |-> r, row |-> role[r], perms |-> ps,
                                         dflt |-> d, raced |-> FALSE]]
  /\ UNCHANGED <<org, user, member, role, revoked, upgraded, cached, fill, held, key, session, excused>>

\* recordPermissionRevocations
Revocations(r, before, after) == [revoked EXCEPT ![r] = (@ \cup (before \ after)) \ after]

\* the roles with one more default
Defaulted(r, new) ==
  [x \in Roles |-> IF new /\ x # r /\ x \in DefaultRoles(OrgOf(r)) THEN [role[x] EXCEPT !.dflt = FALSE]
                   ELSE role[x]]

\* ... and writes it, with its permissions; a new default takes the place of the old,
\* one that was the default when it was read stays one beside it
SaveRole(i) ==
  /\ draft[i].k = "role" /\ OrgOf(draft[i].r) \in org
  /\ LET d == draft[i]
         new == d.dflt /\ ~d.row.dflt
     IN /\ role' = [Defaulted(d.r, new) EXCEPT ![d.r] = [st |-> "live", perms |-> d.perms, dflt |-> d.dflt]]
        /\ revoked' = Revocations(d.r, d.row.perms, d.perms)
        /\ InvalidateUser(InvalidatedBy(d.r))
        /\ excused' = [excused EXCEPT !.cache = @ \ (Holders(d.r) \X Keys),
                                      !.dflt = IF d.raced THEN @ \cup {OrgOf(d.r)} ELSE @]
        /\ draft' = [j \in 1..2 |-> IF j = i THEN Nothing ELSE RacedRole(draft[j], OrgOf(d.r))]
  /\ UNCHANGED <<org, user, member, upgraded, held, key, session, spent>>

\* the organization was purged meanwhile
SaveRoleFails(i) ==
  /\ draft[i].k = "role" /\ OrgOf(draft[i].r) \notin org
  /\ Done(i, {})
  /\ UNCHANGED <<org, user, member, role, revoked, upgraded, cached, fill, held, key, session, spent, excused>>

-----------------------------------------------------------------------------
(* Sessions *)

\* Login and SwitchOrg hand out a refresh token
Login(u) ==
  /\ Spend /\ user[u].st = "live" /\ user[u].active
  /\ session' = [session EXCEPT ![u].live = @ + 1, ![u].issued = @ + 1]
  /\ UNCHANGED <<org, user, member, role, revoked, upgraded, cached, fill, draft, held, key, excused>>

SwitchOrg(u, o) ==
  /\ Spend /\ session[u].issued > 0 /\ o \in org
  /\ user[u].st = "live" /\ (user[u].super \/ member[<<u, o>>].st = "live")
  /\ session' = [session EXCEPT ![u].live = @ + 1, ![u].issued = @ + 1]
  /\ UNCHANGED <<org, user, member, role, revoked, upgraded, cached, fill, draft, held, key, excused>>

\* RefreshToken: the token is taken out of Redis by whoever deletes it first ...
RefreshToken(u) ==
  /\ session[u].live > 0 /\ session[u].rotating < 2
  /\ session' = [session EXCEPT ![u].live = @ - 1, ![u].rotating = @ + 1]
  /\ UNCHANGED <<org, user, member, role, revoked, upgraded, cached, fill, draft, held, key, spent, excused>>

\* ... and replaced for a user who is still active
Rotated(u) ==
  /\ session[u].rotating > 0
  /\ session' = [session EXCEPT ![u].rotating = @ - 1,
                                ![u].live = IF user[u].st = "live" /\ user[u].active THEN @ + 1 ELSE @]
  /\ UNCHANGED <<org, user, member, role, revoked, upgraded, cached, fill, draft, held, key, spent, excused>>

\* Logout: the browser's token
Logout(u) ==
  /\ session[u].live > 0
  /\ session' = [session EXCEPT ![u].live = @ - 1, ![u].issued = @ - 1]
  /\ UNCHANGED <<org, user, member, role, revoked, upgraded, cached, fill, draft, held, key, spent, excused>>

-----------------------------------------------------------------------------
(* Upgrades and the end of an organization *)

\* FixSystemRolePermissions: a system role with none gets its own back
FixedPerms(r) == IF IsSystem(r) /\ role[r].perms = {} THEN SystemPerms(r[2]) ELSE role[r].perms

\* grantNewPermissionsToAdmins
ToppedUp(r) == IF r[2] = "admin" THEN Perms ELSE FixedPerms(r)

\* EnsureCustomRolePermissions: what another permission implies and nobody took away
Implied(r) ==
  IF ~IsSystem(r) /\ "manage" \in role[r].perms /\ "new" \notin revoked[r]
  THEN role[r].perms \cup {"new"} ELSE ToppedUp(r)

\* users MigrateUserOrganizations has to give a membership in their home organization
WithoutMembership == {u \in Users : user[u].st = "live" /\ member[<<u, user[u].home>>].st # "live"}

\* RunMigrationWithProgress: roles first, then memberships, which an ended one
\* prevents, then the migrations of the release, once
RunMigration ==
  LET blocked == \E u \in WithoutMembership : member[<<u, user[u].home>>].st = "gone"
      after == [r \in Roles |-> IF role[r].st # "live" THEN role[r]
                                ELSE [role[r] EXCEPT !.perms = IF blocked THEN ToppedUp(r) ELSE Implied(r)]]
      us == {u \in Users : \E r \in Roles : after[r] # role[r] /\ u \in Holders(r)}
            \cup (IF blocked THEN {} ELSE WithoutMembership)
  IN /\ Spend /\ ~upgraded /\ upgraded' = TRUE
     /\ role' = after
     /\ member' = IF blocked THEN member
                  ELSE [x \in Slots |-> IF x[1] \in WithoutMembership /\ x[2] = user[x[1]].home
                                        THEN LiveMember(user[x[1]].role) ELSE member[x]]
     /\ Untold(us)
     /\ excused' = [excused EXCEPT !.cache = @ \cup Left(us)]
     /\ UNCHANGED <<org, user, revoked, draft, held, key, session>>

\* rows in other organizations that keep a user's row from being deleted
HeldElsewhere(u, o) == \E p \in Orgs \ {o} : member[<<u, p>>].st # "none" \/ key[<<u, p>>] # "none" \/ <<u, p>> \in held

\* an ended membership counts too
KeeperEndedToo(u, o) == {p \in org \ {o} : member[<<u, p>>].st # "none"}

\* rehomeSharedUsers: to an organization the user is a member of
Keeper(u, o) == {p \in org \ {o} : member[<<u, p>>].st = "live"}

Rehomed(u, o) ==
  IF user[u].st = "none" \/ user[u].home # o THEN user[u]
  ELSE IF Keeper(u, o) # {}
       THEN LET p == CHOOSE x \in Keeper(u, o) : TRUE
            IN [user[u] EXCEPT !.home = p, !.role = member[<<u, p>>].role]
       ELSE [user[u] EXCEPT !.st = "none"]

\* deleteScoped on user_organizations
Cleared(x, o) == IF x[2] = o THEN [st |-> "none", role |-> <<o, "agent">>] ELSE member[x]

\* Purge: refused while somebody who would be deleted is named elsewhere
Purge(o) ==
  /\ o \in org
  /\ Spend
  /\ \A u \in Users : user[u].st # "none" /\ Rehomed(u, o).st = "none" => ~HeldElsewhere(u, o)
  /\ org' = org \ {o}
  /\ user' = [u \in Users |-> Rehomed(u, o)]
  /\ member' = [x \in Slots |-> Cleared(x, o)]
  /\ role' = [r \in Roles |-> IF OrgOf(r) = o THEN [st |-> "none", perms |-> {}, dflt |-> FALSE] ELSE role[r]]
  /\ revoked' = [r \in Roles |-> IF OrgOf(r) = o THEN {} ELSE revoked[r]]
  /\ held' = {x \in held : x[2] # o}
  /\ key' = [x \in Slots |-> IF x[2] = o THEN "none" ELSE key[x]]
  /\ Untold(Users) /\ Touch(Users)
  /\ excused' = [excused EXCEPT !.cache = @ \cup Left(Users),
                                !.role = @ \cup {r \in Roles : role[r].st = "gone"}]
  /\ UNCHANGED <<upgraded, session>>

-----------------------------------------------------------------------------
\* an installation: its founder's organization, a second one, and people in them
FirstOrg == CHOOSE o \in Orgs : TRUE
SecondOrg == CHOOSE o \in Orgs : o # FirstOrg
FirstHome(u) == IF u = Founder THEN FirstOrg ELSE SecondOrg

AccessInit ==
  /\ org = {FirstHome(u) : u \in Users}
  /\ user = [u \in Users |-> NewUser(FirstHome(u), <<FirstHome(u), "admin">>, u = Founder)]
  /\ \E shared \in Others :
       /\ member = [x \in Slots |->
            IF x[2] = FirstHome(x[1]) THEN LiveMember(<<x[2], "admin">>)
            ELSE IF shared /\ x[2] \in org
            THEN LiveMember(<<x[2], IF x[1] = Founder THEN "admin" ELSE "custom">>)
            ELSE [st |-> "none", role |-> <<x[2], "agent">>]]
       /\ role = [r \in Roles |->
            IF IsSystem(r) /\ OrgOf(r) \in org
            THEN [st |-> "live", perms |-> SystemPerms(r[2]), dflt |-> r[2] = "agent"]
            ELSE IF ~IsSystem(r) /\ shared /\ OrgOf(r) = FirstOrg
            THEN [st |-> "live", perms |-> {"manage", "new"}, dflt |-> FALSE]
            ELSE [st |-> "none", perms |-> {}, dflt |-> FALSE]]
  /\ revoked = [r \in Roles |-> {}]
  /\ upgraded = FALSE
  /\ cached = [e \in Users \X Keys |-> Miss]
  /\ fill = Nothing /\ draft = [i \in 1..2 |-> Nothing]
  /\ held = {x \in Slots : member[x].st = "live"}
  /\ key = [x \in Slots |-> IF x \in held THEN "on" ELSE "none"]
  /\ session = [u \in Users |-> [live |-> 0, rotating |-> 0, issued |-> 0]]
  /\ spent = 0
  /\ excused = [cache |-> {}, work |-> {}, admin |-> {}, dflt |-> {}, role |-> {}]

\* what people ask for, and an upgrade, bounded by MaxRequests
AccessRequest ==
  \/ \E u \in Users, o \in org :
       \/ Register(u, o) \/ CallbackSSO(u, o) \/ RemoveOrganizationMember(o, u)
       \/ RemoveMember(o, u) \/ DeleteUser(o, u)
       \/ CreateAPIKey(u, o) \/ UpdateAPIKey(u, o) \/ DeleteAPIKey(u, o) \/ AssignWork(u, o)
       \/ SwitchOrg(u, o)
       \/ \E c \in Changes : c.f # "none" /\ UpdateUser(u, o, c)
       \/ \E n \in RoleNames :
            \/ \E s \in BOOLEAN : CreateUser(o, u, <<o, n>>, s)
            \/ AddOrganizationMember(o, u, <<o, n>>)
            \/ UpdateOrganizationMemberRole(o, u, <<o, n>>)
            \/ UpdateMember(u, o, <<o, n>>)
  \/ \E u \in Users : UpdateAvailability(u) \/ UpdateCurrentUserSettings(u) \/ ChangePassword(u) \/ Login(u)
  \/ \E a \in Users, o \in Orgs : CreateOrganization(a, o)
  \/ \E o \in org : Purge(o) \/ \E ps \in Asked, d \in BOOLEAN : CreateRole(o, ps, d)
  \/ \E r \in Roles : DeleteRole(r) \/ \E ps \in Asked, d \in BOOLEAN : UpdateRole(r, ps, d)
  \/ RunMigration

AccessNext ==
  \/ spent < MaxRequests /\ AccessRequest
  \/ \E u \in Users, k \in Keys : LoadPermissions(u, k) \/ EntryExpires(u, k)
  \/ StorePermissions
  \/ \E u \in Users : RefreshToken(u) \/ Rotated(u) \/ Logout(u)
  \/ \E i \in 1..2 : SaveRow(i) \/ SaveFails(i) \/ SaveRole(i) \/ SaveRoleFails(i)

AccessSpec == AccessInit /\ [][AccessNext]_accessVars

-----------------------------------------------------------------------------
(* Properties *)

\* What the cache says a user may do is what the database says, whatever roles,
\* memberships and permissions were changed since (cache.go).  Left out are the
\* changes that tell the cache nothing (the super admin flag, a deletion, an
\* upgrade, a purge) and a miss that read before a change and stored after it.
CacheCoherent ==
  \A u \in Users, k \in Keys :
    cached[<<u, k>>] # Miss /\ <<u, k>> \notin excused.cache => cached[<<u, k>>] = DBPerms(u, k)

\* A user's own role is one of the home organization and exists, however roles are
\* deleted, users rehomed and members updated (users.go, roles.go, orgpurge.go),
\* unless a request saved a role that was deleted after it had checked it, or a
\* purge rehomed a member whose role in the other organization had been deleted.
HomeRoleStands ==
  \A u \in Users : user[u].st = "live" =>
    /\ OrgOf(user[u].role) = user[u].home
    /\ role[user[u].role].st = "live" \/ user[u].role \in excused.role

\* Deleting users never leaves their organization without an administrator
\* (DeleteUser, users.go).  The requests that remove or demote a member, and a
\* deletion in the other organizations of the deleted, do not look.
AdminRemains == \A o \in org : Admins(o) # {} \/ o \in excused.admin

\* Whoever was removed or switched off in an organization has no work and no
\* working key left there (ReleaseUser).  RemoveOrganizationMember releases nothing,
\* and neither does a deletion in organizations other than the one it is made in.
ReleasedHoldsNothing == \A x \in InUse : Entitled(x[1], x[2]) \/ x \in excused.work

\* An organization has one default role at most (roles.go), unless a role is saved
\* as it was read before another one became the default.
OneDefaultRole == \A o \in Orgs : Cardinality(DefaultRoles(o)) <= 1 \/ o \in excused.dflt

\* A permission taken from a custom role is not given back by an upgrade
\* (recordPermissionRevocations, EnsureCustomRolePermissions).
RevocationStands == \A r \in Roles : ~IsSystem(r) => role[r].perms \cap revoked[r] = {}

\* After a purge nothing names the organization (orgpurge.go).
PurgeLeavesNothing ==
  \A o \in Orgs \ org :
    /\ \A u \in Users : /\ user[u].st # "none" => user[u].home # o
                        /\ member[<<u, o>>].st = "none" /\ <<u, o>> \notin InUse
    /\ \A r \in RolesOf(o) : role[r].st = "none"

\* A browser's refresh token is replaced once, however many requests present it
\* (RefreshToken, auth.go).
RefreshOnce == \A u \in Users : session[u].live + session[u].rotating <= session[u].issued

\* a request that had read this user's row saves it
Stale(u) == \E i \in 1..2 : draft[i].k = "user" /\ draft[i].u = u /\ draft'[i] = Nothing

\* A purge deletes nobody who is a member elsewhere, and gives the others a home
\* they are a member of (rehomeSharedUsers).  Only a request that saves the row it
\* read before, with the home it had then, may put one back they have left.
SharedUsersKept ==
  [][\A u \in Users : user[u].st = "live" =>
       /\ user'[u].st = "none" => \A o \in org' : member[<<u, o>>].st # "live"
       /\ user'[u].st = "live" /\ user'[u].home # user[u].home =>
            member'[<<u, user'[u].home>>].st = "live" \/ Stale(u)]_accessVars

\* Whoever was switched off or deleted comes back only when asked for, whole and
\* with a membership (CreateUser, UpdateUser), or through a request that had read
\* their row before (UpdateAvailability and the others save the row they read).
GoneStaysGone ==
  [][\A u \in Users :
       /\ user[u].st = "gone" /\ user'[u].st = "live" => Stale(u) \/ \E o \in Orgs : Entitled(u, o)'
       /\ user[u].st = "live" /\ ~user[u].active /\ user'[u].st = "live" /\ user'[u].active => Stale(u)
    ]_accessVars

\* Who may do what, and who has what, agrees with who belongs where: in the cache,
\* in the rows, after removals, upgrades and purges (users.go, roles.go, cache.go).
AccessInv ==
  /\ user \in [Users -> UserRow]
  /\ CacheCoherent /\ HomeRoleStands /\ AdminRemains /\ ReleasedHoldsNothing
  /\ OneDefaultRole /\ RevocationStands /\ PurgeLeavesNothing /\ RefreshOnce

\* The same, and nobody comes back unasked or is lost with an organization.
AccessKept == []AccessInv /\ SharedUsersKept /\ GoneStaysGone
===========================================================================

----------------------------- MODULE Authority -----------------------------
(***************************************************************************)
(* Who may do what in one organization, and every operation that moves it: *)
(* the owner pointer, the roles people hold, what a role grants, personal  *)
(* exceptions, and switching accounts off and on.                          *)
(*                                                                         *)
(* A request is three moments.  The actor is rebuilt from the database     *)
(* before the use case starts; the use case reads what its policy needs    *)
(* and decides; it writes and commits.  Every transaction is READ          *)
(* COMMITTED, so any other request may commit between two of the moments.  *)
(* Editing or deleting a role has a fourth, because "who holds this role"  *)
(* is answered by one statement and the commit is another.                 *)
(***************************************************************************)
EXTENDS Integers, FiniteSets

CONSTANTS
  Users,         \* accounts of one organization
  Actors,        \* bound: the accounts that send requests
  Bystanders,    \* bound: the accounts only offboarding is about
  Roles,         \* ids of roles, present or yet to be created
  SystemRoles,   \* the roles registration provisions; nobody edits them
  Keys,          \* the catalogue of permissions
  Requests,      \* requests the API serves at the same time
  Handlers,      \* the operations these requests may call
  Compositions,  \* bound: the sets of keys a role may be given
  Exceptions,    \* bound: the keys personal exceptions are written about
  Terms,         \* bound: whether a role is given for good or until a moment
  VersionWrap,   \* bound: a version is kept modulo this; only equality is used
  Root,          \* the account that registered the organization
  InitialHeld,   \* who holds which role at the start
  InitialGrants, \* what each role grants at the start, {} for one not created
  InitialDenied, \* the keys denied to each account at the start
  None           \* SQL NULL

Capability ==
  [transfer |-> "organization:transfer_ownership",
   assign |-> "role:assign", revoke |-> "role:revoke",
   deactivate |-> "user:suspend", reactivate |-> "user:reactivate",
   createRole |-> "role:create", updateRole |-> "role:update",
   deleteRole |-> "role:delete",
   writeOverride |-> "permission:override", removeOverride |-> "permission:override"]

\* An expired row stays in the table: nothing removes it.
Assignments == {"none", "lasting", "temporary", "expired"}

Effects == {"none", "ALLOW", "DENY"}

GovernsRights == {"role:update", "role:delete"}

\* An assignment names a role that exists, as its foreign key asks.
ASSUME ParamAssumption ==
  /\ Actors \subseteq Users /\ Bystanders \subseteq Users /\ Root \in Users
  /\ SystemRoles \subseteq Roles /\ "owner" \in SystemRoles
  /\ Handlers \subseteq DOMAIN Capability
  /\ Compositions \subseteq SUBSET Keys /\ Exceptions \subseteq Keys
  /\ Terms \subseteq {"lasting", "temporary"}
  /\ VersionWrap \in Nat \ {0, 1}
  /\ InitialHeld \in [Users -> [Roles -> Assignments]]
  /\ InitialGrants \in [Roles -> SUBSET Keys]
  /\ InitialDenied \in [Users -> SUBSET Keys]
  /\ \A u \in Users, x \in Roles \ SystemRoles :
       InitialHeld[u][x] # "none" => InitialGrants[x] # {}
  /\ None \notin Users /\ None \notin Roles

VARIABLES
  root,       \* organizations.owner_id
  accounts,   \* status and permissions_version of each account
  held,       \* user_roles
  roles,      \* the roles that exist
  grants,     \* role_permissions
  overrides,  \* user_permission_overrides
  requests    \* what each request in flight has read and decided

rows == <<root, accounts, held, roles, grants, overrides>>
vars == <<rows, requests>>

-----------------------------------------------------------------------------
Account == [status : {"ACTIVE", "SUSPENDED"}, version : 0 .. VersionWrap - 1]

\* What a request asks for: `keys' is a composition or the key of an exception,
\* `kind' the term of an assignment or the effect of an exception.
Input == [subject : Users \cup {None}, role : Roles \cup {None},
          keys : SUBSET Keys, kind : Assignments \cup Effects]

Steps == {"idle", "received", "decided", "bumped"}

Request == [step : Steps, handler : DOMAIN Capability, actor : Users,
            isOwner : BOOLEAN, holds : SUBSET Keys, input : Input,
            before : SUBSET Keys, targets : SUBSET Users]

Asking(u, x, keys, kind) == [subject |-> u, role |-> x, keys |-> keys, kind |-> kind]

NoInput == Asking(None, None, {}, "none")

Idle == [step |-> "idle", handler |-> "transfer", actor |-> Root,
         isOwner |-> FALSE, holds |-> {}, input |-> NoInput,
         before |-> {}, targets |-> {}]

TypeOK ==
  /\ root \in Users
  /\ accounts \in [Users -> Account]
  /\ held \in [Users -> [Roles -> Assignments]]
  /\ roles \subseteq Roles
  /\ grants \in [Roles -> SUBSET Keys]
  /\ overrides \in [Users -> [Keys -> Effects]]
  /\ requests \in [Requests -> Request]

-----------------------------------------------------------------------------
(* What a person may do, folded from the rows.                             *)

\* Expiry is a predicate of every read, not the work of a cleaner.
InForce(u, x) == held[u][x] \in {"lasting", "temporary"}

Holders(x) == {u \in Users : InForce(u, x)}

Allowed(u) == {k \in Keys : overrides[u][k] = "ALLOW"}

Denied(u) == {k \in Keys : overrides[u][k] = "DENY"}

\* Roles and ALLOW exceptions, before the DENY exceptions are applied.
Granted(u) == (UNION {grants[x] : x \in {y \in Roles : InForce(u, y)}}) \cup Allowed(u)

\* The same without one role.
KeptElsewhere(u, x) ==
  (UNION {grants[y] : y \in {z \in Roles \ {x} : InForce(u, z)}}) \cup Allowed(u)

\* The ladder: ownership, then DENY, then the grants.
Effective(u) == IF u = root THEN Keys ELSE Granted(u) \ Denied(u)

OwnersExcept(u) == Cardinality(Holders("owner") \ {u})

-----------------------------------------------------------------------------
(* The policies: what a request may do, by what it has read.               *)

assertTransferable(q) ==
  /\ q.actor = root
  /\ q.input.subject # q.actor
  /\ accounts[q.input.subject].status = "ACTIVE"

\* Mutant: the composition of the role is not compared with the assigner's rights.
canAssignAnything(q) == q.input.role \in roles /\ q.input.subject # q.actor

canAssignRole(q) ==
  /\ q.input.role \in roles
  /\ grants[q.input.role] \subseteq q.holds
  /\ q.input.subject # q.actor

canRevokeRole(q) ==
  /\ q.input.role \in roles
  /\ q.input.role = "owner" => OwnersExcept(q.input.subject) >= 1
  /\ q.input.subject = q.actor => \E x \in Roles \ {q.input.role} : InForce(q.actor, x)

\* Everything the subject effectively holds by rows, the actor holds too.
WithinReach(q) == Granted(q.input.subject) \ Denied(q.input.subject) \subseteq q.holds

\* Mutant: the owner is not exempt.
assertDeactivableByRights(q) == q.input.subject # q.actor /\ WithinReach(q)

assertDeactivable(q) ==
  /\ q.input.subject # q.actor
  /\ q.input.subject # root
  /\ WithinReach(q)

assertReactivable(q) == WithinReach(q)

canCreateRole(q) == q.input.keys \subseteq q.holds

\* Mutant: the rule is not asked.
locksOutSelfNever(q, kept) == FALSE

locksOutSelf(q, kept) ==
  /\ ~q.isOwner
  /\ InForce(q.actor, q.input.role)
  /\ \E k \in GovernsRights :
       k \in q.holds /\ k \notin KeptElsewhere(q.actor, q.input.role) \cup kept

canUpdateRole(q) ==
  /\ q.input.role \in roles \ SystemRoles
  /\ q.input.keys \subseteq q.holds
  /\ ~locksOutSelf(q, q.input.keys)

canDeleteRole(q) ==
  /\ q.input.role \in roles \ SystemRoles
  /\ ~locksOutSelf(q, {})

canWriteOverride(q) ==
  /\ q.input.kind = "DENY" => q.input.subject # root
  /\ q.input.kind = "ALLOW" => q.input.keys \subseteq q.holds
  /\ ~ /\ q.input.kind = "DENY" /\ q.input.subject = q.actor
       /\ q.input.keys \cap {"permission:override", "role:update"} # {}

\* The one key an exception is about.
KeyOf(q) == CHOOSE k \in q.input.keys : TRUE

ExistingEffect(q) == overrides[q.input.subject][KeyOf(q)]

canRemoveOverride(q) ==
  ~ (ExistingEffect(q) = "DENY" /\ q.input.subject = q.actor)

Permitted(q) ==
  \/ q.handler = "transfer" /\ assertTransferable(q)
  \/ q.handler = "assign" /\ canAssignRole(q)
  \/ q.handler = "revoke" /\ canRevokeRole(q)
  \/ q.handler = "deactivate" /\ assertDeactivable(q)
  \/ q.handler = "reactivate" /\ assertReactivable(q)
  \/ q.handler = "createRole" /\ canCreateRole(q)
  \/ q.handler = "updateRole" /\ canUpdateRole(q)
  \/ q.handler = "deleteRole" /\ canDeleteRole(q)
  \/ q.handler = "writeOverride" /\ canWriteOverride(q)
  \/ q.handler = "removeOverride" /\ canRemoveOverride(q)

\* The state asked for is already there: answered as success, nothing written.
AlreadyDone(q) ==
  \/ q.handler = "deactivate" /\ accounts[q.input.subject].status = "SUSPENDED"
  \/ q.handler = "reactivate" /\ accounts[q.input.subject].status = "ACTIVE"
  \/ q.handler = "removeOverride" /\ ExistingEffect(q) = "none"

Become(r, q) == requests' = [requests EXCEPT ![r] = q]

Finish(r) == Become(r, Idle)

Deciding(r, handler) == requests[r].step = "decided" /\ requests[r].handler = handler

\* A transaction that has bumped versions holds those rows until it commits.
Locked(u) == \E q \in Requests : requests[q].step = "bumped" /\ u \in requests[q].targets

\* An edit of a role holds the row of the role from its first statement.
RoleLocked(x) ==
  \E q \in Requests : /\ requests[q].step = "bumped"
                      /\ requests[q].handler = "updateRole"
                      /\ requests[q].input.role = x

Bumped(account) == [account EXCEPT !.version = (account.version + 1) % VersionWrap]

Bump(users) ==
  accounts' = [u \in Users |-> IF u \in users THEN Bumped(accounts[u]) ELSE accounts[u]]

\* Mutant: nobody's token is invalidated.
WithStatusOnly(u, status) == accounts' = [accounts EXCEPT ![u].status = status]

\* Status and version in one statement.
WithStatus(u, status) ==
  accounts' = [accounts EXCEPT ![u] = [Bumped(accounts[u]) EXCEPT !.status = status]]

Init ==
  /\ root = Root
  /\ accounts = [u \in Users |-> [status |-> "ACTIVE", version |-> 0]]
  /\ held = InitialHeld
  /\ roles = SystemRoles \cup {x \in Roles : InitialGrants[x] # {}}
  /\ grants = InitialGrants
  /\ overrides = [u \in Users |-> [k \in Keys |->
                     IF k \in InitialDenied[u] THEN "DENY" ELSE "none"]]
  /\ requests = [r \in Requests |-> Idle]

-----------------------------------------------------------------------------
(* The three moments of a request.                                         *)

\* Whom a role is given to, taken from, or left with.
AssignmentInputs(handler) ==
  {Asking(u, x, {}, t) :
      u \in Users \ Bystanders,
      x \in IF handler = "transfer" THEN SystemRoles \ {"owner"} ELSE Roles,
      t \in IF handler = "assign" THEN Terms ELSE {"none"}}

AccountInputs == {Asking(u, None, {}, "none") : u \in Users}

CompositionInputs(handler) ==
  {Asking(None, x, c, "none") :
      x \in Roles, c \in IF handler = "deleteRole" THEN {{}} ELSE Compositions}

SingleExceptions == {{k} : k \in Exceptions}

ExceptionInputs(handler) ==
  {Asking(u, None, c, e) :
      u \in Users \ Bystanders, c \in SingleExceptions,
      e \in IF handler = "writeOverride" THEN {"ALLOW", "DENY"} ELSE {"none"}}

Inputs(handler) ==
  CASE handler \in {"transfer", "assign", "revoke"} -> AssignmentInputs(handler)
    [] handler \in {"deactivate", "reactivate"} -> AccountInputs
    [] handler \in {"createRole", "updateRole", "deleteRole"} -> CompositionInputs(handler)
    [] handler \in {"writeOverride", "removeOverride"} -> ExceptionInputs(handler)

\* The route guard: the actor as the database has it now, and its capability.
Receive(r, handler, a, input) ==
  /\ requests[r].step = "idle"
  /\ accounts[a].status = "ACTIVE"
  /\ a = root \/ Capability[handler] \in Effective(a)
  /\ Become(r, [Idle EXCEPT !.step = "received", !.handler = handler, !.actor = a,
                            !.isOwner = (a = root), !.holds = Effective(a),
                            !.input = input])
  /\ UNCHANGED rows

\* The transaction reads what its policy needs, and the policy allows.
Decide(r) ==
  LET q == requests[r] IN
  /\ q.step = "received"
  /\ Permitted(q) /\ ~AlreadyDone(q)
  /\ Become(r, [q EXCEPT !.step = "decided",
                         !.before = IF q.input.role \in Roles THEN grants[q.input.role] ELSE {}])
  /\ UNCHANGED rows

Refuse(r) ==
  /\ requests[r].step = "received"
  /\ ~Permitted(requests[r]) \/ AlreadyDone(requests[r])
  /\ Finish(r)
  /\ UNCHANGED rows

\* A conflict, a unique or foreign key violation, a deadlock, the five-second
\* ceiling, a crash: nothing of the transaction remains.
Rollback(r) ==
  /\ requests[r].step \in {"decided", "bumped"}
  /\ Finish(r)
  /\ UNCHANGED rows

-----------------------------------------------------------------------------
(* The writes.                                                             *)

GiveIfAbsent(assignment) == IF assignment = "none" THEN "lasting" ELSE assignment

\* Rows that exist already are skipped, whatever their expiry.
HandedOver(from, to, left) ==
  [held EXCEPT ![to]["owner"] = GiveIfAbsent(held[to]["owner"]),
               ![from]["owner"] = "none",
               ![from][left] = GiveIfAbsent(held[from][left])]

\* Mutant: the pointer is moved without naming the owner it was read from.
TransferUnconditionally(r) ==
  LET q == requests[r]
      from == q.actor
      to == q.input.subject IN
  /\ Deciding(r, "transfer")
  /\ ~Locked(from) /\ ~Locked(to)
  /\ root' = to
  /\ held' = HandedOver(from, to, q.input.role)
  /\ Bump({from, to})
  /\ Finish(r)
  /\ UNCHANGED <<roles, grants, overrides>>

\* The pointer moves only if it still names the owner the decision was about.
Transfer(r) ==
  LET q == requests[r]
      from == q.actor
      to == q.input.subject IN
  /\ Deciding(r, "transfer")
  /\ root = from
  /\ ~Locked(from) /\ ~Locked(to)
  /\ root' = to
  /\ held' = HandedOver(from, to, q.input.role)
  /\ Bump({from, to})
  /\ Finish(r)
  /\ UNCHANGED <<roles, grants, overrides>>

\* A row that is there already, expired or not, is left as it is.
AssignRole(r) ==
  LET q == requests[r]
      u == q.input.subject IN
  /\ Deciding(r, "assign")
  /\ q.input.role \in roles
  /\ IF held[u][q.input.role] = "none"
     THEN /\ held' = [held EXCEPT ![u][q.input.role] = q.input.kind]
          /\ ~Locked(u) /\ Bump({u})
     ELSE UNCHANGED <<held, accounts>>
  /\ Finish(r)
  /\ UNCHANGED <<root, roles, grants, overrides>>

\* Mutant: the version moves even when there was no row to remove.
RevokeBumpingAlways(r) ==
  LET q == requests[r]
      u == q.input.subject IN
  /\ Deciding(r, "revoke")
  /\ held' = [held EXCEPT ![u][q.input.role] = "none"]
  /\ ~Locked(u) /\ Bump({u})
  /\ Finish(r)
  /\ UNCHANGED <<root, roles, grants, overrides>>

RevokeRole(r) ==
  LET q == requests[r]
      u == q.input.subject IN
  /\ Deciding(r, "revoke")
  /\ IF held[u][q.input.role] # "none"
     THEN /\ held' = [held EXCEPT ![u][q.input.role] = "none"]
          /\ ~Locked(u) /\ Bump({u})
     ELSE UNCHANGED <<held, accounts>>
  /\ Finish(r)
  /\ UNCHANGED <<root, roles, grants, overrides>>

SetStatus(r, handler, status) ==
  LET u == requests[r].input.subject IN
  /\ Deciding(r, handler)
  /\ ~Locked(u)
  /\ WithStatus(u, status)
  /\ Finish(r)
  /\ UNCHANGED <<root, held, roles, grants, overrides>>

DeactivateUser(r) == SetStatus(r, "deactivate", "SUSPENDED")

ReactivateUser(r) == SetStatus(r, "reactivate", "ACTIVE")

\* The trigger refuses a DENY on the account the pointer names.
WriteOverride(r) ==
  LET q == requests[r]
      u == q.input.subject IN
  /\ Deciding(r, "writeOverride")
  /\ ~(q.input.kind = "DENY" /\ u = root)
  /\ overrides' = [overrides EXCEPT ![u][KeyOf(q)] = q.input.kind]
  /\ ~Locked(u) /\ Bump({u})
  /\ Finish(r)
  /\ UNCHANGED <<root, held, roles, grants>>

RemoveOverride(r) ==
  LET q == requests[r]
      u == q.input.subject IN
  /\ Deciding(r, "removeOverride")
  /\ overrides' = [overrides EXCEPT ![u][KeyOf(q)] = "none"]
  /\ ~Locked(u) /\ Bump({u})
  /\ Finish(r)
  /\ UNCHANGED <<root, held, roles, grants>>

\* The id is fresh: nobody in flight can name it.
CreateRole(r) ==
  LET q == requests[r] IN
  /\ Deciding(r, "createRole")
  /\ q.input.role \notin roles
  /\ \A p \in Requests \ {r} : requests[p].input.role # q.input.role
  /\ roles' = roles \cup {q.input.role}
  /\ grants' = [grants EXCEPT ![q.input.role] = q.input.keys]
  /\ Finish(r)
  /\ UNCHANGED <<root, accounts, held, overrides>>

\* The statement that bumps everybody who holds the role.  An edit has written
\* the grants before it, and bumps only if its draft differs from what it read.
BumpHolders(r) ==
  LET q == requests[r]
      targets == IF q.handler = "updateRole" /\ q.input.keys = q.before
                 THEN {} ELSE Holders(q.input.role) IN
  /\ Deciding(r, "updateRole") \/ Deciding(r, "deleteRole")
  /\ q.handler = "updateRole" => q.input.role \in roles /\ ~RoleLocked(q.input.role)
  /\ \A u \in targets : ~Locked(u)
  /\ Become(r, [q EXCEPT !.step = "bumped", !.targets = targets])
  /\ UNCHANGED rows

UpdateRole(r) ==
  LET q == requests[r] IN
  /\ q.step = "bumped" /\ q.handler = "updateRole"
  /\ grants' = [grants EXCEPT ![q.input.role] = q.input.keys]
  /\ Bump(q.targets)
  /\ Finish(r)
  /\ UNCHANGED <<root, held, roles, overrides>>

\* The grants and the assignments go with the role.
DeleteRole(r) ==
  LET q == requests[r]
      x == q.input.role IN
  /\ q.step = "bumped" /\ q.handler = "deleteRole"
  /\ ~RoleLocked(x)
  /\ roles' = roles \ {x}
  /\ grants' = [grants EXCEPT ![x] = {}]
  /\ held' = [u \in Users |-> [held[u] EXCEPT ![x] = "none"]]
  /\ Bump(q.targets)
  /\ Finish(r)
  /\ UNCHANGED <<root, overrides>>

\* The moment a temporary assignment was given until.
Expire(u, x) ==
  /\ held[u][x] = "temporary"
  /\ held' = [held EXCEPT ![u][x] = "expired"]
  /\ UNCHANGED <<root, accounts, roles, grants, overrides, requests>>

-----------------------------------------------------------------------------
Serve(r) ==
  \/ \E handler \in Handlers, a \in Actors :
       \E input \in Inputs(handler) : Receive(r, handler, a, input)
  \/ Decide(r) \/ Refuse(r) \/ Rollback(r)
  \/ Transfer(r) \/ AssignRole(r) \/ RevokeRole(r)
  \/ DeactivateUser(r) \/ ReactivateUser(r)
  \/ WriteOverride(r) \/ RemoveOverride(r)
  \/ CreateRole(r) \/ BumpHolders(r) \/ UpdateRole(r) \/ DeleteRole(r)

Next ==
  \/ \E r \in Requests : Serve(r)
  \/ \E u \in Users, x \in Roles : Expire(u, x)

Spec == Init /\ [][Next]_vars

-----------------------------------------------------------------------------
(* What must hold.                                                         *)

\* The account the pointer names can sign in: otherwise nobody is left who holds
\* every right, and nobody may suspend or replace it from inside.
RootIsActive == accounts[root].status = "ACTIVE"

\* A revocation of the `owner' role leaves somebody who holds it: revoke-role.use-case.ts
\* counts the other holders inside the transaction, so that two revocations do not each
\* rely on the holder the other one removes.
RevocationsLeaveAnOwner ==
  [][\A r \in Requests :
       RevokeRole(r) /\ requests[r].input.role = "owner" /\ held' # held =>
         (Holders("owner"))' # {}]_vars

\* The organization changes hands only on the word of the account that owns it at
\* that moment, and to the account it named; of two transfers built on the same
\* owner at most one happens.
OwnershipMovesByTheRoot ==
  [][root' # root =>
       \E r \in Requests : /\ Deciding(r, "transfer")
                           /\ requests[r].actor = root
                           /\ requests[r].input.subject = root']_vars

\* The rights accounts other than the owner had between them at the start.
InitialAuthority ==
  UNION {(UNION {InitialGrants[x] :
             x \in {y \in Roles : InitialHeld[u][y] \in {"lasting", "temporary"}}})
         \ InitialDenied[u] : u \in Users \ {Root}}

\* As long as the owner gives nothing away and no exception is lifted, no sequence
\* of role edits, assignments and exceptions by anybody else gives anybody a
\* right that none of them could use before.
AuthorityIsConserved == \A u \in Users \ {Root} : Effective(u) \subseteq InitialAuthority

\* What a person may do, as a token is compared with it.
Rights(u) == <<Effective(u), accounts[u].status>>

\* Every commit that moves what a person may do moves the version their token
\* carries.  Only the passing of time moves rights without it.
VersionFollowsRights ==
  [][(\E u \in Users, x \in Roles : Expire(u, x)) \/
     \A u \in Users : (Rights(u))' # Rights(u) =>
                         accounts'[u].version # accounts[u].version]_vars

\* Everything about a person that an operation may change.
Facts(u) ==
  <<u = root, accounts[u].status, held[u], overrides[u],
    [x \in Roles |-> InForce(u, x) /\ grants[x] # {}], Granted(u)>>

\* However transfers, assignments and revocations overlap, none moves a version unless it
\* moves what the rows say of that person: one whose work another has done meanwhile
\* signs nobody out.  (An exception is rewritten and a role saved whatever they said.)
RepeatsSignNobodyOut ==
  [][\A r \in Requests, u \in Users :
       /\ Transfer(r) \/ AssignRole(r) \/ RevokeRole(r)
       /\ accounts'[u].version # accounts[u].version
       => (Facts(u))' # Facts(u)]_vars

\* An account is suspended once: deactivate-user.use-case.ts says that an offboarding run
\* twice, by two people, is not a second event.
OffboardedOnce ==
  [][\A r \in Requests :
       DeactivateUser(r) => accounts[requests[r].input.subject].status = "ACTIVE"]_vars

\* An edit or a removal of a role never takes the last right to edit roles from
\* the person who makes it.
EditorsKeepTheirWayBack ==
  [][\A r \in Requests, a \in Users :
       /\ UpdateRole(r) \/ DeleteRole(r)
       /\ requests[r].actor = a /\ ~requests[r].isOwner
       => GovernsRights \cap Effective(a) \subseteq (Effective(a))']_vars

\* An assignment that was answered is one the person has.
AssignedMeansHeld ==
  [][\A r \in Requests, u \in Users, x \in Roles :
       AssignRole(r) /\ requests[r].input.subject = u /\ requests[r].input.role = x =>
         (InForce(u, x))']_vars
=============================================================================

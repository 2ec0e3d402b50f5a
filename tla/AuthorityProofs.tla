-------------------------- MODULE AuthorityProofs ---------------------------
(***************************************************************************)
(* Theorems about Authority, for every organization, every catalogue of    *)
(* permissions and any number of concurrent requests.                      *)
(***************************************************************************)
EXTENDS RoleBatch, TLAPS

\* What an input names, by the operation it is for.
Shaped(handler, input) ==
  /\ input \in Input
  /\ handler \in {"transfer", "assign", "revoke", "deactivate", "reactivate",
                  "writeOverride", "removeOverride"} => input.subject \in Users
  /\ handler \in {"transfer", "assign", "revoke", "createRole", "updateRole",
                  "deleteRole"} => input.role \in Roles
  /\ handler = "transfer" => input.role \in SystemRoles
  /\ handler = "assign" => input.kind \in {"lasting", "temporary"}
  /\ handler = "writeOverride" => input.kind \in {"ALLOW", "DENY"}
  /\ handler \in {"writeOverride", "removeOverride"} =>
       \E k \in Keys : input.keys = {k}

\* A request in flight asks for something its handler accepts, on behalf of one of
\* the accounts that send requests.
WellFormed(q) ==
  q.step # "idle" =>
    /\ q.handler \in Handlers
    /\ q.actor \in Actors
    /\ Shaped(q.handler, q.input)

RequestsAreWellFormed == \A r \in Requests : WellFormed(requests[r])

TypeInv == TypeOK /\ RequestsAreWellFormed

-----------------------------------------------------------------------------
(* Types.                                                                  *)

LEMMA InputsAreShaped ==
  ASSUME NEW handler \in Handlers, NEW input \in Inputs(handler)
  PROVE  Shaped(handler, input)
<1>1. CASE handler \in {"transfer", "assign", "revoke"}
  <2>1. PICK u \in Users, x \in Roles, t \in Terms \cup {"none"} :
          /\ input = Asking(u, x, {}, t)
          /\ handler = "assign" => t \in Terms
          /\ handler = "transfer" => x \in SystemRoles
    <3>1. input \in AssignmentInputs(handler)
      BY <1>1 DEF Inputs
    <3> QED
      BY <3>1, ParamAssumption DEF AssignmentInputs
  <2> QED
    BY <1>1, <2>1, ParamAssumption DEF Shaped, Asking, Input, Assignments, Effects
<1>2. CASE handler \in {"deactivate", "reactivate"}
  <2>1. PICK u \in Users : input = Asking(u, None, {}, "none")
    <3>1. input \in AccountInputs
      BY <1>2 DEF Inputs
    <3> QED
      BY <3>1 DEF AccountInputs
  <2> QED
    BY <1>2, <2>1 DEF Shaped, Asking, Input, Assignments, Effects
<1>3. CASE handler \in {"createRole", "updateRole", "deleteRole"}
  <2>1. PICK x \in Roles, c \in Compositions \cup {{}} : input = Asking(None, x, c, "none")
    <3>1. input \in CompositionInputs(handler)
      BY <1>3 DEF Inputs
    <3> QED
      BY <3>1 DEF CompositionInputs
  <2> QED
    BY <1>3, <2>1, ParamAssumption DEF Shaped, Asking, Input, Assignments, Effects
<1>4. CASE handler \in {"writeOverride", "removeOverride"}
  <2>1. PICK u \in Users, c \in SingleExceptions, e \in {"ALLOW", "DENY", "none"} :
          /\ input = Asking(u, None, c, e)
          /\ handler = "writeOverride" => e \in {"ALLOW", "DENY"}
    <3>1. input \in ExceptionInputs(handler)
      BY <1>4 DEF Inputs
    <3> QED
      BY <3>1 DEF ExceptionInputs
  <2>2. PICK k \in Keys : c = {k}
    BY ParamAssumption DEF SingleExceptions
  <2> QED
    BY <1>4, <2>1, <2>2 DEF Shaped, Asking, Input, Assignments, Effects
<1> QED
  BY <1>1, <1>2, <1>3, <1>4, ParamAssumption DEF Capability

LEMMA IdleType == Idle \in Request /\ WellFormed(Idle)
BY ParamAssumption DEF Idle, Request, WellFormed, NoInput, Asking, Input, Steps,
   Capability, Assignments, Effects

\* Versions stay below the bound they are kept under.
LEMMA BumpedType ==
  ASSUME NEW account \in Account
  PROVE  Bumped(account) \in Account /\ Bumped(account).status = account.status
<1> DEFINE n == (account.version + 1) % VersionWrap
<1>1. n \in 0 .. VersionWrap - 1
  BY ParamAssumption DEF Account
<1>2. Bumped(account) = [account EXCEPT !.version = n]
  BY DEF Bumped
<1> HIDE DEF n
<1> QED
  BY <1>1, <1>2 DEF Account

LEMMA BumpType ==
  ASSUME TypeOK, NEW users \in SUBSET Users, Bump(users)
  PROVE  /\ accounts' \in [Users -> Account]
         /\ \A u \in Users : accounts'[u].status = accounts[u].status
BY BumpedType DEF TypeOK, Bump

LEMMA WithStatusType ==
  ASSUME TypeOK, NEW u \in Users, NEW status \in {"ACTIVE", "SUSPENDED"},
         WithStatus(u, status)
  PROVE  /\ accounts' \in [Users -> Account]
         /\ accounts'[u].status = status
         /\ \A v \in Users \ {u} : accounts'[v] = accounts[v]
<1>1. accounts[u] \in Account
  BY DEF TypeOK
<1> DEFINE b == Bumped(accounts[u])
<1>2. b \in Account
  BY <1>1, BumpedType
<1> HIDE DEF b
<1>3. [b EXCEPT !.status = status] \in Account /\ [b EXCEPT !.status = status].status = status
  BY <1>2 DEF Account
<1> DEFINE c == [b EXCEPT !.status = status]
<1>4. c \in Account /\ c.status = status
  BY <1>3
<1>5. accounts' = [accounts EXCEPT ![u] = c]
  BY DEF WithStatus, b
<1> HIDE DEF c
<1> QED
  BY <1>4, <1>5 DEF TypeOK

\* A request that finishes leaves the others as they were.
LEMMA FinishType ==
  ASSUME TypeInv, NEW r \in Requests, Finish(r)
  PROVE  requests' \in [Requests -> Request] /\ RequestsAreWellFormed'
BY IdleType DEF TypeInv, TypeOK, RequestsAreWellFormed, Finish, Become

LEMMA BecomeType ==
  ASSUME TypeInv, NEW r \in Requests, NEW q \in Request, WellFormed(q), Become(r, q)
  PROVE  requests' \in [Requests -> Request] /\ RequestsAreWellFormed'
BY DEF TypeInv, TypeOK, RequestsAreWellFormed, Become

\* What a request in flight is about, once its operation is known.
LEMMA InFlight ==
  ASSUME TypeInv, NEW r \in Requests, requests[r].step # "idle"
  PROVE  /\ requests[r] \in Request
         /\ requests[r].handler \in Handlers
         /\ requests[r].actor \in Actors
         /\ requests[r].actor \in Users
         /\ Shaped(requests[r].handler, requests[r].input)
BY DEF TypeInv, TypeOK, RequestsAreWellFormed, WellFormed, Request

LEMMA KeyOfType ==
  ASSUME NEW q, NEW k \in Keys, q.input.keys = {k}
  PROVE  KeyOf(q) = k
BY DEF KeyOf

LEMMA ReceiveType ==
  ASSUME TypeInv, NEW r \in Requests, NEW handler \in Handlers, NEW a \in Actors,
         NEW input \in Inputs(handler), Receive(r, handler, a, input)
  PROVE  TypeInv'
<1> DEFINE holds == Effective(a)
           q == [Idle EXCEPT !.step = "received", !.handler = handler, !.actor = a,
                             !.isOwner = (a = root), !.holds = holds, !.input = input]
<1>1. holds \in SUBSET Keys
  BY DEF TypeInv, TypeOK, Effective, Granted, Allowed
<1>2. Shaped(handler, input)
  BY InputsAreShaped
<1> HIDE DEF holds
<1>3. q \in Request /\ q.step = "received" /\ q.handler = handler /\ q.actor = a /\ q.input = input
  BY <1>1, <1>2, ParamAssumption
     DEF Idle, Request, Steps, Shaped
<1>4. WellFormed(q)
  BY <1>2, <1>3 DEF WellFormed
<1>5. Become(r, q)
  BY DEF Receive, holds
<1> HIDE DEF q
<1>6. requests' \in [Requests -> Request] /\ RequestsAreWellFormed'
  BY <1>3, <1>4, <1>5, BecomeType
<1> QED
  BY <1>6 DEF TypeInv, TypeOK, Receive, rows

LEMMA DecideType ==
  ASSUME TypeInv, NEW r \in Requests, Decide(r)
  PROVE  TypeInv'
<1> DEFINE q == requests[r]
           b == IF q.input.role \in Roles THEN grants[q.input.role] ELSE {}
           d == [q EXCEPT !.step = "decided", !.before = b]
<1>1. b \in SUBSET Keys
  BY DEF TypeInv, TypeOK
<1>2. Become(r, d)
  BY DEF Decide
<1>3. q.step = "received" /\ q \in Request
  BY DEF Decide, TypeInv, TypeOK
<1> HIDE DEF b
<1>4. /\ d \in Request /\ d.handler = q.handler /\ d.actor = q.actor
      /\ d.input = q.input /\ d.step = "decided"
  BY <1>1, <1>3 DEF Request, Steps
<1>5. WellFormed(q)
  BY DEF TypeInv, RequestsAreWellFormed
<1> HIDE DEF q, d
<1>6. WellFormed(d)
  BY <1>3, <1>4, <1>5 DEF WellFormed
<1>7. requests' \in [Requests -> Request] /\ RequestsAreWellFormed'
  BY <1>2, <1>4, <1>6, BecomeType
<1> QED
  BY <1>7 DEF TypeInv, TypeOK, Decide, rows

LEMMA BumpHoldersType ==
  ASSUME TypeInv, NEW r \in Requests, BumpHolders(r)
  PROVE  TypeInv'
<1> DEFINE q == requests[r]
           t == IF q.handler = "updateRole" /\ q.input.keys = q.before
                THEN {} ELSE Holders(q.input.role)
           d == [q EXCEPT !.step = "bumped", !.targets = t]
<1>1. t \in SUBSET Users
  BY DEF Holders
<1>2. Become(r, d)
  BY DEF BumpHolders
<1>3. q.step = "decided" /\ q \in Request
  BY DEF BumpHolders, Deciding, TypeInv, TypeOK
<1> HIDE DEF t
<1>4. /\ d \in Request /\ d.handler = q.handler /\ d.actor = q.actor
      /\ d.input = q.input /\ d.step = "bumped"
  BY <1>1, <1>3 DEF Request, Steps
<1>5. WellFormed(q)
  BY DEF TypeInv, RequestsAreWellFormed
<1> HIDE DEF q, d
<1>6. WellFormed(d)
  BY <1>3, <1>4, <1>5 DEF WellFormed
<1>7. requests' \in [Requests -> Request] /\ RequestsAreWellFormed'
  BY <1>2, <1>4, <1>6, BecomeType
<1> QED
  BY <1>7 DEF TypeInv, TypeOK, BumpHolders, rows

\* A role given where there was none, and one that was there, left as it was.
LEMMA GiveIfAbsentType ==
  ASSUME NEW assignment \in Assignments
  PROVE  GiveIfAbsent(assignment) \in Assignments
BY DEF GiveIfAbsent, Assignments

LEMMA HeldType ==
  ASSUME NEW h \in [Users -> [Roles -> Assignments]], NEW u \in Users, NEW x \in Roles,
         NEW a \in Assignments
  PROVE  [h EXCEPT ![u][x] = a] \in [Users -> [Roles -> Assignments]]
OBVIOUS

LEMMA HandedOverType ==
  ASSUME TypeOK, NEW from \in Users, NEW to \in Users, NEW left \in Roles
  PROVE  HandedOver(from, to, left) \in [Users -> [Roles -> Assignments]]
<1>1. "none" \in Assignments /\ "owner" \in Roles
  BY ParamAssumption DEF Assignments
<1>2. held[to]["owner"] \in Assignments /\ held[from][left] \in Assignments
  BY <1>1 DEF TypeOK
<1> DEFINE g == GiveIfAbsent(held[to]["owner"])
           l == GiveIfAbsent(held[from][left])
           h1 == [held EXCEPT ![to]["owner"] = g]
           h2 == [h1 EXCEPT ![from]["owner"] = "none"]
<1>3. g \in Assignments /\ l \in Assignments
  BY <1>2, GiveIfAbsentType
<1>4. HandedOver(from, to, left) = [h2 EXCEPT ![from][left] = l]
  BY DEF HandedOver
<1> HIDE DEF g, l
<1>5. h1 \in [Users -> [Roles -> Assignments]]
  BY <1>1, <1>3, HeldType DEF TypeOK
<1> HIDE DEF h1
<1>6. h2 \in [Users -> [Roles -> Assignments]]
  BY <1>1, <1>5, HeldType
<1> HIDE DEF h2
<1> QED
  BY <1>3, <1>4, <1>6, HeldType

LEMMA TransferType ==
  ASSUME TypeInv, NEW r \in Requests, Transfer(r)
  PROVE  TypeInv'
<1> DEFINE q == requests[r]
<1>1. q.actor \in Users /\ q.input.subject \in Users /\ q.input.role \in Roles
  BY InFlight DEF Transfer, Deciding, Shaped
<1>2. held' \in [Users -> [Roles -> Assignments]]
  BY <1>1, HandedOverType DEF Transfer, TypeInv
<1>3. accounts' \in [Users -> Account]
  BY <1>1, BumpType DEF Transfer, TypeInv
<1>4. requests' \in [Requests -> Request] /\ RequestsAreWellFormed'
  BY FinishType DEF Transfer
<1> QED
  BY <1>1, <1>2, <1>3, <1>4 DEF Transfer, TypeInv, TypeOK

LEMMA AssignRoleType ==
  ASSUME TypeInv, NEW r \in Requests, AssignRole(r)
  PROVE  TypeInv'
<1> DEFINE q == requests[r]
           u == q.input.subject
           x == q.input.role
<1>1. u \in Users /\ x \in Roles /\ q.input.kind \in Assignments
  BY InFlight DEF AssignRole, Deciding, Shaped, Assignments
<1>2. held' \in [Users -> [Roles -> Assignments]] /\ accounts' \in [Users -> Account]
  <2>1. CASE held[u][x] = "none"
    <3>1. held' \in [Users -> [Roles -> Assignments]]
      <4>1. held' = [held EXCEPT ![u][x] = q.input.kind]
        BY <2>1 DEF AssignRole
      <4>2. held \in [Users -> [Roles -> Assignments]]
        BY DEF TypeInv, TypeOK
      <4> HIDE DEF u, x
      <4> QED
        BY <1>1, <4>1, <4>2, HeldType
    <3>2. accounts' \in [Users -> Account]
      BY <1>1, <2>1, BumpType DEF AssignRole, TypeInv
    <3> QED
      BY <3>1, <3>2
  <2>2. CASE held[u][x] # "none"
    BY <2>2 DEF AssignRole, TypeInv, TypeOK
  <2> QED
    BY <2>1, <2>2
<1>3. requests' \in [Requests -> Request] /\ RequestsAreWellFormed'
  BY FinishType DEF AssignRole
<1> QED
  BY <1>2, <1>3 DEF AssignRole, TypeInv, TypeOK

LEMMA RevokeRoleType ==
  ASSUME TypeInv, NEW r \in Requests, RevokeRole(r)
  PROVE  TypeInv'
<1> DEFINE q == requests[r]
           u == q.input.subject
           x == q.input.role
<1>1. u \in Users /\ x \in Roles /\ "none" \in Assignments
  BY InFlight DEF RevokeRole, Deciding, Shaped, Assignments
<1>2. held' \in [Users -> [Roles -> Assignments]] /\ accounts' \in [Users -> Account]
  <2>1. CASE held[u][x] # "none"
    <3>1. held' \in [Users -> [Roles -> Assignments]]
      <4>1. held' = [held EXCEPT ![u][x] = "none"]
        BY <2>1 DEF RevokeRole
      <4>2. held \in [Users -> [Roles -> Assignments]]
        BY DEF TypeInv, TypeOK
      <4> HIDE DEF u, x
      <4> QED
        BY <1>1, <4>1, <4>2, HeldType
    <3>2. accounts' \in [Users -> Account]
      BY <1>1, <2>1, BumpType DEF RevokeRole, TypeInv
    <3> QED
      BY <3>1, <3>2
  <2>2. CASE held[u][x] = "none"
    BY <2>2 DEF RevokeRole, TypeInv, TypeOK
  <2> QED
    BY <2>1, <2>2
<1>3. requests' \in [Requests -> Request] /\ RequestsAreWellFormed'
  BY FinishType DEF RevokeRole
<1> QED
  BY <1>2, <1>3 DEF RevokeRole, TypeInv, TypeOK

LEMMA SetStatusType ==
  ASSUME TypeInv, NEW r \in Requests, NEW handler \in {"deactivate", "reactivate"},
         NEW status \in {"ACTIVE", "SUSPENDED"}, SetStatus(r, handler, status)
  PROVE  TypeInv'
<1>1. requests[r].input.subject \in Users
  BY InFlight DEF SetStatus, Deciding, Shaped
<1>2. accounts' \in [Users -> Account]
  BY <1>1, WithStatusType DEF SetStatus, TypeInv
<1>3. requests' \in [Requests -> Request] /\ RequestsAreWellFormed'
  BY FinishType DEF SetStatus
<1> QED
  BY <1>2, <1>3 DEF SetStatus, TypeInv, TypeOK

LEMMA WriteOverrideType ==
  ASSUME TypeInv, NEW r \in Requests, WriteOverride(r)
  PROVE  TypeInv'
<1> DEFINE q == requests[r]
           u == q.input.subject
<1>1. u \in Users /\ KeyOf(q) \in Keys /\ q.input.kind \in Effects
  BY InFlight, KeyOfType DEF WriteOverride, Deciding, Shaped, Effects
<1>2. accounts' \in [Users -> Account]
  BY <1>1, BumpType DEF WriteOverride, TypeInv
<1>3. requests' \in [Requests -> Request] /\ RequestsAreWellFormed'
  BY FinishType DEF WriteOverride
<1> QED
  BY <1>1, <1>2, <1>3 DEF WriteOverride, TypeInv, TypeOK

LEMMA RemoveOverrideType ==
  ASSUME TypeInv, NEW r \in Requests, RemoveOverride(r)
  PROVE  TypeInv'
<1> DEFINE q == requests[r]
           u == q.input.subject
<1>1. u \in Users /\ KeyOf(q) \in Keys /\ "none" \in Effects
  BY InFlight, KeyOfType DEF RemoveOverride, Deciding, Shaped, Effects
<1>2. accounts' \in [Users -> Account]
  BY <1>1, BumpType DEF RemoveOverride, TypeInv
<1>3. requests' \in [Requests -> Request] /\ RequestsAreWellFormed'
  BY FinishType DEF RemoveOverride
<1> QED
  BY <1>1, <1>2, <1>3 DEF RemoveOverride, TypeInv, TypeOK

LEMMA CreateRoleType ==
  ASSUME TypeInv, NEW r \in Requests, CreateRole(r)
  PROVE  TypeInv'
<1>1. requests[r].input.role \in Roles /\ requests[r].input.keys \in SUBSET Keys
  BY InFlight DEF CreateRole, Deciding, Shaped, Input
<1>2. requests' \in [Requests -> Request] /\ RequestsAreWellFormed'
  BY FinishType DEF CreateRole
<1> QED
  BY <1>1, <1>2 DEF CreateRole, TypeInv, TypeOK

LEMMA UpdateRoleType ==
  ASSUME TypeInv, NEW r \in Requests, UpdateRole(r)
  PROVE  TypeInv'
<1>1. /\ requests[r].input.role \in Roles /\ requests[r].input.keys \in SUBSET Keys
      /\ requests[r].targets \in SUBSET Users
  BY InFlight DEF UpdateRole, Shaped, Input, Request
<1>2. accounts' \in [Users -> Account]
  BY <1>1, BumpType DEF UpdateRole, TypeInv
<1>3. requests' \in [Requests -> Request] /\ RequestsAreWellFormed'
  BY FinishType DEF UpdateRole
<1> QED
  BY <1>1, <1>2, <1>3 DEF UpdateRole, TypeInv, TypeOK

LEMMA DeleteRoleType ==
  ASSUME TypeInv, NEW r \in Requests, DeleteRole(r)
  PROVE  TypeInv'
<1> DEFINE x == requests[r].input.role
<1>1. x \in Roles /\ requests[r].targets \in SUBSET Users
  BY InFlight DEF DeleteRole, Shaped, Request
<1>2. accounts' \in [Users -> Account]
  BY <1>1, BumpType DEF DeleteRole, TypeInv
<1>3. requests' \in [Requests -> Request] /\ RequestsAreWellFormed'
  BY FinishType DEF DeleteRole
<1>4. held' \in [Users -> [Roles -> Assignments]]
  BY <1>1 DEF DeleteRole, TypeInv, TypeOK, Assignments
<1> QED
  BY <1>1, <1>2, <1>3, <1>4 DEF DeleteRole, TypeInv, TypeOK

LEMMA ExpireType ==
  ASSUME TypeInv, NEW u \in Users, NEW x \in Roles, Expire(u, x)
  PROVE  TypeInv'
BY DEF Expire, TypeInv, TypeOK, Assignments, RequestsAreWellFormed

LEMMA TypeInvInit == Init => TypeInv
BY IdleType, ParamAssumption
   DEF Init, TypeInv, TypeOK, RequestsAreWellFormed, Account, Effects, Assignments

LEMMA TypeInvNext == TypeInv /\ [Next]_vars => TypeInv'
<1> SUFFICES ASSUME TypeInv, [Next]_vars PROVE TypeInv'
  OBVIOUS
<1>1. ASSUME NEW r \in Requests, Serve(r) PROVE TypeInv'
  <2>1. ASSUME NEW handler \in Handlers, NEW a \in Actors, NEW input \in Inputs(handler),
               Receive(r, handler, a, input)
        PROVE  TypeInv'
    BY <2>1, ReceiveType
  <2>2. CASE Decide(r)
    BY <2>2, DecideType
  <2>3. CASE Refuse(r) \/ Rollback(r)
    <3>1. requests' \in [Requests -> Request] /\ RequestsAreWellFormed'
      BY <2>3, FinishType DEF Refuse, Rollback
    <3> QED
      BY <2>3, <3>1 DEF Refuse, Rollback, rows, TypeInv, TypeOK
  <2>4. CASE Transfer(r)
    BY <2>4, TransferType
  <2>5. CASE AssignRole(r)
    BY <2>5, AssignRoleType
  <2>6. CASE RevokeRole(r)
    BY <2>6, RevokeRoleType
  <2>7. CASE DeactivateUser(r) \/ ReactivateUser(r)
    BY <2>7, SetStatusType DEF DeactivateUser, ReactivateUser
  <2>8. CASE WriteOverride(r)
    BY <2>8, WriteOverrideType
  <2>9. CASE RemoveOverride(r)
    BY <2>9, RemoveOverrideType
  <2>10. CASE CreateRole(r)
    BY <2>10, CreateRoleType
  <2>11. CASE BumpHolders(r)
    BY <2>11, BumpHoldersType
  <2>12. CASE UpdateRole(r)
    BY <2>12, UpdateRoleType
  <2>13. CASE DeleteRole(r)
    BY <2>13, DeleteRoleType
  <2> QED
    BY <1>1, <2>1, <2>2, <2>3, <2>4, <2>5, <2>6, <2>7, <2>8, <2>9, <2>10, <2>11, <2>12,
       <2>13 DEF Serve
<1>2. ASSUME NEW u \in Users, NEW x \in Roles, Expire(u, x) PROVE TypeInv'
  BY <1>2, ExpireType
<1>3. CASE UNCHANGED vars
  BY <1>3 DEF vars, rows, TypeInv, TypeOK, RequestsAreWellFormed
<1> QED
  BY <1>1, <1>2, <1>3 DEF Next

\* The variables keep their types: the rows of the organization, and what each
\* request in flight has read and decided.
THEOREM AuthorityTypeCorrect == Spec => []TypeOK
<1>1. TypeInv => TypeOK
  BY DEF TypeInv
<1> QED
  BY <1>1, TypeInvInit, TypeInvNext, PTL DEF Spec

-----------------------------------------------------------------------------
(* Ownership.                                                              *)

\* Whatever else is in flight, the pointer moves only in the commit of a transfer
\* that the account it names asked for, and to the account that was asked for.
THEOREM OwnershipMoves == Spec => OwnershipMovesByTheRoot
<1> DEFINE PointerMoved == root' # root =>
             \E r \in Requests : /\ Deciding(r, "transfer")
                                 /\ requests[r].actor = root
                                 /\ requests[r].input.subject = root'
<1>1. [Next]_vars => [PointerMoved]_vars
  <2> SUFFICES ASSUME Next, root' # root PROVE PointerMoved
    BY DEF vars, rows
  <2>1. PICK r \in Requests : Serve(r)
    BY DEF Next, Expire
  <2>2. Transfer(r)
    BY <2>1 DEF Serve, Receive, Decide, Refuse, Rollback, AssignRole, RevokeRole,
       DeactivateUser, ReactivateUser, SetStatus, WriteOverride, RemoveOverride,
       CreateRole, BumpHolders, UpdateRole, DeleteRole, rows
  <2> QED
    BY <2>2 DEF Transfer
<1> QED
  BY <1>1, PTL DEF Spec, OwnershipMovesByTheRoot

-----------------------------------------------------------------------------
(* The owner can sign in, unless a transfer meets a suspension.            *)

\* The race the code leaves open: an account is about to be handed the organization by one
\* request and about to be suspended by another.
TransfersMeetNoSuspension ==
  \A r, s \in Requests :
    Deciding(r, "transfer") /\ Deciding(s, "deactivate") =>
      requests[r].input.subject # requests[s].input.subject

\* What a decision relied on, for as long as it waits to be written.
DecisionsStand ==
  \A r \in Requests :
    /\ Deciding(r, "transfer") => accounts[requests[r].input.subject].status = "ACTIVE"
    /\ Deciding(r, "deactivate") => requests[r].input.subject # root

RootInv == TypeInv /\ RootIsActive /\ DecisionsStand

\* A step that neither moves the pointer nor any status, and does not end in a decision.
LEMMA RootUntouched ==
  ASSUME RootInv, TypeInv', NEW r \in Requests, root' = root,
         \A u \in Users : accounts'[u].status = accounts[u].status,
         requests'[r].step # "decided",
         \A s \in Requests \ {r} : requests'[s] = requests[s]
  PROVE  RootInv'
<1>1. ASSUME NEW s \in Requests, Deciding(s, "transfer") PROVE requests[s].input.subject \in Users
  BY <1>1, InFlight DEF RootInv, Deciding, Shaped
<1>2. DecisionsStand'
  BY <1>1 DEF RootInv, DecisionsStand, Deciding
<1>3. RootIsActive'
  BY DEF RootInv, RootIsActive, TypeInv, TypeOK
<1> QED
  BY <1>2, <1>3 DEF RootInv

LEMMA FinishIdle ==
  ASSUME TypeInv, NEW r \in Requests, Finish(r)
  PROVE  /\ requests'[r].step # "decided"
         /\ \A s \in Requests \ {r} : requests'[s] = requests[s]
BY DEF TypeInv, TypeOK, Finish, Become, Idle

LEMMA RootInvServe ==
  ASSUME TransfersMeetNoSuspension, RootInv, TypeInv', NEW r \in Requests, Serve(r)
  PROVE  RootInv'
<1> USE DEF RootInv
<1> DEFINE q == requests[r]
<1>1. ASSUME NEW handler \in Handlers, NEW a \in Actors, NEW input \in Inputs(handler),
             Receive(r, handler, a, input)
      PROVE  RootInv'
  <2>1. /\ requests'[r].step = "received"
        /\ \A s \in Requests \ {r} : requests'[s] = requests[s]
    BY <1>1 DEF Receive, Become, Idle, TypeInv, TypeOK
  <2> QED
    BY <1>1, <2>1, RootUntouched DEF Receive, rows
<1>2. CASE Decide(r)
  <2>1. UNCHANGED rows /\ Permitted(q) /\ q \in Request
    BY <1>2 DEF Decide, TypeInv, TypeOK
  <2>2. /\ requests'[r].handler = q.handler /\ requests'[r].input = q.input
        /\ \A s \in Requests \ {r} : requests'[s] = requests[s]
    BY <1>2, <2>1 DEF Decide, Become, TypeInv, TypeOK, Request
  <2>3. q.handler = "transfer" => accounts[q.input.subject].status = "ACTIVE"
    BY <2>1 DEF Permitted, assertTransferable
  <2>4. q.handler = "deactivate" => q.input.subject # root
    BY <2>1 DEF Permitted, assertDeactivable
  <2>5. DecisionsStand'
    BY <2>1, <2>2, <2>3, <2>4 DEF DecisionsStand, Deciding, rows
  <2> QED
    BY <2>1, <2>5 DEF RootIsActive, rows
<1>3. CASE Refuse(r) \/ Rollback(r)
  BY <1>3, RootUntouched, FinishIdle DEF Refuse, Rollback, rows
<1>4. CASE Transfer(r)
  <2>1. q.actor \in Users /\ q.input.subject \in Users
    BY <1>4, InFlight DEF Transfer, Deciding, Shaped
  <2>2. \A u \in Users : accounts'[u].status = accounts[u].status
    BY <1>4, <2>1, BumpType DEF Transfer, TypeInv
  <2>3. RootIsActive'
    BY <1>4, <2>1, <2>2 DEF Transfer, DecisionsStand, RootIsActive
  <2>4. Finish(r) /\ root' = q.input.subject
    BY <1>4 DEF Transfer
  <2>5. ASSUME NEW s \in Requests, Deciding(s, "transfer")
        PROVE  requests[s].input.subject \in Users
    BY <2>5, InFlight DEF Deciding, Shaped
  <2>6. DecisionsStand'
    BY <1>4, <2>2, <2>4, <2>5, FinishIdle
       DEF DecisionsStand, TransfersMeetNoSuspension, Deciding, Transfer
  <2> QED
    BY <2>3, <2>6
<1>5. CASE AssignRole(r) \/ RevokeRole(r) \/ WriteOverride(r) \/ RemoveOverride(r)
  <2>1. q.input.subject \in Users
    BY <1>5, InFlight DEF AssignRole, RevokeRole, WriteOverride, RemoveOverride,
       Deciding, Shaped
  <2>2. accounts' = accounts \/ Bump({q.input.subject})
    BY <1>5 DEF AssignRole, RevokeRole, WriteOverride, RemoveOverride
  <2>3. \A u \in Users : accounts'[u].status = accounts[u].status
    BY <2>1, <2>2, BumpType DEF TypeInv
  <2>4. root' = root /\ Finish(r)
    BY <1>5 DEF AssignRole, RevokeRole, WriteOverride, RemoveOverride
  <2> QED
    BY <2>3, <2>4, RootUntouched, FinishIdle
<1>6. CASE DeactivateUser(r) \/ ReactivateUser(r)
  <2>1. PICK status \in {"ACTIVE", "SUSPENDED"} :
          /\ WithStatus(q.input.subject, status)
          /\ status = "SUSPENDED" => q.input.subject # root /\ Deciding(r, "deactivate")
    BY <1>6 DEF DeactivateUser, ReactivateUser, SetStatus, DecisionsStand
  <2>2. q.input.subject \in Users
    BY <1>6, InFlight DEF DeactivateUser, ReactivateUser, SetStatus, Deciding, Shaped
  <2>3. root' = root /\ Finish(r)
    BY <1>6 DEF DeactivateUser, ReactivateUser, SetStatus
  <2>4. RootIsActive'
    BY <2>1, <2>2, <2>3, WithStatusType DEF RootIsActive, TypeInv, TypeOK
  <2>5. ASSUME NEW s \in Requests \ {r}, Deciding(s, "transfer")
        PROVE  accounts'[requests[s].input.subject].status = "ACTIVE"
    <3>1. requests[s].input.subject \in Users
      BY <2>5, InFlight DEF Deciding, Shaped
    <3>2. status = "SUSPENDED" => requests[s].input.subject # q.input.subject
      BY <1>6, <2>1, <2>2, <2>5 DEF TransfersMeetNoSuspension, DeactivateUser, ReactivateUser,
         SetStatus, WithStatus
    <3> QED
      BY <2>1, <2>2, <2>5, <3>1, <3>2, WithStatusType DEF DecisionsStand, TypeInv
  <2>6. DecisionsStand'
    BY <2>3, <2>5, FinishIdle DEF DecisionsStand, Deciding
  <2> QED
    BY <2>4, <2>6
<1>7. CASE CreateRole(r)
  BY <1>7, RootUntouched, FinishIdle DEF CreateRole
<1>8. CASE BumpHolders(r)
  <2>1. /\ requests'[r].step = "bumped"
        /\ \A s \in Requests \ {r} : requests'[s] = requests[s]
    BY <1>8 DEF BumpHolders, Become, TypeInv, TypeOK, Request
  <2> QED
    BY <1>8, <2>1, RootUntouched DEF BumpHolders, rows
<1>9. CASE UpdateRole(r) \/ DeleteRole(r)
  <2>1. q.targets \in SUBSET Users /\ Bump(q.targets) /\ root' = root /\ Finish(r)
    BY <1>9, InFlight DEF UpdateRole, DeleteRole, Request
  <2> QED
    BY <2>1, BumpType, RootUntouched, FinishIdle DEF TypeInv
<1> QED
  BY <1>1, <1>2, <1>3, <1>4, <1>5, <1>6, <1>7, <1>8, <1>9 DEF Serve

\* However requests overlap, the organization belongs to an account that can sign in, as
\* long as none is about to be handed it and about to be suspended at one moment: the only
\* overlap against which ownership-transfer.policy.ts and user-lifecycle.policy.ts, each
\* judging by what it has read, do not protect.
THEOREM OwnerCanSignIn == Spec /\ []TransfersMeetNoSuspension => []RootIsActive
<1>1. Init => RootInv
  BY TypeInvInit, ParamAssumption
     DEF Init, RootInv, RootIsActive, DecisionsStand, Deciding, Idle
<1>2. TransfersMeetNoSuspension /\ RootInv /\ [Next]_vars => RootInv'
  <2> SUFFICES ASSUME TransfersMeetNoSuspension, RootInv, [Next]_vars PROVE RootInv'
    OBVIOUS
  <2>1. TypeInv'
    BY TypeInvNext DEF RootInv
  <2>2. ASSUME NEW r \in Requests, Serve(r) PROVE RootInv'
    BY <2>1, <2>2, RootInvServe
  <2>3. ASSUME NEW u \in Users, NEW x \in Roles, Expire(u, x) PROVE RootInv'
    BY <2>1, <2>3 DEF Expire, RootInv, RootIsActive, DecisionsStand, Deciding
  <2>4. CASE UNCHANGED vars
    BY <2>1, <2>4 DEF vars, rows, RootInv, RootIsActive, DecisionsStand, Deciding
  <2> QED
    BY <2>2, <2>3, <2>4 DEF Next
<1>3. RootInv => RootIsActive
  BY DEF RootInv
<1> QED
  BY <1>1, <1>2, <1>3, PTL DEF Spec

-----------------------------------------------------------------------------
(* Nobody is signed out for nothing.                                       *)

\* A transfer that was decided is to somebody else.
WorthWriting(q) == q.step = "decided" /\ q.handler = "transfer" => q.input.subject # q.actor

WorthInv == TypeInv /\ \A r \in Requests : WorthWriting(requests[r])

LEMMA IdleIsWorth == WorthWriting(Idle)
BY DEF WorthWriting, Idle

LEMMA WorthAfterFinish ==
  ASSUME WorthInv, TypeInv', NEW r \in Requests, Finish(r)
  PROVE  WorthInv'
<1>1. SUFFICES ASSUME NEW p \in Requests
               PROVE  WorthWriting(requests[p])'
  BY DEF WorthInv
<1>2. requests' = [requests EXCEPT ![r] = Idle] /\ requests \in [Requests -> Request]
  BY DEF Finish, Become, WorthInv, TypeInv, TypeOK
<1>3. CASE p = r
  BY <1>2, <1>3 DEF WorthWriting, Idle
<1>4. CASE p # r
  BY <1>2, <1>4 DEF WorthInv, WorthWriting
<1> QED
  BY <1>3, <1>4

LEMMA WorthNext == WorthInv /\ [Next]_vars => WorthInv'
<1> SUFFICES ASSUME WorthInv, [Next]_vars PROVE WorthInv'
  OBVIOUS
<1>1. TypeInv'
  BY TypeInvNext DEF WorthInv
<1>2. ASSUME NEW r \in Requests, Serve(r) PROVE WorthInv'
  <2> DEFINE q == requests[r]
  <2>1. ASSUME NEW handler \in Handlers, NEW a \in Actors, NEW input \in Inputs(handler),
               Receive(r, handler, a, input)
        PROVE  WorthInv'
    <3>1. requests'[r].step = "received"
      BY <2>1 DEF Receive, Become, Idle, WorthInv, TypeInv, TypeOK
    <3>2. \A p \in Requests \ {r} : requests'[p] = requests[p]
      BY <2>1 DEF Receive, Become, WorthInv, TypeInv, TypeOK
    <3> QED
      BY <1>1, <2>1, <3>1, <3>2 DEF WorthInv, WorthWriting
  <2>2. CASE Decide(r)
    <3>1. Permitted(q) /\ q \in Request
      BY <2>2 DEF Decide, WorthInv, TypeInv, TypeOK
    <3>2. /\ requests'[r].handler = q.handler /\ requests'[r].input = q.input
          /\ requests'[r].actor = q.actor /\ requests'[r].step = "decided"
      BY <2>2, <3>1 DEF Decide, Become, WorthInv, TypeInv, TypeOK, Request
    <3>3. \A p \in Requests \ {r} : requests'[p] = requests[p]
      BY <2>2 DEF Decide, Become, WorthInv, TypeInv, TypeOK
    <3>4. q.handler = "transfer" => q.input.subject # q.actor
      BY <3>1 DEF Permitted, assertTransferable
    <3>5. WorthWriting(requests[r])'
      BY <3>2, <3>4 DEF WorthWriting
    <3>6. \A p \in Requests \ {r} : WorthWriting(requests[p])'
      BY <3>3 DEF WorthInv, WorthWriting
    <3> QED
      BY <1>1, <3>5, <3>6 DEF WorthInv
  <2>3. CASE BumpHolders(r)
    <3>1. requests'[r].step = "bumped" /\ \A p \in Requests \ {r} : requests'[p] = requests[p]
      BY <2>3 DEF BumpHolders, Become, WorthInv, TypeInv, TypeOK, Request
    <3> QED
      BY <1>1, <3>1 DEF WorthInv, WorthWriting
  <2>4. CASE Finish(r)
    BY <1>1, <2>4, WorthAfterFinish
  <2> QED
    BY <1>2, <2>1, <2>2, <2>3, <2>4 DEF Serve, Refuse, Rollback, Transfer, AssignRole, RevokeRole,
       DeactivateUser, ReactivateUser, SetStatus, WriteOverride, RemoveOverride, CreateRole,
       UpdateRole, DeleteRole
<1>3. ASSUME NEW u \in Users, NEW x \in Roles, Expire(u, x) PROVE WorthInv'
  BY <1>1, <1>3 DEF Expire, WorthInv, WorthWriting
<1>4. CASE UNCHANGED vars
  BY <1>1, <1>4 DEF vars, WorthInv, WorthWriting
<1> QED
  BY <1>2, <1>3, <1>4 DEF Next

\* A version moves only in the commit that bumps it.
LEMMA OnlyBumped ==
  ASSUME TypeOK, NEW users, Bump(users), NEW u \in Users,
         accounts'[u].version # accounts[u].version
  PROVE  u \in users
BY DEF Bump, TypeOK

\* One of the facts about a person moved.
LEMMA FactsMove ==
  ASSUME NEW u,
         \/ (u = root) # (u = root')
         \/ accounts[u].status # accounts'[u].status
         \/ held[u] # held'[u]
         \/ overrides[u] # overrides'[u]
  PROVE  (Facts(u))' # Facts(u)
<1>1. CASE (u = root) # (u = root')
  BY <1>1 DEF Facts
<1>2. CASE accounts[u].status # accounts'[u].status
  BY <1>2 DEF Facts
<1>3. CASE held[u] # held'[u]
  BY <1>3 DEF Facts
<1>4. CASE overrides[u] # overrides'[u]
  BY <1>4 DEF Facts
<1> QED
  BY <1>1, <1>2, <1>3, <1>4

\* A role given, or taken away: the row was not there before, or was.
LEMMA AssignmentsAreNotIdle ==
  ASSUME WorthInv, NEW r \in Requests, AssignRole(r) \/ RevokeRole(r), NEW v \in Users,
         accounts'[v].version # accounts[v].version
  PROVE  (Facts(v))' # Facts(v)
<1> DEFINE q == requests[r]
           u == q.input.subject
           x == q.input.role
<1>1. /\ u \in Users /\ x \in Roles
      /\ AssignRole(r) => q.input.kind # "none"
  BY InFlight DEF AssignRole, RevokeRole, Deciding, Shaped, WorthInv
<1>2. PICK a : held' = [held EXCEPT ![u][x] = a] /\ a # held[u][x] /\ Bump({u})
  BY <1>1 DEF AssignRole, RevokeRole
<1>3. held \in [Users -> [Roles -> Assignments]]
  BY DEF WorthInv, TypeInv, TypeOK
<1> HIDE DEF u, x
<1>4. v = u
  BY <1>2, OnlyBumped DEF WorthInv, TypeInv
<1>5. held'[u][x] = a
  BY <1>1, <1>2, <1>3
<1> QED
  BY <1>2, <1>4, <1>5, FactsMove

LEMMA TransfersAreNotIdle ==
  ASSUME WorthInv, NEW r \in Requests, Transfer(r), NEW v \in Users,
         accounts'[v].version # accounts[v].version
  PROVE  (Facts(v))' # Facts(v)
<1>1. requests[r].actor # requests[r].input.subject
  BY DEF Transfer, Deciding, WorthInv, WorthWriting
<1>2. v \in {requests[r].actor, requests[r].input.subject}
  BY OnlyBumped DEF Transfer, WorthInv, TypeInv
<1>3. root = requests[r].actor /\ root' = requests[r].input.subject
  BY DEF Transfer
<1>4. (v = root) # (v = root')
  BY <1>1, <1>2, <1>3
<1> QED
  BY <1>4, FactsMove

\* With any number of requests in flight, a transfer, an assignment or a revocation moves
\* the version of nobody of whom the rows say the same before and after: of two that ask
\* for the same only the first signs somebody out.
THEOREM NobodyIsSignedOutForNothing == Spec => RepeatsSignNobodyOut
<1> DEFINE Earned == \A r \in Requests, u \in Users :
                       /\ Transfer(r) \/ AssignRole(r) \/ RevokeRole(r)
                       /\ accounts'[u].version # accounts[u].version
                       => (Facts(u))' # Facts(u)
<1>1. Init => WorthInv
  BY TypeInvInit, IdleIsWorth DEF Init, WorthInv
<1>2. WorthInv => Earned
  BY TransfersAreNotIdle, AssignmentsAreNotIdle
<1> QED
  BY <1>1, <1>2, WorthNext, PTL DEF Spec, RepeatsSignNobodyOut

-----------------------------------------------------------------------------
(* A version moves with the rights.                                        *)

\* Provisioned roles stay, and whoever holds a role holds one that exists, however the
\* requests overlap; an edit nobody overtakes writes over what it read, and its bump
\* reached everybody who holds the role.
EditsOrRemoves(q) ==
  q.step \in {"decided", "bumped"} /\ q.handler \in {"updateRole", "deleteRole"}

Settled(q) ==
  /\ EditsOrRemoves(q) => q.input.role \notin SystemRoles
  /\ EditsOrRemoves(q) /\ q.handler = "updateRole" => q.before = grants[q.input.role]
  /\ EditsOrRemoves(q) /\ q.step = "bumped" =>
       \/ q.handler = "updateRole" /\ q.input.keys = grants[q.input.role]
       \/ \A u \in Users \ q.targets : ~InForce(u, q.input.role)

\* The race the port leaves open (role-repository.port.ts): between the decision of an edit
\* or a removal and its commit somebody else edits the role, or between the bump of its
\* holders and the commit somebody is given it.
RolesAreNotOvertaken ==
  \A r \in Requests :
    EditsOrRemoves(requests[r]) /\ EditsOrRemoves(requests[r])' =>
      LET x == requests[r].input.role IN
      /\ grants'[x] = grants[x]
      /\ requests[r].step = "bumped" => \A u \in Users : InForce(u, x)' => InForce(u, x)

HeldRolesExist == \A u \in Users, x \in Roles : held[u][x] # "none" => x \in roles

RowsInv ==
  /\ TypeInv
  /\ SystemRoles \subseteq roles
  /\ HeldRolesExist
  /\ \A r \in Requests : Settled(requests[r])

LEMMA SettledAfterFinish ==
  ASSUME RolesAreNotOvertaken, RowsInv, TypeInv', NEW r \in Requests, Finish(r),
         SystemRoles \subseteq roles', HeldRolesExist'
  PROVE  RowsInv'
<1>1. SUFFICES ASSUME NEW p \in Requests PROVE Settled(requests[p])'
  BY DEF RowsInv
<1>2. requests' = [requests EXCEPT ![r] = Idle] /\ requests \in [Requests -> Request]
  BY DEF Finish, Become, RowsInv, TypeInv, TypeOK
<1>3. CASE p = r
  BY <1>2, <1>3 DEF Settled, EditsOrRemoves, Idle
<1>4. CASE p # r
  BY <1>2, <1>4 DEF RowsInv, Settled, EditsOrRemoves, RolesAreNotOvertaken
<1> QED
  BY <1>3, <1>4

\* A step that reads leaves the rows, and tells one request what they say.
LEMMA SettledAfterReading ==
  ASSUME RowsInv, TypeInv', UNCHANGED rows, NEW r \in Requests, NEW q, Become(r, q), Settled(q)
  PROVE  RowsInv'
<1>1. \A p : Settled(p)' = Settled(p)
  BY DEF Settled, EditsOrRemoves, InForce, rows
<1>2. \A p \in Requests : requests'[p] = IF p = r THEN q ELSE requests[p]
  BY DEF Become, RowsInv, TypeInv, TypeOK
<1>3. \A p \in Requests : Settled(requests'[p])
  BY <1>2 DEF RowsInv
<1>4. \A p \in Requests : Settled(requests[p])'
  BY <1>3 DEF Settled, EditsOrRemoves, InForce, rows
<1> QED
  BY <1>4 DEF RowsInv, HeldRolesExist, rows

\* Whoever may be handed the organization is handed roles that exist.
LEMMA TransferSettles ==
  ASSUME RolesAreNotOvertaken, RowsInv, TypeInv', NEW r \in Requests, Transfer(r)
  PROVE  RowsInv'
<1> DEFINE q == requests[r]
           from == q.actor
           to == q.input.subject
           left == q.input.role
<1>1. from \in Users /\ to \in Users /\ left \in SystemRoles /\ left \in Roles
  BY InFlight DEF Transfer, Deciding, Shaped, RowsInv
<1>2. "owner" \in SystemRoles /\ SystemRoles \subseteq Roles
  BY ParamAssumption
<1>3. held' = HandedOver(from, to, left) /\ roles' = roles /\ Finish(r)
  BY DEF Transfer
<1>4. held \in [Users -> [Roles -> Assignments]]
  BY DEF RowsInv, TypeInv, TypeOK
<1> HIDE DEF from, to, left
<1>5. ASSUME NEW u \in Users, NEW x \in Roles, held'[u][x] # "none" PROVE x \in roles
  <2>1. held'[u][x] = held[u][x] \/ x \in {"owner", left}
    BY <1>1, <1>2, <1>3, <1>4 DEF HandedOver
  <2> QED
    BY <1>1, <1>2, <1>5, <2>1 DEF RowsInv, HeldRolesExist
<1> QED
  BY <1>3, <1>5, SettledAfterFinish DEF RowsInv, HeldRolesExist

LEMMA AssignmentsSettle ==
  ASSUME RolesAreNotOvertaken, RowsInv, TypeInv', NEW r \in Requests, AssignRole(r) \/ RevokeRole(r)
  PROVE  RowsInv'
<1> DEFINE q == requests[r]
           u == q.input.subject
           x == q.input.role
<1>1. u \in Users /\ x \in Roles
  BY InFlight DEF AssignRole, RevokeRole, Deciding, Shaped, RowsInv
<1>2. PICK a : \/ held' = [held EXCEPT ![u][x] = a] /\ (a # "none" => x \in roles)
               \/ held' = held
  BY DEF AssignRole, RevokeRole
<1>3. roles' = roles /\ Finish(r) /\ held \in [Users -> [Roles -> Assignments]]
  BY DEF AssignRole, RevokeRole, RowsInv, TypeInv, TypeOK
<1> HIDE DEF u, x
<1>4. HeldRolesExist'
  BY <1>1, <1>2, <1>3 DEF RowsInv, HeldRolesExist
<1> QED
  BY <1>3, <1>4, SettledAfterFinish DEF RowsInv

LEMMA RoleWritesSettle ==
  ASSUME RolesAreNotOvertaken, RowsInv, TypeInv', NEW r \in Requests, CreateRole(r) \/ UpdateRole(r) \/ DeleteRole(r)
  PROVE  RowsInv'
<1> DEFINE x == requests[r].input.role
<1>1. Finish(r) /\ x \in Roles
  BY InFlight DEF CreateRole, UpdateRole, DeleteRole, Deciding, Shaped, RowsInv
<1>2. CASE CreateRole(r) \/ UpdateRole(r)
  BY <1>1, <1>2, SettledAfterFinish DEF CreateRole, UpdateRole, RowsInv, HeldRolesExist
<1>3. CASE DeleteRole(r)
  <2>1. x \notin SystemRoles /\ roles' = roles \ {x}
    BY <1>3 DEF DeleteRole, RowsInv, Settled, EditsOrRemoves
  <2>2. held' = [u \in Users |-> [held[u] EXCEPT ![x] = "none"]]
    BY <1>3 DEF DeleteRole
  <2>3. held \in [Users -> [Roles -> Assignments]]
    BY DEF RowsInv, TypeInv, TypeOK
  <2> HIDE DEF x
  <2>4. ASSUME NEW u \in Users, NEW y \in Roles, held'[u][y] # "none" PROVE y \in roles'
    <3>1. held'[u] = [held[u] EXCEPT ![x] = "none"] /\ held[u] \in [Roles -> Assignments]
      BY <2>2, <2>3
    <3>2. y # x /\ held[u][y] # "none"
      BY <1>1, <2>4, <3>1
    <3> QED
      BY <2>1, <3>2 DEF RowsInv, HeldRolesExist
  <2> QED
    BY <1>1, <2>1, <2>4, SettledAfterFinish DEF RowsInv, HeldRolesExist
<1> QED
  BY <1>2, <1>3

LEMMA DecideSettles ==
  ASSUME RowsInv, TypeInv', NEW r \in Requests, Decide(r)
  PROVE  RowsInv'
<1> DEFINE q == requests[r]
           b == IF q.input.role \in Roles THEN grants[q.input.role] ELSE {}
           d == [q EXCEPT !.step = "decided", !.before = b]
<1>1. Become(r, d) /\ UNCHANGED rows /\ q \in Request /\ q.step = "received" /\ Permitted(q)
  BY DEF Decide, RowsInv, TypeInv, TypeOK
<1>2. q.handler = "updateRole" => b = grants[q.input.role]
  BY <1>1, InFlight DEF Shaped, RowsInv
<1> HIDE DEF b
<1>3. d.step = "decided" /\ d.handler = q.handler /\ d.input = q.input /\ d.before = b
  BY <1>1 DEF Request
<1> HIDE DEF d, q
<1>4. q.handler \in {"updateRole", "deleteRole"} => q.input.role \notin SystemRoles
  BY <1>1 DEF Permitted, canUpdateRole, canDeleteRole
<1>5. Settled(d)
  BY <1>2, <1>3, <1>4 DEF Settled, EditsOrRemoves
<1> QED
  BY <1>1, <1>5, SettledAfterReading

LEMMA BumpHoldersSettles ==
  ASSUME RowsInv, TypeInv', NEW r \in Requests, BumpHolders(r)
  PROVE  RowsInv'
<1> DEFINE q == requests[r]
           t == IF q.handler = "updateRole" /\ q.input.keys = q.before
                THEN {} ELSE Holders(q.input.role)
           d == [q EXCEPT !.step = "bumped", !.targets = t]
<1>1. Become(r, d) /\ UNCHANGED rows /\ q \in Request /\ q.step = "decided" /\ Settled(q)
  BY DEF BumpHolders, Deciding, RowsInv, TypeInv, TypeOK
<1>2. \/ q.handler = "updateRole" /\ q.input.keys = q.before
      \/ \A u \in Users \ t : ~InForce(u, q.input.role)
  BY DEF Holders
<1> HIDE DEF t
<1>3. /\ d.step = "bumped" /\ d.handler = q.handler /\ d.input = q.input
      /\ d.before = q.before /\ d.targets = t
  BY <1>1 DEF Request
<1> HIDE DEF d, q
<1>4. Settled(d)
  BY <1>1, <1>2, <1>3 DEF Settled, EditsOrRemoves
<1> QED
  BY <1>1, <1>4, SettledAfterReading

LEMMA RowsInvInit == Init => RowsInv
<1> SUFFICES ASSUME Init PROVE RowsInv
  OBVIOUS
<1>1. HeldRolesExist /\ SystemRoles \subseteq roles
  BY ParamAssumption DEF Init, HeldRolesExist
<1>2. Settled(Idle)
  BY DEF Settled, EditsOrRemoves, Idle
<1> QED
  BY <1>1, <1>2, TypeInvInit DEF Init, RowsInv

LEMMA RowsInvNext == RowsInv /\ [RolesAreNotOvertaken]_vars /\ [Next]_vars => RowsInv'
<1> SUFFICES ASSUME RowsInv, [RolesAreNotOvertaken]_vars, [Next]_vars PROVE RowsInv'
  OBVIOUS
<1>1. TypeInv'
  BY TypeInvNext DEF RowsInv
<1>2. ASSUME NEW r \in Requests, Serve(r), RolesAreNotOvertaken PROVE RowsInv'
  <2>1. ASSUME NEW handler \in Handlers, NEW a \in Actors, NEW input \in Inputs(handler),
               Receive(r, handler, a, input)
        PROVE  RowsInv'
    <3> DEFINE holds == Effective(a)
               q == [Idle EXCEPT !.step = "received", !.handler = handler, !.actor = a,
                                 !.isOwner = (a = root), !.holds = holds, !.input = input]
    <3>1. Become(r, q) /\ UNCHANGED rows
      BY <2>1 DEF Receive
    <3> HIDE DEF holds
    <3>2. q.step = "received"
      BY DEF Idle
    <3> HIDE DEF q
    <3>3. Settled(q)
      BY <3>2 DEF Settled, EditsOrRemoves
    <3> QED
      BY <1>1, <3>1, <3>3, SettledAfterReading
  <2>2. CASE Refuse(r) \/ Rollback(r) \/ DeactivateUser(r) \/ ReactivateUser(r)
             \/ WriteOverride(r) \/ RemoveOverride(r)
    BY <1>1, <1>2, <2>2, SettledAfterFinish DEF Refuse, Rollback, DeactivateUser, ReactivateUser,
       SetStatus, WriteOverride, RemoveOverride, rows, RowsInv, HeldRolesExist
  <2> QED
    BY <1>1, <1>2, <2>1, <2>2, DecideSettles, TransferSettles, AssignmentsSettle,
       RoleWritesSettle, BumpHoldersSettles DEF Serve
<1>3. ASSUME NEW u \in Users, NEW x \in Roles, Expire(u, x) PROVE RowsInv'
  <2>1. UNCHANGED <<roles, grants, requests>>
    BY <1>3 DEF Expire
  <2>2. \A v \in Users, y \in Roles : /\ held'[v][y] # "none" => held[v][y] # "none"
                                      /\ InForce(v, y)' => InForce(v, y)
    BY <1>3 DEF Expire, RowsInv, TypeInv, TypeOK, InForce
  <2>3. \A r \in Requests :
          requests[r].step = "bumped" /\ requests[r].handler \in {"updateRole", "deleteRole"} =>
            requests[r].input.role \in Roles
    BY InFlight DEF Shaped, RowsInv
  <2> QED
    BY <1>1, <2>1, <2>2, <2>3 DEF RowsInv, Settled, EditsOrRemoves, HeldRolesExist
<1>4. CASE UNCHANGED vars
  BY <1>1, <1>4 DEF vars, rows, RowsInv, Settled, EditsOrRemoves, HeldRolesExist, InForce
<1> QED
  BY <1>2, <1>3, <1>4 DEF Next

LEMMA SameRights ==
  ASSUME TypeOK, NEW u \in Users, (u = root) <=> (u = root'), accounts'[u] = accounts[u],
         overrides'[u] = overrides[u],
         \A x \in Roles : InForce(u, x)' <=> InForce(u, x),
         \A x \in Roles : InForce(u, x) => grants'[x] = grants[x]
  PROVE  (Rights(u))' = Rights(u)
<1>1. Allowed(u)' = Allowed(u) /\ Denied(u)' = Denied(u)
  BY DEF Allowed, Denied
<1>2. Granted(u)' = Granted(u)
  BY <1>1 DEF Granted
<1>3. Effective(u)' = Effective(u)
  BY <1>1, <1>2 DEF Effective
<1> QED
  BY <1>3 DEF Rights

\* Two versions in a row differ, for the bound they are kept under is at least two.
LEMMA BumpedMoves ==
  ASSUME NEW account \in Account
  PROVE  Bumped(account).version # account.version
<1> DEFINE n == (account.version + 1) % VersionWrap
<1>1. account.version \in 0 .. VersionWrap - 1 /\ VersionWrap \in Nat /\ VersionWrap >= 2
  BY ParamAssumption DEF Account
<1>2. CASE account.version + 1 < VersionWrap
  <2>1. n = account.version + 1
    BY <1>1, <1>2
  <2> QED
    BY <1>1, <2>1 DEF Bumped, Account
<1>3. CASE account.version + 1 = VersionWrap
  <2>1. n = 0 /\ account.version # 0
    BY <1>1, <1>3
  <2> QED
    BY <1>1, <2>1 DEF Bumped, Account
<1> QED
  BY <1>1, <1>2, <1>3

\* Whom a bump did not reach keeps their account as it was.
LEMMA NotBumped ==
  ASSUME TypeOK, NEW users, Bump(users), NEW u \in Users,
         accounts'[u].version = accounts[u].version
  PROVE  u \notin users /\ accounts'[u] = accounts[u]
BY BumpedMoves DEF Bump, TypeOK

LEMMA StatusMoves ==
  ASSUME TypeOK, NEW u \in Users, NEW status, WithStatus(u, status), NEW v \in Users,
         accounts'[v].version = accounts[v].version
  PROVE  accounts'[v] = accounts[v]
<1>1. accounts' = [accounts EXCEPT ![u] = [Bumped(accounts[u]) EXCEPT !.status = status]]
  BY DEF WithStatus
<1>2. accounts \in [Users -> Account]
  BY DEF TypeOK
<1>3. Bumped(accounts[u]).version # accounts[u].version /\ Bumped(accounts[u]) \in Account
  BY <1>2, BumpedMoves, BumpedType
<1> DEFINE b == Bumped(accounts[u])
<1> HIDE DEF b
<1>4. [b EXCEPT !.status = status].version = b.version
  BY <1>3 DEF Account, b
<1>5. v # u
  BY <1>1, <1>2, <1>3, <1>4 DEF b
<1> QED
  BY <1>1, <1>2, <1>5

\* Each commit: whoever it does not bump is left with the rights they had.
LEMMA CommitsFollow ==
  ASSUME RowsInv, NEW r \in Requests, NEW v \in Users,
         accounts'[v].version = accounts[v].version,
         \/ Transfer(r) \/ AssignRole(r) \/ RevokeRole(r) \/ DeactivateUser(r)
         \/ ReactivateUser(r) \/ WriteOverride(r) \/ RemoveOverride(r)
         \/ CreateRole(r) \/ UpdateRole(r) \/ DeleteRole(r)
  PROVE  (Rights(v))' = Rights(v)
<1> DEFINE q == requests[r]
           u == q.input.subject
           x == q.input.role
<1>1. TypeOK /\ q \in Request
  BY DEF RowsInv, TypeInv, TypeOK
<1>2. /\ held \in [Users -> [Roles -> Assignments]]
      /\ overrides \in [Users -> [Keys -> Effects]]
      /\ grants \in [Roles -> SUBSET Keys]
  BY DEF RowsInv, TypeInv, TypeOK
<1>3. CASE Transfer(r)
  <2>1. v \notin {q.actor, u} /\ accounts'[v] = accounts[v]
    BY <1>1, <1>3, NotBumped DEF Transfer
  <2>2. held'[v] = held[v]
    <3>1. held' = HandedOver(q.actor, u, x)
      BY <1>3 DEF Transfer
    <3> HIDE DEF u, x
    <3> QED
      BY <1>2, <2>1, <3>1 DEF HandedOver
  <2>3. root = q.actor /\ root' = u /\ UNCHANGED <<roles, grants, overrides>>
    BY <1>3 DEF Transfer
  <2> QED
    BY <1>1, <2>1, <2>2, <2>3, SameRights DEF InForce
<1>4. CASE AssignRole(r) \/ RevokeRole(r)
  <2>1. UNCHANGED <<root, grants, overrides>>
    BY <1>4 DEF AssignRole, RevokeRole
  <2>2. \/ UNCHANGED <<held, accounts>>
        \/ Bump({u}) /\ \E a : held' = [held EXCEPT ![u][x] = a]
    BY <1>4 DEF AssignRole, RevokeRole
  <2> HIDE DEF u, x
  <2>3. held'[v] = held[v] /\ accounts'[v] = accounts[v]
    BY <1>1, <1>2, <2>2, NotBumped
  <2> QED
    BY <1>1, <2>1, <2>3, SameRights DEF InForce
<1>5. CASE DeactivateUser(r) \/ ReactivateUser(r)
  <2>1. u \in Users
    BY <1>5, InFlight DEF DeactivateUser, ReactivateUser, SetStatus, Deciding, Shaped, RowsInv
  <2>2. UNCHANGED <<root, held, grants, overrides>>
    BY <1>5 DEF DeactivateUser, ReactivateUser, SetStatus
  <2>3. accounts'[v] = accounts[v]
    BY <1>1, <1>5, <2>1, StatusMoves DEF DeactivateUser, ReactivateUser, SetStatus
  <2> QED
    BY <1>1, <2>2, <2>3, SameRights DEF InForce
<1>6. CASE WriteOverride(r) \/ RemoveOverride(r)
  <2>1. UNCHANGED <<root, held, grants>>
    BY <1>6 DEF WriteOverride, RemoveOverride
  <2>2. Bump({u}) /\ \E e : overrides' = [overrides EXCEPT ![u][KeyOf(q)] = e]
    BY <1>6 DEF WriteOverride, RemoveOverride
  <2> HIDE DEF u
  <2>3. overrides'[v] = overrides[v] /\ accounts'[v] = accounts[v]
    BY <1>1, <1>2, <2>2, NotBumped
  <2> QED
    BY <1>1, <2>1, <2>3, SameRights DEF InForce
<1>7. CASE CreateRole(r)
  <2>1. UNCHANGED <<root, accounts, held, overrides>> /\ x \notin roles
    BY <1>7 DEF CreateRole
  <2>2. grants' = [grants EXCEPT ![x] = q.input.keys]
    BY <1>7 DEF CreateRole
  <2> HIDE DEF x
  <2>3. \A y \in Roles : InForce(v, y) => y \in roles
    BY DEF InForce, RowsInv, HeldRolesExist
  <2>4. \A y \in Roles : InForce(v, y) => grants'[y] = grants[y]
    BY <1>2, <2>1, <2>2, <2>3
  <2> QED
    BY <1>1, <2>1, <2>4, SameRights DEF InForce
<1>8. CASE UpdateRole(r)
  <2>1. /\ UNCHANGED <<root, held, overrides>> /\ v \notin q.targets
        /\ accounts'[v] = accounts[v]
    BY <1>1, <1>8, NotBumped DEF UpdateRole
  <2>2. grants' = [grants EXCEPT ![x] = q.input.keys]
    BY <1>8 DEF UpdateRole
  <2>3. q.input.keys = grants[x] \/ ~InForce(v, x)
    BY <1>8, <2>1 DEF UpdateRole, RowsInv, Settled, EditsOrRemoves
  <2> HIDE DEF x
  <2>4. \A y \in Roles : InForce(v, y) => grants'[y] = grants[y]
    BY <1>2, <2>2, <2>3
  <2> QED
    BY <1>1, <2>1, <2>4, SameRights DEF InForce
<1>9. CASE DeleteRole(r)
  <2>1. /\ UNCHANGED <<root, overrides>> /\ v \notin q.targets
        /\ accounts'[v] = accounts[v]
    BY <1>1, <1>9, NotBumped DEF DeleteRole
  <2>2. grants' = [grants EXCEPT ![x] = {}] /\ held'[v] = [held[v] EXCEPT ![x] = "none"]
    BY <1>9 DEF DeleteRole
  <2>3. ~InForce(v, x)
    BY <1>9, <2>1 DEF DeleteRole, RowsInv, Settled, EditsOrRemoves
  <2> HIDE DEF x
  <2>4. held[v] \in [Roles -> Assignments]
    BY <1>2
  <2>5. \A y \in Roles : (InForce(v, y) => grants'[y] = grants[y]) /\ (InForce(v, y)' <=> InForce(v, y))
    BY <1>2, <2>2, <2>3, <2>4 DEF InForce
  <2> QED
    BY <1>1, <2>1, <2>5, SameRights
<1> QED
  BY <1>3, <1>4, <1>5, <1>6, <1>7, <1>8, <1>9

\* However requests overlap, every commit that moves what a person may do moves the version
\* their token carries, theirs and that of everybody a role reaches, unless the role is
\* edited or given to somebody under a request that edits or removes it.
THEOREM VersionsFollow == Spec /\ [][RolesAreNotOvertaken]_vars => VersionFollowsRights
<1> DEFINE Followed ==
      (\E u \in Users, x \in Roles : Expire(u, x)) \/
      \A u \in Users : (Rights(u))' # Rights(u) => accounts'[u].version # accounts[u].version
<1>1. RowsInv /\ [Next]_vars => [Followed]_vars
  <2> SUFFICES ASSUME RowsInv, NEW r \in Requests, Serve(r), NEW v \in Users,
                      accounts'[v].version = accounts[v].version
               PROVE  (Rights(v))' = Rights(v)
    BY DEF Next
  <2>1. CASE UNCHANGED rows
    BY <2>1, SameRights DEF rows, InForce, RowsInv, TypeInv
  <2>2. CASE ~UNCHANGED rows
    BY <2>2, CommitsFollow DEF Serve, Receive, Decide, Refuse, Rollback, BumpHolders
  <2> QED
    BY <2>1, <2>2
<1> QED
  BY <1>1, RowsInvInit, RowsInvNext, PTL DEF Spec, VersionFollowsRights

-----------------------------------------------------------------------------
(* Editors keep their way back.                                            *)

\* What an edit was decided on is what the editor still has.
Edits(q) == q.step # "idle" /\ q.handler \in {"updateRole", "deleteRole"}

Remaining(q) == IF q.handler = "updateRole" THEN q.input.keys ELSE {}

Aware(q) ==
  Edits(q) =>
    /\ (q.isOwner <=> q.actor = root) /\ q.holds = Effective(q.actor)
    /\ q.step \in {"decided", "bumped"} => ~locksOutSelf(q, Remaining(q))

AwareInv == TypeInv /\ \A r \in Requests : Aware(requests[r])

\* All that the rows say of a person.
SaysTheSame(a) ==
  /\ (a = root') <=> (a = root)
  /\ held'[a] = held[a] /\ overrides'[a] = overrides[a]
  /\ \A x \in Roles : InForce(a, x) => grants'[x] = grants[x]

\* The race the code leaves open: what the author of an edit holds changes under it, by
\* somebody else's commit or because the moment has come until which it was given.
EditorsAreNotOvertaken ==
  \A r \in Requests :
    Edits(requests[r]) /\ Edits(requests[r])' => SaysTheSame(requests[r].actor)

LEMMA SamePosition ==
  ASSUME NEW a, SaysTheSame(a)
  PROVE  /\ Effective(a)' = Effective(a)
         /\ \A x \in Roles : InForce(a, x)' = InForce(a, x) /\ KeptElsewhere(a, x)' = KeptElsewhere(a, x)
<1>1. \A x \in Roles : InForce(a, x)' = InForce(a, x)
  BY DEF SaysTheSame, InForce
<1>2. Allowed(a)' = Allowed(a) /\ Denied(a)' = Denied(a)
  BY DEF SaysTheSame, Allowed, Denied
<1>3. \A x \in Roles : KeptElsewhere(a, x)' = KeptElsewhere(a, x)
  BY <1>1, <1>2 DEF SaysTheSame, KeptElsewhere
<1>4. Granted(a)' = Granted(a)
  BY <1>1, <1>2 DEF SaysTheSame, Granted
<1>5. Effective(a)' = Effective(a)
  BY <1>2, <1>4 DEF SaysTheSame, Effective
<1> QED
  BY <1>1, <1>3, <1>5

\* A request that goes on as it was, while the rows say the same of its actor.
LEMMA AwareStays ==
  ASSUME TypeInv, NEW p \in Requests, Aware(requests[p]),
         Edits(requests[p]) => SaysTheSame(requests[p].actor), requests'[p] = requests[p]
  PROVE  Aware(requests[p])'
<1> DEFINE q == requests[p]
<1>1. CASE ~Edits(q)
  BY <1>1 DEF Aware, Edits
<1>2. CASE Edits(q)
  <2>1. q.input.role \in Roles
    BY <1>2, InFlight DEF Edits, Shaped
  <2>2. /\ Effective(q.actor)' = Effective(q.actor)
        /\ InForce(q.actor, q.input.role)' = InForce(q.actor, q.input.role)
        /\ KeptElsewhere(q.actor, q.input.role)' = KeptElsewhere(q.actor, q.input.role)
    BY <1>2, <2>1, SamePosition
  <2>3. (q.actor = root') <=> (q.actor = root)
    BY <1>2 DEF SaysTheSame
  <2> QED
    BY <1>2, <2>2, <2>3 DEF Aware, Edits, Remaining, locksOutSelf
<1> QED
  BY <1>1, <1>2

LEMMA AwareAfterFinish ==
  ASSUME EditorsAreNotOvertaken, AwareInv, TypeInv', NEW r \in Requests, Finish(r)
  PROVE  AwareInv'
<1>1. SUFFICES ASSUME NEW p \in Requests PROVE Aware(requests[p])'
  BY DEF AwareInv
<1>2. requests' = [requests EXCEPT ![r] = Idle] /\ requests \in [Requests -> Request]
  BY DEF Finish, Become, AwareInv, TypeInv, TypeOK
<1>3. CASE p = r
  BY <1>2, <1>3 DEF Aware, Edits, Idle
<1>4. CASE p # r
  <2>1. requests'[p] = requests[p] /\ (Edits(requests[p]) => SaysTheSame(requests[p].actor))
    BY <1>2, <1>4 DEF EditorsAreNotOvertaken, Edits
  <2> QED
    BY <2>1, AwareStays DEF AwareInv
<1> QED
  BY <1>3, <1>4

LEMMA AwareAfterReading ==
  ASSUME AwareInv, TypeInv', UNCHANGED rows, NEW r \in Requests, NEW q, Become(r, q), Aware(q)
  PROVE  AwareInv'
<1>1. SUFFICES ASSUME NEW p \in Requests PROVE Aware(requests[p])'
  BY DEF AwareInv
<1>2. requests' = [requests EXCEPT ![r] = q] /\ requests \in [Requests -> Request]
  BY DEF Become, AwareInv, TypeInv, TypeOK
<1>3. \A a : SaysTheSame(a)
  BY DEF SaysTheSame, rows
<1>4. CASE p # r
  BY <1>2, <1>3, <1>4, AwareStays DEF AwareInv
<1>5. CASE p = r
  <2>1. requests'[p] = q
    BY <1>2, <1>5
  <2>2. \A u, x : InForce(u, x)' = InForce(u, x)
    BY DEF InForce, rows
  <2>3. \A u : Allowed(u)' = Allowed(u) /\ Denied(u)' = Denied(u)
    BY DEF Allowed, Denied, rows
  <2>4. root' = root /\ grants' = grants
    BY DEF rows
  <2>5. \A u : Effective(u)' = Effective(u)
    BY <2>2, <2>3, <2>4 DEF Effective, Granted
  <2>6. \A u, x : KeptElsewhere(u, x)' = KeptElsewhere(u, x)
    BY <2>2, <2>3, <2>4 DEF KeptElsewhere
  <2> QED
    BY <2>1, <2>2, <2>4, <2>5, <2>6 DEF Aware, Edits, Remaining, locksOutSelf
<1> QED
  BY <1>4, <1>5

LEMMA AwareServe ==
  ASSUME EditorsAreNotOvertaken, AwareInv, TypeInv', NEW r \in Requests, Serve(r)
  PROVE  AwareInv'
<1> DEFINE q == requests[r]
<1>1. q \in Request /\ Aware(q)
  BY DEF AwareInv, TypeInv, TypeOK
<1>2. ASSUME NEW handler \in Handlers, NEW a \in Actors, NEW input \in Inputs(handler),
             Receive(r, handler, a, input)
      PROVE  AwareInv'
  <2> DEFINE holds == Effective(a)
             owns == (a = root)
             p == [Idle EXCEPT !.step = "received", !.handler = handler, !.actor = a,
                               !.isOwner = owns, !.holds = holds, !.input = input]
  <2>1. Become(r, p) /\ UNCHANGED rows
    BY <1>2 DEF Receive
  <2>2. holds = Effective(a) /\ (owns <=> a = root)
    OBVIOUS
  <2> HIDE DEF holds, owns
  <2>3. p.step = "received" /\ p.actor = a /\ p.holds = holds /\ (p.isOwner <=> owns)
    BY DEF Idle
  <2> HIDE DEF p
  <2>4. Aware(p)
    BY <2>2, <2>3 DEF Aware
  <2> QED
    BY <2>1, <2>4, AwareAfterReading
<1>3. CASE Decide(r)
  <2> DEFINE b == IF q.input.role \in Roles THEN grants[q.input.role] ELSE {}
             d == [q EXCEPT !.step = "decided", !.before = b]
  <2>1. Become(r, d) /\ UNCHANGED rows /\ q.step = "received" /\ Permitted(q)
    BY <1>3 DEF Decide
  <2> HIDE DEF b
  <2>2. /\ d.step = "decided" /\ d.handler = q.handler /\ d.input = q.input
        /\ d.actor = q.actor /\ d.holds = q.holds /\ d.isOwner = q.isOwner
    BY <1>1 DEF Request
  <2> HIDE DEF d, q
  <2>3. q.handler \in {"updateRole", "deleteRole"} => ~locksOutSelf(q, Remaining(q))
    BY <2>1 DEF Permitted, canUpdateRole, canDeleteRole, Remaining
  <2>4. Aware(d)
    BY <1>1, <2>1, <2>2, <2>3 DEF Aware, Edits, Remaining, locksOutSelf
  <2> QED
    BY <2>1, <2>4, AwareAfterReading
<1>4. CASE BumpHolders(r)
  <2> DEFINE t == IF q.handler = "updateRole" /\ q.input.keys = q.before
                  THEN {} ELSE Holders(q.input.role)
             d == [q EXCEPT !.step = "bumped", !.targets = t]
  <2>1. Become(r, d) /\ UNCHANGED rows /\ q.step = "decided"
    BY <1>4 DEF BumpHolders, Deciding
  <2> HIDE DEF t
  <2>2. /\ d.step = "bumped" /\ d.handler = q.handler /\ d.input = q.input
        /\ d.actor = q.actor /\ d.holds = q.holds /\ d.isOwner = q.isOwner
    BY <1>1 DEF Request
  <2> HIDE DEF d, q
  <2>3. Aware(d)
    BY <1>1, <2>1, <2>2 DEF Aware, Edits, Remaining, locksOutSelf
  <2> QED
    BY <2>1, <2>3, AwareAfterReading
<1>5. CASE Finish(r)
  BY <1>5, AwareAfterFinish
<1> QED
  BY <1>2, <1>3, <1>4, <1>5 DEF Serve, Refuse, Rollback, Transfer, AssignRole, RevokeRole,
     DeactivateUser, ReactivateUser, SetStatus, WriteOverride, RemoveOverride, CreateRole,
     UpdateRole, DeleteRole

LEMMA AwareNext ==
  AwareInv /\ [EditorsAreNotOvertaken]_vars /\ [Next]_vars => AwareInv'
<1> SUFFICES ASSUME AwareInv, [EditorsAreNotOvertaken]_vars, [Next]_vars PROVE AwareInv'
  OBVIOUS
<1>1. TypeInv'
  BY TypeInvNext DEF AwareInv
<1>2. ASSUME NEW u \in Users, NEW x \in Roles, Expire(u, x), EditorsAreNotOvertaken PROVE AwareInv'
  <2>1. ASSUME NEW p \in Requests PROVE Aware(requests[p])'
    <3>1. requests'[p] = requests[p] /\ (Edits(requests[p]) => SaysTheSame(requests[p].actor))
      BY <1>2 DEF Expire, EditorsAreNotOvertaken, Edits
    <3> QED
      BY <3>1, AwareStays DEF AwareInv
  <2> QED
    BY <1>1, <2>1 DEF AwareInv
<1>3. CASE UNCHANGED vars
  <2>1. \A a : SaysTheSame(a)
    BY <1>3 DEF SaysTheSame, vars, rows
  <2>2. ASSUME NEW p \in Requests PROVE Aware(requests[p])'
    BY <1>3, <2>1, AwareStays DEF AwareInv, vars
  <2> QED
    BY <1>1, <2>2 DEF AwareInv
<1> QED
  BY <1>1, <1>2, <1>3, AwareServe DEF Next

\* An edit or a removal decided on what stands takes from its author no right over roles.
LEMMA EditsLeaveAWayBack ==
  ASSUME AwareInv, NEW r \in Requests, NEW a \in Users, UpdateRole(r) \/ DeleteRole(r),
         requests[r].actor = a, ~requests[r].isOwner
  PROVE  GovernsRights \cap Effective(a) \subseteq (Effective(a))'
<1> DEFINE q == requests[r]
           x == q.input.role
           kept == Remaining(q)
<1>1. q \in Request /\ Aware(q) /\ x \in Roles
  BY InFlight DEF AwareInv, TypeInv, TypeOK, UpdateRole, DeleteRole, Shaped
<1>2. a # root /\ q.holds = Effective(a) /\ ~locksOutSelf(q, kept)
  BY <1>1 DEF UpdateRole, DeleteRole, Aware, Edits
<1>3. /\ held \in [Users -> [Roles -> Assignments]] /\ grants \in [Roles -> SUBSET Keys]
  BY DEF AwareInv, TypeInv, TypeOK
<1>4. root' = root /\ overrides' = overrides /\ grants' = [grants EXCEPT ![x] = kept]
  BY DEF UpdateRole, DeleteRole, Remaining
<1>5. kept # {} => held' = held
  BY DEF UpdateRole, DeleteRole, Remaining
<1>6. \A y \in Roles \ {x} : InForce(a, y) => InForce(a, y)'
  <2>1. held' = held \/ held' = [u \in Users |-> [held[u] EXCEPT ![x] = "none"]]
    BY DEF UpdateRole, DeleteRole
  <2> HIDE DEF x
  <2>2. held'[a] = held[a] \/ held'[a] = [held[a] EXCEPT ![x] = "none"]
    BY <2>1
  <2>3. held[a] \in [Roles -> Assignments]
    BY <1>3
  <2> QED
    BY <2>2, <2>3 DEF InForce
<1>7. ASSUME NEW k \in GovernsRights, k \in Effective(a) PROVE k \in (Effective(a))'
  <2>1. k \in Granted(a) /\ k \notin Denied(a)
    BY <1>2, <1>7 DEF Effective
  <2>2. k \in KeptElsewhere(a, x) \/ (InForce(a, x) /\ k \in kept)
    <3>1. CASE InForce(a, x)
      BY <1>2, <1>7, <3>1 DEF locksOutSelf
    <3>2. CASE ~InForce(a, x)
      BY <2>1, <3>2 DEF Granted, KeptElsewhere
    <3> QED
      BY <3>1, <3>2
  <2> HIDE DEF x, kept
  <2>3. \A y \in Roles \ {x} : grants'[y] = grants[y]
    BY <1>1, <1>3, <1>4
  <2>4. ASSUME k \in Allowed(a) PROVE k \in Granted(a)'
    BY <1>4, <2>4 DEF Granted, Allowed
  <2>5. ASSUME k \notin Allowed(a), k \in KeptElsewhere(a, x) PROVE k \in Granted(a)'
    <3>1. PICK y \in Roles \ {x} : InForce(a, y) /\ k \in grants[y]
      BY <2>5 DEF KeptElsewhere
    <3>2. InForce(a, y)' /\ k \in grants'[y]
      BY <1>6, <2>3, <3>1
    <3> QED
      BY <3>2 DEF Granted
  <2>6. ASSUME InForce(a, x), k \in kept PROVE k \in Granted(a)'
    <3>1. PICK y \in Roles : y = x
      BY <1>1
    <3>2. InForce(a, y)' /\ k \in grants'[y]
      BY <1>3, <1>4, <1>5, <2>6, <3>1 DEF InForce
    <3> QED
      BY <3>2 DEF Granted
  <2>7. k \in Granted(a)'
    BY <2>2, <2>4, <2>5, <2>6
  <2>8. k \notin Denied(a)'
    BY <1>4, <2>1 DEF Denied
  <2> QED
    BY <1>2, <1>4, <1>7, <2>7, <2>8 DEF Effective
<1> QED
  BY <1>7

\* An edit or a removal of a role leaves whoever makes it the right to edit roles they had,
\* with any number of other requests in flight, unless what its author holds changes
\* between their being let in and the commit.
THEOREM EditorsKeepEditing == Spec /\ [][EditorsAreNotOvertaken]_vars => EditorsKeepTheirWayBack
<1> DEFINE Left == \A r \in Requests, a \in Users :
                     /\ UpdateRole(r) \/ DeleteRole(r)
                     /\ requests[r].actor = a /\ ~requests[r].isOwner
                     => GovernsRights \cap Effective(a) \subseteq (Effective(a))'
<1>1. Init => AwareInv
  BY TypeInvInit DEF Init, AwareInv, Aware, Edits, Idle
<1>2. AwareInv => Left
  BY EditsLeaveAWayBack
<1> QED
  BY <1>1, <1>2, AwareNext, PTL DEF Spec, EditorsKeepTheirWayBack

-----------------------------------------------------------------------------
(* Nobody assembles a right that nobody had.                               *)

\* Which right a person has, key by key.
CanUse(u, k) ==
  /\ \/ \E x \in Roles : InForce(u, x) /\ k \in grants[x]
     \/ overrides[u][k] = "ALLOW"
  /\ overrides[u][k] # "DENY"

Conserved(u) == \A k \in Keys : CanUse(u, k) => k \in InitialAuthority

\* What a request still in flight may hand out was, when it was decided, within
\* the rights its actor had when it was let in; and what a role grants, while an
\* assignment of it is decided, stays within the rights of the beginning.
Cautious(q) ==
  /\ q.step # "idle" => q.holds \subseteq InitialAuthority
  /\ q.step \in {"decided", "bumped"} =>
       /\ q.handler \in {"createRole", "updateRole"} => q.input.keys \subseteq InitialAuthority
       /\ q.handler = "writeOverride" /\ q.input.kind = "ALLOW" =>
            q.input.keys \subseteq InitialAuthority
       /\ q.handler = "assign" => grants[q.input.role] \subseteq InitialAuthority

RequestsAreCautious == \A r \in Requests : Cautious(requests[r])

\* The inductive invariant.
ConserveInv ==
  /\ TypeInv
  /\ root = Root
  /\ \A u \in Users \ {Root} : Conserved(u)
  /\ RequestsAreCautious

\* What the theorem is relative to: the owner sends nothing, no exception is lifted.
NobodyGivesAway == Root \notin Actors /\ "removeOverride" \notin Handlers

LEMMA EffectiveIsCanUse ==
  ASSUME TypeOK, NEW u \in Users, u # root
  PROVE  \A k : k \in Effective(u) <=> k \in Keys /\ CanUse(u, k)
<1>1. \A k : k \in Granted(u) <=> \/ \E x \in Roles : InForce(u, x) /\ k \in grants[x]
                                  \/ k \in Keys /\ overrides[u][k] = "ALLOW"
  BY DEF Granted, Allowed
<1>2. \A x \in Roles : grants[x] \subseteq Keys
  BY DEF TypeOK
<1> QED
  BY <1>1, <1>2 DEF Effective, Denied, CanUse

LEMMA ConservedMeansAuthority ==
  ASSUME ConserveInv, NEW u \in Users \ {Root}
  PROVE  Effective(u) \subseteq InitialAuthority
BY EffectiveIsCanUse DEF ConserveInv, TypeInv, Conserved

\* A commit stays within the rights of the beginning if what it makes usable does.
LEMMA CommitConserves ==
  ASSUME ConserveInv, TypeInv', NEW r \in Requests, Finish(r), root' = root,
         \A x \in Roles : grants'[x] \subseteq grants[x] \cup InitialAuthority,
         \A u \in Users \ {Root}, k \in Keys :
           CanUse(u, k)' => CanUse(u, k) \/ k \in InitialAuthority
  PROVE  ConserveInv'
<1>1. \A u \in Users \ {Root} : Conserved(u)'
  BY DEF ConserveInv, Conserved
<1>2. ASSUME NEW p \in Requests PROVE Cautious(requests[p])'
  <2>1. CASE p = r
    BY <2>1 DEF Finish, Become, Idle, TypeInv, TypeOK, ConserveInv, Cautious
  <2>2. CASE p # r
    <3>1. requests'[p] = requests[p]
      BY <2>2 DEF Finish, Become, TypeInv, TypeOK, ConserveInv
    <3>2. requests[p].handler = "assign" /\ requests[p].step # "idle" =>
            requests[p].input.role \in Roles
      BY InFlight DEF ConserveInv, Shaped
    <3> QED
      BY <3>1, <3>2 DEF ConserveInv, RequestsAreCautious, Cautious
  <2> QED
    BY <2>1, <2>2
<1> QED
  BY <1>1, <1>2 DEF ConserveInv, RequestsAreCautious

LEMMA ConserveInit == Init => ConserveInv
<1> SUFFICES ASSUME Init PROVE ConserveInv
  OBVIOUS
<1>1. ASSUME NEW u \in Users \ {Root}, NEW k \in Keys, CanUse(u, k)
      PROVE  k \in InitialAuthority
  <2>1. k \notin InitialDenied[u] /\ overrides[u][k] # "ALLOW"
    BY <1>1 DEF Init, CanUse
  <2>2. PICK x \in Roles : InitialHeld[u][x] \in {"lasting", "temporary"} /\ k \in InitialGrants[x]
    BY <1>1, <2>1 DEF Init, CanUse, InForce
  <2> QED
    BY <2>1, <2>2 DEF InitialAuthority
<1>2. RequestsAreCautious
  BY DEF Init, RequestsAreCautious, Cautious, Idle
<1> QED
  BY <1>1, <1>2, TypeInvInit DEF Init, ConserveInv, Conserved

\* A moment of a request that writes no row.
LEMMA ReadingConserves ==
  ASSUME ConserveInv, TypeInv', UNCHANGED rows, NEW r \in Requests,
         NEW q, Become(r, q), Cautious(q)
  PROVE  ConserveInv'
<1>1. \A u \in Users, k \in Keys : CanUse(u, k)' = CanUse(u, k)
  BY DEF CanUse, InForce, rows
<1>2. ASSUME NEW p \in Requests PROVE Cautious(requests[p])'
  <2>1. requests'[p] = IF p = r THEN q ELSE requests[p]
    BY DEF Become, ConserveInv, TypeInv, TypeOK
  <2> QED
    BY <2>1 DEF ConserveInv, RequestsAreCautious, Cautious, rows
<1> QED
  BY <1>1, <1>2 DEF ConserveInv, RequestsAreCautious, Conserved, rows

LEMMA ReceiveConserves ==
  ASSUME NobodyGivesAway, ConserveInv, TypeInv', NEW r \in Requests, NEW handler \in Handlers,
         NEW a \in Actors, NEW input \in Inputs(handler), Receive(r, handler, a, input)
  PROVE  ConserveInv'
<1> DEFINE holds == Effective(a)
           q == [Idle EXCEPT !.step = "received", !.handler = handler, !.actor = a,
                             !.isOwner = (a = root), !.holds = holds, !.input = input]
<1>1. holds \subseteq InitialAuthority
  BY ConservedMeansAuthority, ParamAssumption DEF NobodyGivesAway
<1>2. Become(r, q) /\ UNCHANGED rows
  BY DEF Receive
<1> HIDE DEF holds
<1>3. q.step = "received" /\ q.holds = holds
  BY DEF Idle
<1> HIDE DEF q
<1>4. Cautious(q)
  BY <1>1, <1>3 DEF Cautious
<1> QED
  BY <1>2, <1>4, ReadingConserves

LEMMA DecideConserves ==
  ASSUME ConserveInv, TypeInv', NEW r \in Requests, Decide(r)
  PROVE  ConserveInv'
<1> DEFINE q == requests[r]
           b == IF q.input.role \in Roles THEN grants[q.input.role] ELSE {}
           d == [q EXCEPT !.step = "decided", !.before = b]
<1>1. q.step = "received" /\ q \in Request /\ Permitted(q) /\ Cautious(q)
  BY DEF Decide, ConserveInv, TypeInv, TypeOK, RequestsAreCautious
<1>2. Become(r, d) /\ UNCHANGED rows
  BY DEF Decide
<1> HIDE DEF b
<1>3. d.handler = q.handler /\ d.holds = q.holds /\ d.input = q.input
  BY <1>1 DEF Request
<1>4. q.holds \subseteq InitialAuthority
  BY <1>1 DEF Cautious
<1> HIDE DEF d, q
<1>5. q.handler \in {"createRole", "updateRole"} => q.input.keys \subseteq q.holds
  BY <1>1 DEF Permitted, canCreateRole, canUpdateRole
<1>6. q.handler = "writeOverride" /\ q.input.kind = "ALLOW" => q.input.keys \subseteq q.holds
  BY <1>1 DEF Permitted, canWriteOverride
<1>7. q.handler = "assign" => grants[q.input.role] \subseteq q.holds
  BY <1>1 DEF Permitted, canAssignRole
<1>8. Cautious(d)
  BY <1>3, <1>4, <1>5, <1>6, <1>7 DEF Cautious
<1> QED
  BY <1>2, <1>8, ReadingConserves

LEMMA BumpHoldersConserves ==
  ASSUME ConserveInv, TypeInv', NEW r \in Requests, BumpHolders(r)
  PROVE  ConserveInv'
<1> DEFINE q == requests[r]
           t == IF q.handler = "updateRole" /\ q.input.keys = q.before
                THEN {} ELSE Holders(q.input.role)
           d == [q EXCEPT !.step = "bumped", !.targets = t]
<1>1. q.step = "decided" /\ q \in Request /\ Cautious(q)
  BY DEF BumpHolders, Deciding, ConserveInv, TypeInv, TypeOK, RequestsAreCautious
<1>2. Become(r, d) /\ UNCHANGED rows
  BY DEF BumpHolders
<1> HIDE DEF t
<1>3. d.handler = q.handler /\ d.holds = q.holds /\ d.input = q.input
  BY <1>1 DEF Request
<1> HIDE DEF d, q
<1>4. Cautious(d)
  BY <1>1, <1>3 DEF Cautious
<1> QED
  BY <1>2, <1>4, ReadingConserves

LEMMA AssignRoleConserves ==
  ASSUME ConserveInv, TypeInv', NEW r \in Requests, AssignRole(r)
  PROVE  ConserveInv'
<1> DEFINE q == requests[r]
           u == q.input.subject
           x == q.input.role
<1>1. grants[x] \subseteq InitialAuthority /\ u \in Users /\ x \in Roles
  BY InFlight DEF AssignRole, Deciding, ConserveInv, RequestsAreCautious, Cautious, Shaped
<1>2. \A v \in Users, y \in Roles : InForce(v, y)' => InForce(v, y) \/ (v = u /\ y = x)
  <2>1. CASE held[u][x] = "none"
    <3>1. held' = [held EXCEPT ![u][x] = q.input.kind]
      BY <2>1 DEF AssignRole
    <3>2. held \in [Users -> [Roles -> Assignments]]
      BY DEF ConserveInv, TypeInv, TypeOK
    <3> HIDE DEF u, x
    <3> QED
      BY <1>1, <3>1, <3>2 DEF InForce
  <2>2. CASE held[u][x] # "none"
    BY <2>2 DEF AssignRole, InForce
  <2> QED
    BY <2>1, <2>2
<1>3. Finish(r) /\ root' = root /\ grants' = grants /\ overrides' = overrides
  BY DEF AssignRole
<1> HIDE DEF q, u, x
<1>4. \A v \in Users \ {Root}, k \in Keys : CanUse(v, k)' => CanUse(v, k) \/ k \in InitialAuthority
  BY <1>1, <1>2, <1>3 DEF CanUse
<1> QED
  BY <1>3, <1>4, CommitConserves

LEMMA RevokeRoleConserves ==
  ASSUME ConserveInv, TypeInv', NEW r \in Requests, RevokeRole(r)
  PROVE  ConserveInv'
<1> DEFINE q == requests[r]
           u == q.input.subject
           x == q.input.role
<1>1. \A v \in Users, y \in Roles : InForce(v, y)' => InForce(v, y)
  <2>1. held' = [held EXCEPT ![u][x] = "none"] \/ held' = held
    BY DEF RevokeRole
  <2>2. held \in [Users -> [Roles -> Assignments]]
    BY DEF ConserveInv, TypeInv, TypeOK
  <2> HIDE DEF u, x
  <2> QED
    BY <2>1, <2>2 DEF InForce
<1>2. Finish(r) /\ root' = root /\ grants' = grants /\ overrides' = overrides
  BY DEF RevokeRole
<1>3. \A v \in Users \ {Root}, k \in Keys : CanUse(v, k)' => CanUse(v, k) \/ k \in InitialAuthority
  BY <1>1, <1>2 DEF CanUse
<1> QED
  BY <1>2, <1>3, CommitConserves

LEMMA WriteOverrideConserves ==
  ASSUME ConserveInv, TypeInv', NEW r \in Requests, WriteOverride(r)
  PROVE  ConserveInv'
<1> DEFINE q == requests[r]
           u == q.input.subject
<1>1. PICK key \in Keys : q.input.keys = {key}
  BY InFlight DEF WriteOverride, Deciding, ConserveInv, Shaped
<1>2. /\ q.input.kind \in {"ALLOW", "DENY"} /\ u \in Users /\ KeyOf(q) = key
      /\ q.input.kind = "ALLOW" => key \in InitialAuthority
  BY <1>1, InFlight, KeyOfType
     DEF WriteOverride, Deciding, ConserveInv, Shaped, RequestsAreCautious, Cautious
<1>3. /\ Finish(r) /\ root' = root /\ grants' = grants /\ held' = held
      /\ overrides' = [overrides EXCEPT ![u][key] = q.input.kind]
  BY <1>2 DEF WriteOverride
<1>4. overrides \in [Users -> [Keys -> Effects]]
  BY DEF ConserveInv, TypeInv, TypeOK
<1> HIDE DEF u
<1>5. ASSUME NEW v \in Users, NEW k \in Keys
      PROVE  \/ overrides'[v][k] = overrides[v][k]
             \/ overrides'[v][k] = "DENY"
             \/ overrides'[v][k] = "ALLOW" /\ k \in InitialAuthority
  BY <1>2, <1>3, <1>4
<1>6. \A v \in Users, y \in Roles : InForce(v, y)' = InForce(v, y)
  BY <1>3 DEF InForce
<1>7. \A v \in Users \ {Root}, k \in Keys : CanUse(v, k)' => CanUse(v, k) \/ k \in InitialAuthority
  BY <1>3, <1>5, <1>6 DEF CanUse
<1> QED
  BY <1>3, <1>7, CommitConserves

\* Writing the grants of a role, with what the request was found to hold.
LEMMA GrantsConserve ==
  ASSUME ConserveInv, TypeInv', NEW r \in Requests, Finish(r), root' = root,
         NEW x \in Roles, NEW keys, keys \subseteq InitialAuthority,
         grants' = [grants EXCEPT ![x] = keys], overrides' = overrides,
         \A v \in Users, y \in Roles : InForce(v, y)' => InForce(v, y)
  PROVE  ConserveInv'
<1>1. \A y \in Roles : grants'[y] \subseteq grants[y] \cup InitialAuthority
  BY DEF ConserveInv, TypeInv, TypeOK
<1>2. \A v \in Users \ {Root}, k \in Keys : CanUse(v, k)' => CanUse(v, k) \/ k \in InitialAuthority
  BY <1>1 DEF CanUse
<1> QED
  BY <1>1, <1>2, CommitConserves

LEMMA RoleWritesConserve ==
  ASSUME ConserveInv, TypeInv', NEW r \in Requests,
         CreateRole(r) \/ UpdateRole(r) \/ DeleteRole(r)
  PROVE  ConserveInv'
<1> DEFINE q == requests[r]
           x == q.input.role
<1>1. x \in Roles
  BY InFlight DEF CreateRole, UpdateRole, DeleteRole, Deciding, ConserveInv, Shaped
<1>2. Finish(r) /\ root' = root /\ overrides' = overrides
  BY DEF CreateRole, UpdateRole, DeleteRole
<1>3. CASE CreateRole(r) \/ UpdateRole(r)
  <2>1. q.input.keys \subseteq InitialAuthority
    BY <1>3 DEF CreateRole, UpdateRole, Deciding, ConserveInv, RequestsAreCautious, Cautious
  <2>2. grants' = [grants EXCEPT ![x] = q.input.keys] /\ held' = held
    BY <1>3 DEF CreateRole, UpdateRole
  <2> QED
    BY <1>1, <1>2, <2>1, <2>2, GrantsConserve DEF InForce
<1>4. CASE DeleteRole(r)
  <2>1. /\ grants' = [grants EXCEPT ![x] = {}]
        /\ held' = [u \in Users |-> [held[u] EXCEPT ![x] = "none"]]
    BY <1>4 DEF DeleteRole
  <2>2. held \in [Users -> [Roles -> Assignments]]
    BY DEF ConserveInv, TypeInv, TypeOK
  <2> HIDE DEF x
  <2>3. \A v \in Users, y \in Roles : InForce(v, y)' => InForce(v, y)
    BY <1>1, <2>1, <2>2 DEF InForce
  <2> QED
    BY <1>1, <1>2, <2>1, <2>3, GrantsConserve
<1> QED
  BY <1>3, <1>4

LEMMA ConserveServe ==
  ASSUME NobodyGivesAway, ConserveInv, TypeInv', NEW r \in Requests, Serve(r)
  PROVE  ConserveInv'
<1>1. ASSUME NEW handler \in Handlers, NEW a \in Actors, NEW input \in Inputs(handler),
             Receive(r, handler, a, input)
      PROVE  ConserveInv'
  BY <1>1, ReceiveConserves
<1>2. CASE Decide(r)
  BY <1>2, DecideConserves
<1>3. CASE Refuse(r) \/ Rollback(r)
  <2>1. Become(r, Idle) /\ UNCHANGED rows
    BY <1>3 DEF Refuse, Rollback, Finish
  <2>2. Cautious(Idle)
    BY DEF Cautious, Idle
  <2> QED
    BY <2>1, <2>2, ReadingConserves
<1>4. CASE Transfer(r)
  BY <1>4, InFlight DEF Transfer, Deciding, ConserveInv, NobodyGivesAway
<1>5. CASE AssignRole(r)
  BY <1>5, AssignRoleConserves
<1>6. CASE RevokeRole(r)
  BY <1>6, RevokeRoleConserves
<1>7. CASE DeactivateUser(r) \/ ReactivateUser(r)
  <2>1. Finish(r) /\ UNCHANGED <<root, held, roles, grants, overrides>>
    BY <1>7 DEF DeactivateUser, ReactivateUser, SetStatus
  <2>2. \A v \in Users, k \in Keys : CanUse(v, k)' = CanUse(v, k)
    BY <2>1 DEF CanUse, InForce
  <2> QED
    BY <2>1, <2>2, CommitConserves
<1>8. CASE WriteOverride(r)
  BY <1>8, WriteOverrideConserves
<1>9. CASE RemoveOverride(r)
  BY <1>9, InFlight DEF RemoveOverride, Deciding, ConserveInv, NobodyGivesAway
<1>10. CASE CreateRole(r) \/ UpdateRole(r) \/ DeleteRole(r)
  BY <1>10, RoleWritesConserve
<1>11. CASE BumpHolders(r)
  BY <1>11, BumpHoldersConserves
<1> QED
  BY <1>1, <1>2, <1>3, <1>4, <1>5, <1>6, <1>7, <1>8, <1>9, <1>10, <1>11 DEF Serve

LEMMA ConserveNext == NobodyGivesAway /\ ConserveInv /\ [Next]_vars => ConserveInv'
<1> SUFFICES ASSUME NobodyGivesAway, ConserveInv, [Next]_vars PROVE ConserveInv'
  OBVIOUS
<1>1. TypeInv'
  BY TypeInvNext DEF ConserveInv
<1>2. ASSUME NEW r \in Requests, Serve(r) PROVE ConserveInv'
  BY <1>1, <1>2, ConserveServe
<1>3. ASSUME NEW u \in Users, NEW x \in Roles, Expire(u, x) PROVE ConserveInv'
  <2>1. \A v \in Users, y \in Roles : InForce(v, y)' => InForce(v, y)
    BY <1>3 DEF Expire, InForce, ConserveInv, TypeInv, TypeOK
  <2> QED
    BY <1>1, <1>3, <2>1
       DEF Expire, ConserveInv, Conserved, CanUse, RequestsAreCautious, Cautious
<1>4. CASE UNCHANGED vars
  BY <1>1, <1>4 DEF vars, rows, ConserveInv, Conserved, CanUse, InForce,
     RequestsAreCautious, Cautious
<1> QED
  BY <1>2, <1>3, <1>4 DEF Next

\* As long as the owner sends nothing and no exception is lifted, no number of
\* concurrent role edits, assignments, revocations, exceptions, suspensions and
\* roll-backs by anybody else gives anybody a right none of them could use before.
THEOREM RightsAreConserved == NobodyGivesAway /\ Spec => []AuthorityIsConserved
<1> SUFFICES ASSUME NobodyGivesAway PROVE Spec => []AuthorityIsConserved
  OBVIOUS
<1>1. ConserveInv /\ [Next]_vars => ConserveInv'
  BY ConserveNext
<1>2. ConserveInv => AuthorityIsConserved
  BY ConservedMeansAuthority DEF AuthorityIsConserved
<1> QED
  BY ConserveInit, <1>1, <1>2, PTL DEF Spec

-----------------------------------------------------------------------------
(* Drafts of several roles.                                                *)

BatchTypeInv == TypeInv /\ drafts \in [Requests -> Draft]

LEMMA NoDraftType == NoDraft \in Draft /\ NoDraft.step = "idle"
<1>1. NoChange \in [{} -> SUBSET Keys]
  BY DEF NoChange
<1>2. NoChange \in Change
  BY <1>1 DEF Change
<1> QED
  BY <1>2, ParamAssumption DEF NoDraft, Draft

LEMMA RestrictType ==
  ASSUME NEW f \in Change, NEW S, S \subseteq DOMAIN f
  PROVE  /\ Restrict(f, S) \in Change /\ DOMAIN Restrict(f, S) = S
         /\ \A x \in S : Restrict(f, S)[x] = f[x]
<1>1. PICK named \in SUBSET Roles : f \in [named -> SUBSET Keys]
  BY DEF Change
<1>2. Restrict(f, S) \in [S -> SUBSET Keys]
  BY <1>1 DEF Restrict
<1> QED
  BY <1>1, <1>2 DEF Restrict, Change

\* A row has changed since, and the draft is marked for it.
Marked(q, p) == q = p \/ q = [p EXCEPT !.overtaken = TRUE]

LEMMA NoticedType ==
  ASSUME NEW table \in [Requests -> Draft], NEW r
  PROVE  /\ Noticed(table, r) \in [Requests -> Draft]
         /\ \A p \in Requests : Marked(Noticed(table, r)[p], table[p])
         /\ \A p \in Requests : p = r => Noticed(table, r)[p] = table[p]
         /\ \A p \in Requests : p # r /\ table[p].step # "idle" /\ rows' # rows =>
                                   Noticed(table, r)[p].overtaken
BY DEF Noticed, Draft, Marked

LEMMA RedraftType ==
  ASSUME drafts \in [Requests -> Draft], NEW r \in Requests, NEW q \in Draft, Redraft(r, q)
  PROVE  /\ drafts' \in [Requests -> Draft] /\ drafts'[r] = q
         /\ \A p \in Requests : p # r => Marked(drafts'[p], drafts[p])
         /\ \A p \in Requests : p # r /\ drafts[p].step # "idle" /\ rows' # rows =>
                                   drafts'[p].overtaken
<1> DEFINE table == [drafts EXCEPT ![r] = q]
<1>1. /\ table \in [Requests -> Draft] /\ table[r] = q
      /\ \A p \in Requests : p # r => table[p] = drafts[p]
  OBVIOUS
<1>2. drafts' = Noticed(table, r)
  BY DEF Redraft
<1> HIDE DEF table
<1> QED
  BY <1>1, <1>2, NoticedType
\* What a draft may put into a role stays within the rights of the beginning.
Modest(q) ==
  /\ q.step # "idle" => q.holds \subseteq InitialAuthority
  /\ q.step \in {"writing", "bumped"} =>
       \A x \in Named(q) : q.changes[x] \subseteq InitialAuthority

\* What a draft nobody overtook was told is still so.
Current(q) ==
  q.step # "idle" /\ ~q.overtaken =>
    /\ q.holds = Effective(q.actor) /\ q.isOwner = (q.actor = root)
    /\ q.step = "read" => \A x \in Named(q) : q.before[x] = grants[x]
    /\ q.step \in {"writing", "bumped"} /\ ~q.isOwner =>
         GovernsRights \cap q.holds \subseteq KeptAfter(q)

\* A moment of a draft that writes no row.
Reading(r, q) ==
  /\ q \in Draft /\ Redraft(r, q) /\ UNCHANGED vars
  /\ Current(drafts[r]) => Current(q)
  /\ (\A a \in Actors : Effective(a) \subseteq InitialAuthority) /\ Modest(drafts[r]) => Modest(q)

LEMMA GoneIsReading ==
  ASSUME BatchTypeInv, NEW r \in Requests, UNCHANGED vars, Redraft(r, NoDraft)
  PROVE  Reading(r, NoDraft)
BY NoDraftType DEF Reading, Current, Modest

LEMMA SendIsReading ==
  ASSUME BatchTypeInv, NEW r \in Requests, NEW a \in Actors, NEW d \in Drafts, SendDraft(r, a, d)
  PROVE  \E q : Reading(r, q)
<1> DEFINE q == [NoDraft EXCEPT !.step = "received", !.actor = a, !.isOwner = (a = root),
                                !.holds = Effective(a), !.changes = d]
<1>1. Redraft(r, q) /\ UNCHANGED vars
  BY DEF SendDraft
<1>2. a \in Users /\ d \in Change
  BY ParamAssumption, BatchAssumption
<1>3. Effective(a) \subseteq Keys
  BY <1>2 DEF Effective, Granted, Allowed, BatchTypeInv, TypeInv, TypeOK
<1> HIDE DEF q
<1>4. /\ q \in Draft /\ q.step = "received" /\ q.actor = a /\ q.isOwner = (a = root)
      /\ q.holds = Effective(a)
  BY <1>2, <1>3, NoDraftType DEF q, Draft
<1>5. Current(q)
  BY <1>4 DEF Current
<1>6. (\A b \in Actors : Effective(b) \subseteq InitialAuthority) => Modest(q)
  BY <1>4 DEF Modest
<1> QED
  BY <1>1, <1>4, <1>5, <1>6 DEF Reading

LEMMA ReadIsReading ==
  ASSUME BatchTypeInv, NEW r \in Requests, ReadDraft(r)
  PROVE  \E q : Reading(r, q)
<1> DEFINE p == drafts[r]
           b == Restrict(grants, Named(p))
           q == [p EXCEPT !.step = "read", !.before = b]
<1>1. UNCHANGED vars /\ p.step = "received" /\ p \in Draft
  BY DEF ReadDraft, BatchTypeInv
<1>2. CASE Redraft(r, NoDraft)
  BY <1>1, <1>2, GoneIsReading
<1>3. CASE Redraft(r, q)
  <2>1. Named(p) \subseteq Roles
    BY <1>1 DEF Draft, Change, Named
  <2>2. grants \in Change /\ DOMAIN grants = Roles
    BY DEF BatchTypeInv, TypeInv, TypeOK, Change
  <2>3. b \in Change /\ \A x \in Named(p) : b[x] = grants[x]
    BY <2>1, <2>2, RestrictType
  <2> HIDE DEF p, b
  <2>4. /\ q \in Draft /\ q.step = "read" /\ q.before = b /\ q.actor = p.actor
        /\ q.isOwner = p.isOwner /\ q.holds = p.holds /\ q.changes = p.changes
        /\ q.overtaken = p.overtaken
    BY <1>1, <2>3 DEF Draft
  <2> HIDE DEF q
  <2>5. Current(p) => Current(q)
    BY <1>1, <2>3, <2>4 DEF Current, Named
  <2>6. Modest(p) => Modest(q)
    BY <1>1, <2>4 DEF Modest
  <2> QED
    BY <1>1, <1>3, <2>4, <2>5, <2>6 DEF Reading, p
<1> QED
  BY <1>2, <1>3 DEF ReadDraft

\* The rule asked of the end state, seen from what is written of it.
LEMMA JudgedKeeps ==
  ASSUME BatchTypeInv, NEW p \in Draft, NEW q \in Draft, p.step = "read", ~p.overtaken, Current(p),
         ~p.isOwner, rightsTheActorLoses(p) = {}, q.actor = p.actor, q.holds = p.holds,
         q.changes = Restrict(p.changes, Moved(p))
  PROVE  GovernsRights \cap q.holds \subseteq KeptAfter(q)
<1> DEFINE a == p.actor
<1>1. p.holds = Effective(a) /\ a # root /\ \A x \in Named(p) : p.before[x] = grants[x]
  BY DEF Current
<1>2. \A x : After(q, x) = After(p, x)
  <2>1. Moved(p) \subseteq Named(p) /\ p.changes \in Change
    BY DEF Moved, Draft
  <2>2. Named(q) = Moved(p) /\ \A x \in Moved(p) : q.changes[x] = p.changes[x]
    BY <2>1, RestrictType DEF Named
  <2>3. \A x \in Named(p) \ Moved(p) : p.changes[x] = grants[x]
    BY <1>1 DEF Moved
  <2> QED
    BY <2>1, <2>2, <2>3 DEF After
<1>3. KeptAfter(q) = KeptAfter(p)
  BY <1>2 DEF KeptAfter
<1> SUFFICES ASSUME NEW k \in GovernsRights, k \in p.holds, k \notin KeptAfter(p) PROVE FALSE
  BY <1>3
<1>4. PICK x \in Roles : InForce(a, x) /\ k \in grants[x]
  BY <1>1 DEF Effective, Granted, KeptAfter
<1>5. k \notin After(p, x)
  BY <1>4 DEF KeptAfter
<1>6. x \in Named(p) /\ k \in Removed(p, x)
  BY <1>1, <1>4, <1>5 DEF After, Removed
<1> QED
  BY <1>4, <1>6 DEF rightsTheActorLoses

LEMMA JudgeIsReading ==
  ASSUME BatchTypeInv, NEW r \in Requests, JudgeDraft(r)
  PROVE  \E q : Reading(r, q)
<1> DEFINE p == drafts[r]
           c == Restrict(p.changes, Moved(p))
           q == [p EXCEPT !.step = "writing", !.before = NoChange, !.changes = c]
<1>1. UNCHANGED vars /\ p.step = "read" /\ p \in Draft
  BY DEF JudgeDraft, BatchTypeInv
<1>2. CASE Redraft(r, NoDraft)
  BY <1>1, <1>2, GoneIsReading
<1>3. CASE Redraft(r, q) /\ judgeRoleChanges(p)
  <2>1. p.changes \in Change /\ Moved(p) \subseteq DOMAIN p.changes
    BY <1>1 DEF Draft, Moved, Named
  <2>2. c \in Change /\ DOMAIN c = Moved(p) /\ \A x \in Moved(p) : c[x] = p.changes[x]
    BY <2>1, RestrictType
  <2>3. NoChange \in Change
    BY NoDraftType DEF NoDraft, Draft
  <2> HIDE DEF p, c
  <2>4. /\ q \in Draft /\ q.step = "writing" /\ q.changes = c /\ q.actor = p.actor
        /\ q.isOwner = p.isOwner /\ q.holds = p.holds /\ q.overtaken = p.overtaken
    BY <1>1, <2>2, <2>3 DEF Draft
  <2> HIDE DEF q
  <2>5. ~p.isOwner => rightsTheActorLoses(p) = {}
    BY <1>3 DEF judgeRoleChanges
  <2>6. ASSUME Current(p), ~q.overtaken, ~q.isOwner
        PROVE  GovernsRights \cap q.holds \subseteq KeptAfter(q)
    BY <1>1, <2>4, <2>5, <2>6, JudgedKeeps DEF c
  <2>7. Current(p) => Current(q)
    BY <1>1, <2>4, <2>6 DEF Current
  <2>8. Modest(p) => Modest(q)
    BY <1>1, <1>3, <2>1, <2>2, <2>4 DEF Modest, judgeRoleChanges, Named
  <2> QED
    BY <1>1, <1>3, <2>4, <2>7, <2>8 DEF Reading, p
<1> QED
  BY <1>2, <1>3 DEF JudgeDraft
LEMMA WriteIsReading ==
  ASSUME BatchTypeInv, NEW r \in Requests, NEW x \in Roles, WriteChange(r, x)
  PROVE  \E q : Reading(r, q)
<1> DEFINE p == drafts[r]
           w == p.written \cup {x}
           q == [p EXCEPT !.written = w]
<1>1. UNCHANGED vars /\ p.step = "writing" /\ p \in Draft
  BY DEF WriteChange, BatchTypeInv
<1>2. CASE Redraft(r, NoDraft)
  BY <1>1, <1>2, GoneIsReading
<1>3. CASE Redraft(r, q)
  <2>1. w \subseteq Roles
    BY <1>1 DEF Draft
  <2> HIDE DEF p, w
  <2>2. /\ q \in Draft /\ q.step = p.step /\ q.changes = p.changes /\ q.actor = p.actor
        /\ q.isOwner = p.isOwner /\ q.holds = p.holds /\ q.overtaken = p.overtaken
    BY <1>1, <2>1 DEF Draft
  <2> HIDE DEF q
  <2>3. (Current(p) => Current(q)) /\ (Modest(p) => Modest(q))
    BY <1>1, <2>2 DEF Current, Modest, KeptAfter, After, Named
  <2> QED
    BY <1>1, <1>3, <2>2, <2>3 DEF Reading, p
<1> QED
  BY <1>2, <1>3 DEF WriteChange

LEMMA BumpIsReading ==
  ASSUME BatchTypeInv, NEW r \in Requests, BumpHoldersOfMany(r)
  PROVE  \E q : Reading(r, q)
<1> DEFINE p == drafts[r]
           t == UNION {Holders(x) : x \in Named(p)}
           q == [p EXCEPT !.step = "bumped", !.targets = t]
<1>1. UNCHANGED vars /\ p.step = "writing" /\ p \in Draft /\ Redraft(r, q)
  BY DEF BumpHoldersOfMany, BatchTypeInv
<1>2. t \subseteq Users
  BY DEF Holders
<1> HIDE DEF p, t
<1>3. /\ q \in Draft /\ q.step = "bumped" /\ q.changes = p.changes /\ q.actor = p.actor
      /\ q.isOwner = p.isOwner /\ q.holds = p.holds /\ q.overtaken = p.overtaken
  BY <1>1, <1>2 DEF Draft
<1> HIDE DEF q
<1>4. (Current(p) => Current(q)) /\ (Modest(p) => Modest(q))
  BY <1>1, <1>3 DEF Current, Modest, KeptAfter, After, Named
<1> QED
  BY <1>1, <1>3, <1>4 DEF Reading, p

\* A step of a draft other than its commit reads.
LEMMA DraftsRead ==
  ASSUME BatchTypeInv, NEW r \in Requests, DraftStep(r)
  PROVE  SaveDraft(r) \/ \E q : Reading(r, q)
<1>1. CASE AbandonDraft(r)
  BY <1>1, GoneIsReading DEF AbandonDraft
<1> QED
  BY <1>1, SendIsReading, ReadIsReading, JudgeIsReading, WriteIsReading, BumpIsReading DEF DraftStep

\* What happens to the drafts in a step that is not one of theirs.
LEMMA Bystanding ==
  ASSUME BatchTypeInv, BatchNext
  PROVE  \/ \E r \in Requests : SaveDraft(r) \/ \E q : Reading(r, q)
         \/ Next /\ \E r : (r \in Requests => drafts[r] = NoDraft) /\ drafts' = Noticed(drafts, r)
<1>1. ASSUME NEW r \in Requests, drafts[r] = NoDraft, Serve(r), drafts' = Noticed(drafts, r)
      PROVE  Next /\ \E s : (s \in Requests => drafts[s] = NoDraft) /\ drafts' = Noticed(drafts, s)
  BY <1>1 DEF Next
<1>2. ASSUME NEW u \in Users, NEW x \in Roles, Expire(u, x), drafts' = Noticed(drafts, None)
      PROVE  Next /\ \E s : (s \in Requests => drafts[s] = NoDraft) /\ drafts' = Noticed(drafts, s)
  BY <1>2, BatchAssumption DEF Next
<1> QED
  BY <1>1, <1>2, DraftsRead DEF BatchNext
LEMMA SaveDraftType ==
  ASSUME BatchTypeInv, NEW r \in Requests, SaveDraft(r)
  PROVE  /\ TypeInv'
         /\ \A x \in Roles : grants'[x] = After(drafts[r], x)
<1>1. drafts[r] \in Draft
  BY DEF BatchTypeInv
<1>2. \A x \in Roles : After(drafts[r], x) \in SUBSET Keys
  BY <1>1 DEF After, Draft, Change, Named, BatchTypeInv, TypeInv, TypeOK
<1>3. grants' = [x \in Roles |-> After(drafts[r], x)]
  BY DEF SaveDraft
<1>4. grants' \in [Roles -> SUBSET Keys]
  BY <1>2, <1>3
<1>5. accounts' \in [Users -> Account]
  <2>1. Bump(drafts[r].targets)
    BY DEF SaveDraft
  <2> QED
    BY <1>1, <2>1, BumpType DEF BatchTypeInv, TypeInv, Draft
<1> QED
  BY <1>3, <1>4, <1>5 DEF SaveDraft, BatchTypeInv, TypeInv, TypeOK, RequestsAreWellFormed

LEMMA BatchTypeInit == BatchInit => BatchTypeInv
BY TypeInvInit, NoDraftType DEF BatchInit, BatchTypeInv

LEMMA BatchTypeNext == BatchTypeInv /\ [BatchNext]_batchVars => BatchTypeInv'
<1> SUFFICES ASSUME BatchTypeInv, [BatchNext]_batchVars PROVE BatchTypeInv'
  OBVIOUS
<1>1. CASE UNCHANGED batchVars
  <2>1. UNCHANGED vars /\ drafts' = drafts
    BY <1>1 DEF batchVars
  <2> QED
    BY <2>1, TypeInvNext DEF BatchTypeInv
<1>2. ASSUME NEW r \in Requests, SaveDraft(r) PROVE BatchTypeInv'
  BY <1>2, SaveDraftType, RedraftType, NoDraftType DEF BatchTypeInv, SaveDraft
<1>3. ASSUME NEW r \in Requests, NEW q, Reading(r, q) PROVE BatchTypeInv'
  <2>1. UNCHANGED vars /\ q \in Draft /\ Redraft(r, q)
    BY <1>3 DEF Reading
  <2>2. TypeInv'
    BY <2>1, TypeInvNext DEF BatchTypeInv
  <2> QED
    BY <2>1, <2>2, RedraftType DEF BatchTypeInv
<1>4. ASSUME Next, NEW r, drafts' = Noticed(drafts, r) PROVE BatchTypeInv'
  BY <1>4, TypeInvNext, NoticedType DEF BatchTypeInv
<1> QED
  BY <1>1, <1>2, <1>3, <1>4, Bystanding

\* Type correctness with drafts of several roles in flight beside everything else.
THEOREM BatchTypeCorrect == BatchSpec => []BatchTypeOK
<1>1. BatchTypeInv => BatchTypeOK
  BY DEF BatchTypeInv, BatchTypeOK, TypeInv
<1> QED
  BY BatchTypeInit, BatchTypeNext, <1>1, PTL DEF BatchSpec
-----------------------------------------------------------------------------
(* A draft and what its author is left with.                               *)

\* The inductive invariant.  Quantified over drafts, so that what is said of one
\* does not depend on where it is kept.
DraftsAreCurrent == \A q \in Draft : (\E r \in Requests : q = drafts[r]) => Current(q)

CurrentInv == BatchTypeInv /\ DraftsAreCurrent

\* What a draft was told is about the rows, and about nothing else.
LEMMA RowsDecide ==
  ASSUME UNCHANGED rows
  PROVE  \A q : Current(q)' = Current(q)
<1>1. \A u, x : InForce(u, x)' = InForce(u, x)
  BY DEF InForce, rows
<1>2. \A u : Allowed(u)' = Allowed(u) /\ Denied(u)' = Denied(u)
  BY DEF Allowed, Denied, rows
<1>3. root' = root /\ grants' = grants
  BY DEF rows
<1>4. \A u : Effective(u)' = Effective(u)
  BY <1>1, <1>2, <1>3 DEF Effective, Granted
<1>5. \A q : KeptAfter(q)' = KeptAfter(q)
  BY <1>1, <1>2, <1>3 DEF KeptAfter, After
<1> QED
  BY <1>3, <1>4, <1>5 DEF Current

\* Whoever is not taking the step is overtaken, or is told of rows that stand.
LEMMA StaysCurrent ==
  ASSUME NEW p \in Draft, NEW q \in Draft, Current(p), Marked(q, p),
         p.step # "idle" /\ rows' # rows => q.overtaken
  PROVE  Current(q)'
<1>1. CASE q.overtaken
  BY <1>1 DEF Current
<1>2. CASE ~q.overtaken
  <2>1. q = p
    BY <1>2 DEF Marked, Draft
  <2>2. CASE p.step = "idle"
    BY <2>1, <2>2 DEF Current
  <2>3. CASE p.step # "idle"
    BY <1>2, <2>1, <2>3, RowsDecide
  <2> QED
    BY <2>2, <2>3
<1> QED
  BY <1>1, <1>2

LEMMA CurrentNext == CurrentInv /\ [BatchNext]_batchVars => CurrentInv'
<1> SUFFICES ASSUME CurrentInv, [BatchNext]_batchVars,
                    NEW q \in Draft, NEW p \in Requests, q = drafts'[p]
             PROVE  Current(q)'
  BY BatchTypeNext DEF CurrentInv, DraftsAreCurrent
<1>1. drafts[p] \in Draft /\ Current(drafts[p]) /\ drafts \in [Requests -> Draft]
  BY DEF CurrentInv, DraftsAreCurrent, BatchTypeInv
<1>2. CASE UNCHANGED batchVars
  BY <1>1, <1>2, RowsDecide DEF batchVars, vars
<1>3. ASSUME NEW r \in Requests, SaveDraft(r) PROVE Current(q)'
  <2>1. Redraft(r, NoDraft)
    BY <1>3 DEF SaveDraft
  <2>2. CASE p = r
    BY <1>1, <2>1, <2>2, RedraftType, NoDraftType DEF Current
  <2>3. CASE p # r
    BY <1>1, <2>1, <2>3, RedraftType, NoDraftType, StaysCurrent
  <2> QED
    BY <2>2, <2>3
<1>4. ASSUME NEW r \in Requests, NEW s, Reading(r, s) PROVE Current(q)'
  <2>1. s \in Draft /\ Redraft(r, s) /\ UNCHANGED rows /\ (Current(drafts[r]) => Current(s))
    BY <1>4 DEF Reading, vars
  <2>2. CASE p = r
    BY <1>1, <2>1, <2>2, RedraftType, RowsDecide
  <2>3. CASE p # r
    BY <1>1, <2>1, <2>3, RedraftType, StaysCurrent
  <2> QED
    BY <2>2, <2>3
<1>5. ASSUME NEW r, r \in Requests => drafts[r] = NoDraft, drafts' = Noticed(drafts, r)
      PROVE  Current(q)'
  <2>1. CASE p = r
    BY <1>1, <1>5, <2>1, NoticedType, NoDraftType DEF Current
  <2>2. CASE p # r
    BY <1>1, <1>5, <2>2, NoticedType, StaysCurrent
  <2> QED
    BY <2>1, <2>2
<1> QED
  BY <1>2, <1>3, <1>4, <1>5, Bystanding DEF CurrentInv

LEMMA SavedKeeps ==
  ASSUME CurrentInv, NEW r \in Requests, SaveDraft(r), NEW a \in Users, drafts[r].actor = a,
         ~drafts[r].isOwner, ~drafts[r].overtaken
  PROVE  GovernsRights \cap Effective(a) \subseteq (Effective(a))'
<1> DEFINE q == drafts[r]
<1>1. /\ q.holds = Effective(a) /\ a # root /\ GovernsRights \cap q.holds \subseteq KeptAfter(q)
      /\ q \in Draft
  BY DEF SaveDraft, Current, CurrentInv, DraftsAreCurrent, BatchTypeInv
<1>2. /\ root' = root /\ held' = held /\ overrides' = overrides
      /\ \A x \in Roles : grants'[x] = After(q, x)
  BY SaveDraftType DEF SaveDraft, CurrentInv
<1> HIDE DEF q
<1>3. ASSUME NEW k \in GovernsRights, k \in q.holds PROVE k \in (Effective(a))'
  <2>1. k \notin Denied(a) /\ k \in KeptAfter(q)
    BY <1>1, <1>3 DEF Effective
  <2>2. k \notin Denied(a)'
    BY <1>2, <2>1 DEF Denied
  <2>3. k \in Granted(a)'
    BY <1>1, <1>2, <2>1 DEF KeptAfter, Granted, Allowed, InForce, q
  <2> QED
    BY <1>1, <1>2, <2>2, <2>3 DEF Effective
<1> QED
  BY <1>1, <1>3

\* With any number of drafts and of other requests, a draft nobody overtook leaves its
\* author the right to edit roles they had.
THEOREM DraftsLeaveAWayBack == BatchSpec => DraftersKeepTheirWayBack
<1> DEFINE Kept == \A r \in Requests, a \in Users :
                     /\ SaveDraft(r)
                     /\ drafts[r].actor = a /\ ~drafts[r].isOwner /\ ~drafts[r].overtaken
                     => GovernsRights \cap Effective(a) \subseteq (Effective(a))'
<1>1. BatchInit => CurrentInv
  BY BatchTypeInit, NoDraftType DEF BatchInit, CurrentInv, DraftsAreCurrent, Current
<1>2. CurrentInv /\ [BatchNext]_batchVars => Kept
  BY SavedKeeps
<1>3. CurrentInv /\ [BatchNext]_batchVars => [Kept]_batchVars
  BY <1>2
<1> QED
  BY <1>1, <1>3, CurrentNext, PTL DEF BatchSpec, DraftersKeepTheirWayBack

-----------------------------------------------------------------------------
(* A draft and the rights of the beginning.                                *)

ModestInv ==
  /\ ConserveInv /\ drafts \in [Requests -> Draft]
  /\ \A r \in Requests : Modest(drafts[r])

LEMMA MarkedModest ==
  ASSUME NEW p \in Draft, NEW q \in Draft, Modest(p), Marked(q, p)
  PROVE  Modest(q)
BY DEF Modest, Marked, Draft, Named

LEMMA SaveConserves ==
  ASSUME ModestInv, NEW r \in Requests, SaveDraft(r)
  PROVE  ConserveInv'
<1> DEFINE q == drafts[r]
<1>1. BatchTypeInv /\ q \in Draft
  BY DEF ModestInv, ConserveInv, BatchTypeInv
<1>2. TypeInv' /\ \A x \in Roles : grants'[x] = After(q, x)
  BY <1>1, SaveDraftType
<1>3. \A x \in Named(q) : q.changes[x] \subseteq InitialAuthority
  BY DEF ModestInv, Modest, SaveDraft
<1>4. \A x \in Roles : grants'[x] \subseteq grants[x] \cup InitialAuthority
  BY <1>2, <1>3 DEF After
<1>5. root' = root /\ held' = held /\ overrides' = overrides /\ requests' = requests
  BY DEF SaveDraft
<1>6. ASSUME NEW u \in Users \ {Root}, NEW k \in Keys, CanUse(u, k)'
      PROVE  k \in InitialAuthority
  <2>1. CanUse(u, k) \/ k \in InitialAuthority
    BY <1>4, <1>5, <1>6 DEF CanUse, InForce
  <2> QED
    BY <2>1 DEF ModestInv, ConserveInv, Conserved
<1>7. ASSUME NEW p \in Requests PROVE Cautious(requests[p])'
  <2>1. Cautious(requests[p]) /\ requests[p].step \in Steps
    BY DEF ModestInv, ConserveInv, RequestsAreCautious, TypeInv, TypeOK, Request
  <2>2. requests[p].handler = "assign" /\ requests[p].step # "idle" =>
          requests[p].input.role \in Roles
    BY InFlight DEF ModestInv, ConserveInv, Shaped
  <2> QED
    BY <1>4, <1>5, <2>1, <2>2 DEF Cautious
<1> QED
  BY <1>2, <1>5, <1>6, <1>7 DEF ModestInv, ConserveInv, Conserved, RequestsAreCautious

LEMMA ModestNext == NobodyGivesAway /\ ModestInv /\ [BatchNext]_batchVars => ModestInv'
<1> SUFFICES ASSUME NobodyGivesAway, ModestInv, [BatchNext]_batchVars PROVE ModestInv'
  OBVIOUS
<1>1. /\ BatchTypeInv /\ drafts \in [Requests -> Draft] /\ drafts' \in [Requests -> Draft]
      /\ \A p \in Requests : drafts[p] \in Draft /\ Modest(drafts[p])
  BY BatchTypeNext DEF ModestInv, ConserveInv, BatchTypeInv
<1>2. CASE UNCHANGED batchVars
  BY <1>1, <1>2, ConserveNext DEF batchVars, ModestInv
<1>3. ASSUME NEW r \in Requests, SaveDraft(r) PROVE ModestInv'
  <2>1. Redraft(r, NoDraft)
    BY <1>3 DEF SaveDraft
  <2>2. ASSUME NEW p \in Requests PROVE Modest(drafts'[p])
    <3>1. CASE p = r
      BY <1>1, <2>1, <3>1, RedraftType, NoDraftType DEF Modest
    <3>2. CASE p # r
      BY <1>1, <2>1, <3>2, RedraftType, NoDraftType, MarkedModest
    <3> QED
      BY <3>1, <3>2
  <2> QED
    BY <1>1, <1>3, <2>2, SaveConserves DEF ModestInv, Modest, Named
<1>4. ASSUME NEW r \in Requests, NEW s, Reading(r, s) PROVE ModestInv'
  <2>1. \A a \in Actors : Effective(a) \subseteq InitialAuthority
    BY ConservedMeansAuthority, ParamAssumption DEF ModestInv, NobodyGivesAway
  <2>2. s \in Draft /\ Redraft(r, s) /\ UNCHANGED vars /\ Modest(s)
    BY <1>1, <1>4, <2>1 DEF Reading
  <2>3. ASSUME NEW p \in Requests PROVE Modest(drafts'[p])
    <3>1. CASE p = r
      BY <1>1, <2>2, <3>1, RedraftType
    <3>2. CASE p # r
      BY <1>1, <2>2, <3>2, RedraftType, MarkedModest
    <3> QED
      BY <3>1, <3>2
  <2> QED
    BY <1>1, <2>2, <2>3, ConserveNext DEF ModestInv, Modest, Named
<1>5. ASSUME Next, NEW r, drafts' = Noticed(drafts, r) PROVE ModestInv'
  <2>1. \A p \in Requests : Modest(drafts'[p])
    BY <1>1, <1>5, NoticedType, MarkedModest
  <2> QED
    BY <1>1, <1>5, <2>1, ConserveNext DEF ModestInv, Modest, Named
<1> QED
  BY <1>1, <1>2, <1>3, <1>4, <1>5, Bystanding

\* The same with drafts: saving several roles at once, however it is overlapped, gives
\* nobody a right none of them could use before.
THEOREM DraftsConserveRights == NobodyGivesAway /\ BatchSpec => []AuthorityIsConserved
<1> SUFFICES ASSUME NobodyGivesAway PROVE BatchSpec => []AuthorityIsConserved
  OBVIOUS
<1>1. BatchInit => ModestInv
  BY ConserveInit, NoDraftType DEF BatchInit, ModestInv, Modest
<1>2. ModestInv /\ [BatchNext]_batchVars => ModestInv'
  BY ModestNext
<1>3. ModestInv => AuthorityIsConserved
  BY ConservedMeansAuthority DEF ModestInv, AuthorityIsConserved
<1> QED
  BY <1>1, <1>2, <1>3, PTL DEF BatchSpec
=============================================================================

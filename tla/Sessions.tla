------------------------------ MODULE Sessions ------------------------------
(***************************************************************************)
(* Refresh-token families and everything that opens, rotates or closes     *)
(* them: sign-in, POST /auth/refresh, the three ways of ending a session,  *)
(* a password change or reset, and suspending or reactivating an account.  *)
(*                                                                         *)
(* One action is one await point of a use case.  Every use case runs in    *)
(* one interactive transaction at READ COMMITTED (tenant.context.ts), so   *)
(* between two statements of a request any other request may commit.       *)
(* Rows a transaction has written but not committed are not in `sessions'  *)
(* or `users': they live in the request until it commits, and the row lock *)
(* they hold is derived from the step the request is at.                   *)
(***************************************************************************)
EXTENDS Integers, FiniteSets

CONSTANTS
  Users,          \* accounts of one organization
  SessionIds,     \* primary keys a session row may be given
  Families,       \* family ids a sign-in may mint
  Requests,       \* requests the API serves at the same time
  Handlers,       \* the operations these requests may call
  LegacyDigests,  \* accounts whose digest was made with weaker parameters
  Grace,          \* REFRESH_RACE_GRACE_SECONDS, in ticks
  Ttl,            \* REFRESH_TOKEN_TTL_SECONDS, in ticks
  MaxNow,         \* bound: how far the clock runs
  MaxVersion,     \* bound: how many status changes
  MaxPassword,    \* bound: how many passwords after the first
  None            \* SQL NULL, and the absent row

HandlerNames == {"login", "refresh", "signOut", "revoke", "revokeOthers",
                 "changePassword", "resetPassword", "deactivate", "reactivate"}

ASSUME ParamAssumption ==
  /\ Handlers \subseteq HandlerNames
  /\ LegacyDigests \subseteq Users
  /\ Grace \in Nat /\ Ttl \in Nat \ {0}
  /\ MaxNow \in Nat /\ MaxVersion \in Nat /\ MaxPassword \in Nat

VARIABLES
  sessions,   \* the sessions table, as committed
  users,      \* the users table, as committed
  requests,   \* what each request in flight has read and holds
  now,        \* the clock
  proved      \* history: the last password the device of a family has shown it
              \* knows, by signing in with it or by being the one that set it

vars == <<sessions, users, requests, now, proved>>

-----------------------------------------------------------------------------
Reasons == {"ROTATED", "LOGOUT", "REVOKED_BY_USER", "REUSE_DETECTED",
            "OFFBOARDING", "PASSWORD_CHANGED"}

Row == [userId : Users, familyId : Families,
        rotatedFromId : SessionIds \cup {None},
        revokedReason : Reasons \cup {None}, revokedAt : Nat,
        expiresAt : Nat, permissionsVersion : Nat]

ASSUME NullAssumption ==
  /\ None \notin SessionIds /\ None \notin Families /\ None \notin Users
  /\ None \notin Reasons /\ None \notin Row

\* Whether the parameters of a digest are the ones in force (needsRehash).
Digests == {"current", "weaker"}

\* `password' numbers the passwords of an account; the digest is one of them.
Account == [status : {"ACTIVE", "SUSPENDED"}, permissionsVersion : Nat,
            password : Nat, digest : Digests]

Steps == {"idle", "account", "spend", "issue", "open", "write", "close", "closing"}

\* What a transaction does to the users row when it commits.
Writes == {"nothing", "password", "suspend", "reactivate"}

Request == [step : Steps, userId : Users \cup {None},
            sessionId : SessionIds \cup {None},
            familyId : Families \cup {None}, keepFamilyId : Families \cup {None},
            at : Nat, permissionsVersion : Nat, password : Nat,
            digest : Digests, write : Writes,
            reason : Reasons \cup {None}, targets : SUBSET SessionIds,
            met : SUBSET Families]  \* history: the families opened when the rows were selected

Idle == [step |-> "idle", userId |-> None, sessionId |-> None,
         familyId |-> None, keepFamilyId |-> None, at |-> 0,
         permissionsVersion |-> 0, password |-> 0, digest |-> "current",
         write |-> "nothing", reason |-> None, targets |-> {}, met |-> {}]

TypeOK ==
  /\ sessions \in [SessionIds -> Row \cup {None}]
  /\ users \in [Users -> Account]
  /\ requests \in [Requests -> Request]
  /\ now \in Nat
  /\ proved \in [Families -> Nat]

-----------------------------------------------------------------------------
Exists(s) == sessions[s] # None

Live(s) == Exists(s) /\ sessions[s].revokedReason = None

LiveOf(f) == {s \in SessionIds : Live(s) /\ sessions[s].familyId = f}

Opened(f) == \E s \in SessionIds : Exists(s) /\ sessions[s].familyId = f

Unused == {s \in SessionIds : ~Exists(s)}

\* Mutant: the rotation locks its row when it reads it, with a lock readers share.
RowLockedByReaders(s) ==
  \E q \in Requests : requests[q].step \in {"spend", "issue"} /\ requests[q].sessionId = s

\* The row is locked by a rotation that has spent it and not committed yet.
RowLocked(s) == \E q \in Requests : requests[q].step = "issue" /\ requests[q].sessionId = s

\* The users row is locked by a transaction that has written it.
UserLocked(u) ==
  \E q \in Requests : /\ requests[q].userId = u
                      /\ requests[q].write # "nothing"
                      /\ requests[q].step \in {"close", "closing"}

\* Whether the access token minted with row s is believed right now.
Authenticates(s) ==
  /\ Live(s)
  /\ sessions[s].expiresAt > now
  /\ users[sessions[s].userId].status = "ACTIVE"
  /\ users[sessions[s].userId].permissionsVersion = sessions[s].permissionsVersion

\* A spent token that is an ordinary race between two tabs rather than a replay.
LostRace(row) == row.revokedReason = "ROTATED" /\ now - row.revokedAt <= Grace

\* Mutant: family_id <> NULL is not true of any row.
InScopeNullKept(q, row) ==
  /\ row.revokedReason = None
  /\ IF q.familyId # None THEN row.familyId = q.familyId
     ELSE row.userId = q.userId /\ q.keepFamilyId # None /\ row.familyId # q.keepFamilyId

\* Mutant: only the row the sign-in inserted, not its rotations.
InScopeFirstRow(q, row) ==
  /\ row.revokedReason = None
  /\ IF q.familyId # None THEN row.familyId = q.familyId /\ row.rotatedFromId = None
     ELSE row.userId = q.userId /\ row.familyId # q.keepFamilyId

\* The rows the WHERE clause of the request's revocation names.
InScope(q, row) ==
  /\ row.revokedReason = None
  /\ IF q.familyId # None THEN row.familyId = q.familyId
     ELSE row.userId = q.userId /\ row.familyId # q.keepFamilyId

Serves(r, handler) == handler \in Handlers /\ requests[r].step = "idle"

\* Bound: a request that is to insert a row is received while ids are left for
\* every such request under way, so that running out of them blocks nobody.
Room(steps, left) == Cardinality({r \in Requests : requests[r].step \in steps}) < Cardinality(left)

RowsLeft == Room({"open", "account", "spend", "issue"}, Unused)

FamiliesLeft == Room({"open"}, {f \in Families : ~Opened(f)})

Become(r, q) == requests' = [requests EXCEPT ![r] = q]

Finish(r) == Become(r, Idle)

WithPassword(account, password) ==
  [account EXCEPT !.password = password, !.digest = "current"]

\* Mutant: a status that changes without its version.
WithStatusOnly(account, status) == [account EXCEPT !.status = status]

\* Status and version in one statement.
WithStatus(account, status) ==
  [account EXCEPT !.status = status,
                  !.permissionsVersion = account.permissionsVersion + 1]

Init ==
  /\ sessions = [s \in SessionIds |-> None]
  /\ users = [u \in Users |-> [status |-> "ACTIVE", permissionsVersion |-> 0,
                               password |-> 0, digest |-> IF u \in LegacyDigests THEN "weaker"
                                         ELSE "current"]]
  /\ requests = [r \in Requests |-> Idle]
  /\ now = 0
  /\ proved = [f \in Families |-> 0]

-----------------------------------------------------------------------------
(* Sign-in.                                                                *)

\* The org-less lookup and the verification: the account as it was then.
Login(r, u) ==
  /\ Serves(r, "login") /\ RowsLeft /\ FamiliesLeft
  /\ users[u].status = "ACTIVE"
  /\ Become(r, [Idle EXCEPT !.step = "open", !.userId = u,
                            !.permissionsVersion = users[u].permissionsVersion,
                            !.password = users[u].password,
                            !.digest = users[u].digest])
  /\ UNCHANGED <<sessions, users, now, proved>>

NewRow(q, f, from) ==
  [userId |-> q.userId, familyId |-> f, rotatedFromId |-> from,
   revokedReason |-> None, revokedAt |-> 0, expiresAt |-> now + Ttl,
   permissionsVersion |-> q.permissionsVersion]

\* The transaction of a sign-in: the account is not read again, and a digest
\* that was weaker at the lookup is replaced by one of the same password.
OpenSession(r) ==
  LET q == requests[r] IN
  /\ q.step = "open"
  /\ q.digest = "weaker" => ~UserLocked(q.userId)
  /\ \E s \in Unused, f \in {g \in Families : ~Opened(g)} :
       /\ sessions' = [sessions EXCEPT ![s] = NewRow(q, f, None)]
       /\ proved' = [proved EXCEPT ![f] = q.password]
  /\ users' = IF q.digest = "weaker"
              THEN [users EXCEPT ![q.userId] = WithPassword(@, q.password)]
              ELSE users
  /\ Finish(r)
  /\ UNCHANGED now

-----------------------------------------------------------------------------
(* POST /auth/refresh.  Unknown, expired and lost-race presentations are   *)
(* refused without a write and need no action.                             *)

Revocation(q, f, reason) ==
  [q EXCEPT !.step = "close", !.familyId = f, !.reason = reason]

PresentSpent(r, s) ==
  /\ Serves(r, "refresh")
  /\ Exists(s) /\ ~Live(s) /\ ~LostRace(sessions[s])
  /\ Become(r, Revocation([Idle EXCEPT !.at = now, !.userId = sessions[s].userId],
                          sessions[s].familyId, "REUSE_DETECTED"))
  /\ UNCHANGED <<sessions, users, now, proved>>

PresentLive(r, s) ==
  /\ Serves(r, "refresh") /\ RowsLeft
  /\ Live(s) /\ sessions[s].expiresAt > now
  /\ Become(r, [Idle EXCEPT !.step = "account", !.sessionId = s, !.at = now,
                            !.userId = sessions[s].userId])
  /\ UNCHANGED <<sessions, users, now, proved>>

\* First statement of the rotation: an account that may not sign in ends the
\* transaction, and its family is closed in a transaction of its own.
ReadAccount(r) ==
  LET q == requests[r]
      account == users[q.userId]
  IN
  /\ q.step = "account"
  /\ Become(r, IF account.status = "ACTIVE"
               THEN [q EXCEPT !.step = "spend",
                              !.permissionsVersion = account.permissionsVersion]
               ELSE Revocation(q, sessions[q.sessionId].familyId, "OFFBOARDING"))
  /\ UNCHANGED <<sessions, users, now, proved>>

\* Mutant: UPDATE ... WHERE id = $1, with the row only read to be live before.
MarkRotatedUnconditionally(r) ==
  /\ requests[r].step = "spend"
  /\ ~RowLocked(requests[r].sessionId)
  /\ Become(r, [requests[r] EXCEPT !.step = "issue"])
  /\ UNCHANGED <<sessions, users, now, proved>>

\* UPDATE ... WHERE id = $1 AND revoked_at IS NULL waits for the row, then
\* either takes it or finds that somebody else has.
MarkRotated(r) ==
  LET q == requests[r] IN
  /\ q.step = "spend"
  /\ ~RowLocked(q.sessionId)
  /\ Become(r, IF Live(q.sessionId)
               THEN [q EXCEPT !.step = "issue"]
               ELSE Idle)
  /\ UNCHANGED <<sessions, users, now, proved>>

\* Mutant: the successor is inserted and the token it replaces is not spent.
IssueSuccessorUnspent(r) ==
  LET q == requests[r] IN
  /\ q.step = "issue"
  /\ \E s \in Unused :
       sessions' = [sessions EXCEPT
         ![s] = NewRow(q, sessions[q.sessionId].familyId, q.sessionId)]
  /\ Finish(r)
  /\ UNCHANGED <<users, now, proved>>

\* The successor row and the commit: the spent row and its successor appear
\* together.
IssueSuccessor(r) ==
  LET q == requests[r] IN
  /\ q.step = "issue"
  /\ \E s \in Unused :
       sessions' = [sessions EXCEPT
         ![q.sessionId] = [@ EXCEPT !.revokedReason = "ROTATED", !.revokedAt = q.at],
         ![s] = NewRow(q, sessions[q.sessionId].familyId, q.sessionId)]
  /\ Finish(r)
  /\ UNCHANGED <<users, now, proved>>

-----------------------------------------------------------------------------
(* Ending sessions.                                                        *)

\* Signing out is addressed by the caller's own row, live or not.
SignOut(r, s) ==
  /\ Serves(r, "signOut")
  /\ Exists(s)
  /\ Become(r, Revocation([Idle EXCEPT !.at = now, !.userId = sessions[s].userId],
                          sessions[s].familyId, "LOGOUT"))
  /\ UNCHANGED <<sessions, users, now, proved>>

\* Closing one of one's own sessions, by an id read from the list.
RevokeOwn(r, caller, s) ==
  /\ Serves(r, "revoke")
  /\ Authenticates(caller)
  /\ Exists(s) /\ sessions[s].userId = sessions[caller].userId
  /\ Become(r, Revocation([Idle EXCEPT !.at = now, !.userId = sessions[s].userId],
                          sessions[s].familyId, "REVOKED_BY_USER"))
  /\ UNCHANGED <<sessions, users, now, proved>>

RevokeOthers(r, caller) ==
  /\ Serves(r, "revokeOthers")
  /\ Authenticates(caller)
  /\ Become(r, [Idle EXCEPT !.step = "close", !.at = now,
                            !.userId = sessions[caller].userId,
                            !.keepFamilyId = sessions[caller].familyId,
                            !.reason = "REVOKED_BY_USER"])
  /\ UNCHANGED <<sessions, users, now, proved>>

-----------------------------------------------------------------------------
(* Operations on the account that close its sessions in the same           *)
(* transaction.                                                            *)

\* The caller proves the current password; every other family is to be closed.
ChangePassword(r, caller) ==
  /\ Serves(r, "changePassword")
  /\ Authenticates(caller)
  /\ users[sessions[caller].userId].password < MaxPassword
  /\ Become(r, [Idle EXCEPT !.step = "write", !.write = "password",
                            !.userId = sessions[caller].userId,
                            !.keepFamilyId = sessions[caller].familyId,
                            !.reason = "PASSWORD_CHANGED"])
  /\ UNCHANGED <<sessions, users, now, proved>>

\* A reset link has been spent for an ACTIVE account; no family is kept.
ResetPassword(r, u) ==
  /\ Serves(r, "resetPassword")
  /\ users[u].status = "ACTIVE"
  /\ users[u].password < MaxPassword
  /\ Become(r, [Idle EXCEPT !.step = "write", !.write = "password",
                            !.userId = u, !.reason = "PASSWORD_CHANGED"])
  /\ UNCHANGED <<sessions, users, now, proved>>

\* The status is read first; an account already in the state asked for ends
\* the request without a write.
Deactivate(r, u) ==
  /\ Serves(r, "deactivate")
  /\ users[u].status = "ACTIVE"
  /\ users[u].permissionsVersion < MaxVersion
  /\ Become(r, [Idle EXCEPT !.step = "write", !.write = "suspend",
                            !.userId = u, !.reason = "OFFBOARDING"])
  /\ UNCHANGED <<sessions, users, now, proved>>

Reactivate(r, u) ==
  /\ Serves(r, "reactivate")
  /\ users[u].status = "SUSPENDED"
  /\ users[u].permissionsVersion < MaxVersion
  /\ Become(r, [Idle EXCEPT !.step = "write", !.write = "reactivate", !.userId = u])
  /\ UNCHANGED <<sessions, users, now, proved>>

\* The UPDATE of the users row takes its lock, whatever the row says by now.
LockAccount(r) ==
  LET q == requests[r] IN
  /\ q.step = "write" /\ q.write # "reactivate"
  /\ ~UserLocked(q.userId)
  /\ Become(r, [q EXCEPT !.step = "close", !.at = now])
  /\ UNCHANGED <<sessions, users, now, proved>>

WriteReactivation(r) ==
  LET q == requests[r] IN
  /\ q.step = "write" /\ q.write = "reactivate"
  /\ ~UserLocked(q.userId)
  /\ users' = [users EXCEPT ![q.userId] = WithStatus(@, "ACTIVE")]
  /\ Finish(r)
  /\ UNCHANGED <<sessions, now, proved>>

-----------------------------------------------------------------------------
(* The revocation statement.  It finds its rows in the snapshot taken when *)
(* it starts, waits for those another transaction has locked, and writes   *)
(* the ones that still match.  A row inserted meanwhile is not looked at.  *)

TakeSnapshot(r) ==
  LET q == requests[r] IN
  /\ q.step = "close"
  /\ Become(r, [q EXCEPT !.step = "closing",
                         !.targets = {s \in SessionIds : Exists(s) /\ InScope(q, sessions[s])},
                         !.met = {f \in Families : Opened(f)}])
  /\ UNCHANGED <<sessions, users, now, proved>>

AccountAfter(q, account) ==
  CASE q.write = "password" -> WithPassword(account, account.password + 1)
    [] q.write = "suspend"  -> WithStatus(account, "SUSPENDED")
    [] OTHER                -> account

\* Mutant: the rows of the snapshot are written whatever became of them.
RowAfterUnchecked(q, s) ==
  IF s \in q.targets
  THEN [sessions[s] EXCEPT !.revokedReason = q.reason, !.revokedAt = q.at]
  ELSE sessions[s]

RowAfter(q, s) ==
  IF s \in q.targets /\ Live(s)
  THEN [sessions[s] EXCEPT !.revokedReason = q.reason, !.revokedAt = q.at]
  ELSE sessions[s]

CommitRevocation(r) ==
  LET q == requests[r] IN
  /\ q.step = "closing"
  /\ \A s \in q.targets : ~RowLocked(s)
  /\ sessions' = [s \in SessionIds |-> RowAfter(q, s)]
  /\ users' = IF q.write = "nothing" THEN users
              ELSE [users EXCEPT ![q.userId] = AccountAfter(q, @)]
  /\ proved' = IF q.write = "password" /\ q.keepFamilyId # None
               THEN [proved EXCEPT ![q.keepFamilyId] = users[q.userId].password + 1]
               ELSE proved
  /\ Finish(r)
  /\ UNCHANGED now

-----------------------------------------------------------------------------
\* A transaction that times out, a lost connection or a crash: nothing that
\* was not committed remains.
Rollback(r) ==
  /\ requests[r].step # "idle"
  /\ Finish(r)
  /\ UNCHANGED <<sessions, users, now, proved>>

Tick ==
  /\ now < MaxNow
  /\ now' = now + 1
  /\ UNCHANGED <<sessions, users, requests, proved>>

Advance(r) ==
  \/ OpenSession(r) \/ ReadAccount(r) \/ MarkRotated(r) \/ IssueSuccessor(r)
  \/ LockAccount(r) \/ WriteReactivation(r) \/ TakeSnapshot(r) \/ CommitRevocation(r)

Receive(r) ==
  \/ \E u \in Users : \/ Login(r, u) \/ ResetPassword(r, u)
                      \/ Deactivate(r, u) \/ Reactivate(r, u)
  \/ \E s \in SessionIds : \/ PresentSpent(r, s) \/ PresentLive(r, s) \/ SignOut(r, s)
                           \/ RevokeOthers(r, s) \/ ChangePassword(r, s)
  \/ \E c, s \in SessionIds : RevokeOwn(r, c, s)

Next == Tick \/ \E r \in Requests : Receive(r) \/ Advance(r) \/ Rollback(r)

\* The event loop resumes every request, and Postgres queues those that wait for
\* a row lock in order, so nobody is overtaken for ever (strong fairness).  A
\* rollback is never owed: what ends does so without the help of the timeout.
Fairness == \A r \in Requests : SF_vars(Advance(r))

Spec == Init /\ [][Next]_vars

FairSpec == Spec /\ Fairness
-----------------------------------------------------------------------------
(* What a family promises.                                                 *)

\* A family never has two live rows: `markRotated' is a single conditional
\* UPDATE so that two requests holding one token cannot both succeed
\* (session.repository.ts, lines 42-45).
OneLiveRowPerFamily ==
  \A s, t \in SessionIds :
    Live(s) /\ Live(t) /\ sessions[s].familyId = sessions[t].familyId => s = t

\* The rotation chain never forks: a row has at most one successor, in its own
\* family, and only if it was closed by that rotation and by nothing else.
ChainNeverForks ==
  \A s, t \in SessionIds :
    Exists(s) /\ Exists(t) /\ sessions[t].rotatedFromId = s =>
      /\ sessions[s].revokedReason = "ROTATED"
      /\ sessions[s].familyId = sessions[t].familyId
      /\ sessions[s].userId = sessions[t].userId
      /\ \A v \in SessionIds : Exists(v) /\ sessions[v].rotatedFromId = s => v = t

\* A closed device stays closed: once no row of a family is live none ever is
\* again, whatever requests on that family are still under way.
ClosedFamilyStaysClosed ==
  [][\A f \in Families : Opened(f) /\ LiveOf(f) = {} => LiveOf(f)' = {}]_vars

\* The first reason a row was closed for is the one it keeps: the trail of a
\* theft is not overwritten by a later sign-out, and a rotation cannot be
\* turned into one.
RevocationIsFinal ==
  [][\A s \in SessionIds : Exists(s) /\ ~Live(s) => sessions'[s] = sessions[s]]_vars

\* An access token that stopped being believed is never believed again, not
\* even after its account is suspended and brought back
\* (reactivate-user.use-case.ts, lines 36-38).
RefusedTokenStaysRefused ==
  [][\A s \in SessionIds : Exists(s) /\ ~Authenticates(s) => ~Authenticates(s)']_vars

\* Two transactions never hold the lock of the same row, and a row under
\* rotation is live until the rotation commits.
RotationOwnsItsRow ==
  \A r \in Requests :
    requests[r].step = "issue" =>
      /\ Live(requests[r].sessionId)
      /\ \A q \in Requests \ {r} :
           requests[q].step = "issue" => requests[q].sessionId # requests[r].sessionId

\* Every live session belongs to a device that has shown it knows the current
\* password: the reset closes every session and the change every other one
\* (confirm-password-reset.use-case.ts, lines 99-104).
LiveSessionsKnowThePassword ==
  \A s \in SessionIds :
    Live(s) => proved[sessions[s].familyId] = users[sessions[s].userId].password

\* What a suspension leaves of an account's sessions opens nothing: a row committed
\* by a sign-in or a rotation that was under way escapes the revocation, but every
\* token of the account, whenever its row is written, carries a version the account
\* has left behind (user-lifecycle.repository.ts, lines 48-83).
SuspendedSessionsAreStale ==
  \A s \in SessionIds :
    Exists(s) /\ users[sessions[s].userId].status = "SUSPENDED" =>
      sessions[s].permissionsVersion < users[sessions[s].userId].permissionsVersion

\* The password only moves forward: a digest that changed between a sign-in
\* and its re-hash is left as it was (identity-repositories.test.ts, 203-206).
PasswordOnlyMovesForward ==
  [][\A u \in Users : users'[u].password >= users[u].password]_vars

\* Whether a row is of what a closing is meant to close: the family of a sign-out or a
\* replay, every family but the caller's, or all of the account.
Meant(q, row) ==
  IF q.familyId # None THEN row.familyId = q.familyId
  ELSE row.userId = q.userId /\ row.familyId # q.keepFamilyId

\* A sign-out, a change or reset of the password and a suspension leave live, of a family
\* that was open when their statement began, only what overtook it: a row it had selected
\* was exchanged before it could be written, and the successor was not in its snapshot
\* (session.repository.ts, lines 131-187).
OnlyARotationOutlivesAClosing ==
  [][\A r \in Requests, s \in SessionIds :
       /\ CommitRevocation(r) /\ Live(s)'
       /\ Meant(requests[r], sessions'[s]) /\ sessions'[s].familyId \in requests[r].met
       => \E t \in requests[r].targets : /\ sessions[t].familyId = sessions'[s].familyId
                                         /\ sessions[t].revokedReason = "ROTATED"]_vars

\* Every request that was received ends: waiting for row locks never closes
\* into a circle.
EveryRequestEnds == \A r \in Requests : requests[r].step # "idle" ~> requests[r].step = "idle"

-----------------------------------------------------------------------------
SpentOf(f) == {s \in SessionIds : Exists(s) /\ ~Live(s) /\ sessions[s].familyId = f}

\* The tokens a family may exchange, and those it never will again.
TokenFamilies ==
  INSTANCE TokenFamilies WITH
    Tokens  <- SessionIds,
    current <- [f \in Families |-> LiveOf(f)],
    spent   <- [f \in Families |-> SpentOf(f)]

\* The transactions of the repository, interleaved at READ COMMITTED, keep the
\* promise of a refresh-token family: one token at a time, each exchanged at
\* most once, and closing is for good.
ImplementsTokenFamilies == TokenFamilies!Spec
=============================================================================

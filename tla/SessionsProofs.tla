--------------------------- MODULE SessionsProofs ---------------------------
(***************************************************************************)
(* Theorems about Sessions, for every number of accounts, rows, families   *)
(* and concurrent requests, every grace and every bound.                   *)
(***************************************************************************)
EXTENDS Sessions, TLAPS

\* What a request in flight still knows to be true of the rows it has read:
\* rows are never deleted and never change their user or family.
NamesItsRow(q) ==
  /\ q.step = "open" \/ q.write # "nothing" => q.userId \in Users
  /\ q.step \in {"account", "spend", "issue"} =>
       /\ q.sessionId \in SessionIds
       /\ Exists(q.sessionId)
       /\ sessions[q.sessionId].userId = q.userId

RequestsNameTheirRow == \A r \in Requests : NamesItsRow(requests[r])

\* A row a rotation inserted names a row that exists.
ChainIsClosed ==
  \A s \in SessionIds :
    Exists(s) /\ sessions[s].rotatedFromId # None =>
      /\ sessions[s].rotatedFromId \in SessionIds
      /\ Exists(sessions[s].rotatedFromId)

\* The inductive invariant.
IInv ==
  /\ TypeOK
  /\ RequestsNameTheirRow
  /\ RotationOwnsItsRow
  /\ OneLiveRowPerFamily
  /\ ChainIsClosed
  /\ ChainNeverForks

-----------------------------------------------------------------------------
\* A live row is a row, and a new row is one too.
LEMMA RowFacts ==
  ASSUME TypeOK, NEW s \in SessionIds, Exists(s)
  PROVE  sessions[s] \in Row
BY DEF TypeOK, Exists

LEMMA NewRowType ==
  ASSUME TypeOK, NEW q \in Request, q.userId \in Users, NEW f \in Families,
         NEW from \in SessionIds \cup {None}
  PROVE  /\ NewRow(q, f, from) \in Row
         /\ NewRow(q, f, from) # None
BY ParamAssumption, NullAssumption DEF TypeOK, NewRow, Row, Request

LEMMA PasswordType ==
  ASSUME NEW account \in Account, NEW password \in Nat
  PROVE  WithPassword(account, password) \in Account
BY DEF WithPassword, Account, Digests

LEMMA StatusType ==
  ASSUME NEW account \in Account, NEW status \in {"ACTIVE", "SUSPENDED"}
  PROVE  WithStatus(account, status) \in Account
<1>1. PICK n \in Nat : n = account.permissionsVersion + 1
  BY DEF Account
<1> QED
  BY <1>1 DEF WithStatus, Account

LEMMA IdleType == Idle \in Request
BY DEF Idle, Request, Steps, Writes, Digests

\* A request that moves on to a well-formed state leaves the others as they are.
LEMMA BecomeType ==
  ASSUME TypeOK, NEW r \in Requests, NEW q \in Request, Become(r, q)
  PROVE  /\ requests' \in [Requests -> Request]
         /\ requests'[r] = q
         /\ \A p \in Requests \ {r} : requests'[p] = requests[p]
BY DEF TypeOK, Become

LEMMA FinishType ==
  ASSUME TypeOK, NEW r \in Requests, Finish(r)
  PROVE  /\ requests' \in [Requests -> Request]
         /\ requests'[r] = Idle
         /\ \A p \in Requests \ {r} : requests'[p] = requests[p]
BY BecomeType, IdleType DEF Finish

\* The type invariant is kept by every step.
LEMMA TypeStep ==
  ASSUME TypeOK, RequestsNameTheirRow, [Next]_vars
  PROVE  TypeOK'
<1>1. ASSUME NEW r \in Requests, NEW u \in Users, Login(r, u)
      PROVE  TypeOK'
  <2>1. [Idle EXCEPT !.step = "open", !.userId = u,
                     !.permissionsVersion = users[u].permissionsVersion,
                     !.password = users[u].password,
                     !.digest = users[u].digest] \in Request
    BY IdleType DEF Account, TypeOK, Request, Steps
  <2> QED
    BY <1>1, <2>1, BecomeType DEF Login, TypeOK
<1>2. ASSUME NEW r \in Requests, OpenSession(r)
      PROVE  TypeOK'
  <2> DEFINE q == requests[r]
  <2>1. q \in Request /\ q.userId \in Users /\ q.password \in Nat
    BY <1>2 DEF OpenSession, RequestsNameTheirRow, NamesItsRow, TypeOK, Request
  <2>2. users' \in [Users -> Account]
    BY <1>2, <2>1, PasswordType DEF OpenSession, TypeOK
  <2>3. PICK s \in Unused, f \in Families :
          /\ sessions' = [sessions EXCEPT ![s] = NewRow(q, f, None)]
          /\ proved' = [proved EXCEPT ![f] = q.password]
    BY <1>2 DEF OpenSession
  <2>4. NewRow(q, f, None) \in Row
    BY <2>1, NewRowType
  <2>5. /\ sessions' \in [SessionIds -> Row \cup {None}]
        /\ proved' \in [Families -> Nat]
    BY <2>1, <2>3, <2>4 DEF TypeOK, Unused
  <2> QED
    BY <1>2, <2>2, <2>5, FinishType DEF OpenSession, TypeOK
<1>3. ASSUME NEW r \in Requests, NEW s \in SessionIds, PresentSpent(r, s)
      PROVE  TypeOK'
  BY <1>3, RowFacts
     DEF PresentSpent, Revocation, Row, TypeOK, Become, Request, Idle, Digests, Steps, Writes, Reasons
<1>4. ASSUME NEW r \in Requests, NEW s \in SessionIds, PresentLive(r, s)
      PROVE  TypeOK'
  <2>1. sessions[s] \in Row /\ now \in Nat
    BY <1>4, RowFacts DEF PresentLive, Live, TypeOK
  <2>2. [Idle EXCEPT !.step = "account", !.sessionId = s, !.at = now,
                     !.userId = sessions[s].userId] \in Request
    BY <2>1, IdleType DEF Row, Request, Steps
  <2> QED
    BY <1>4, <2>2, BecomeType DEF PresentLive, TypeOK
<1>5. ASSUME NEW r \in Requests, ReadAccount(r)
      PROVE  TypeOK'
  <2> DEFINE q == requests[r]
  <2>1. q \in Request /\ sessions[q.sessionId].familyId \in Families
    BY <1>5, RowFacts DEF ReadAccount, TypeOK, RequestsNameTheirRow, NamesItsRow, Row
  <2>2. CASE users[q.userId].status = "ACTIVE"
    <3>1. q.userId \in Users
      BY <1>5, RowFacts DEF ReadAccount, RequestsNameTheirRow, NamesItsRow, Row
    <3>2. [q EXCEPT !.step = "spend",
                    !.permissionsVersion = users[q.userId].permissionsVersion] \in Request
      BY <2>1, <3>1 DEF TypeOK, Account, Request, Steps
    <3> QED
      BY <1>5, <2>2, <3>2, BecomeType DEF ReadAccount, TypeOK
  <2>3. CASE users[q.userId].status # "ACTIVE"
    <3>1. Revocation(q, sessions[q.sessionId].familyId, "OFFBOARDING") \in Request
      BY <2>1 DEF Revocation, Request, Steps, Reasons
    <3> QED
      BY <1>5, <2>3, <3>1, BecomeType DEF ReadAccount, TypeOK
  <2> QED
    BY <2>2, <2>3
<1>6. ASSUME NEW r \in Requests, MarkRotated(r)
      PROVE  TypeOK'
  BY <1>6, IdleType DEF MarkRotated, TypeOK, Become, Request, Steps
<1>7. ASSUME NEW r \in Requests, IssueSuccessor(r)
      PROVE  TypeOK'
  <2> DEFINE q == requests[r]
  <2>1. /\ q \in Request /\ q.sessionId \in SessionIds /\ q.userId \in Users
        /\ sessions[q.sessionId] \in Row
    BY <1>7, RowFacts DEF TypeOK, IssueSuccessor, RequestsNameTheirRow, NamesItsRow, Row
  <2>2. [sessions[q.sessionId] EXCEPT !.revokedReason = "ROTATED", !.revokedAt = q.at] \in Row
    BY <2>1 DEF Row, Reasons, Request
  <2>3. NewRow(q, sessions[q.sessionId].familyId, q.sessionId) \in Row
    BY <2>1, NewRowType DEF Row
  <2>4. sessions' \in [SessionIds -> Row \cup {None}]
    BY <1>7, <2>1, <2>2, <2>3 DEF IssueSuccessor, TypeOK
  <2> QED
    BY <1>7, <2>4, FinishType DEF IssueSuccessor, TypeOK
<1>8. ASSUME NEW r \in Requests, NEW s \in SessionIds, SignOut(r, s)
      PROVE  TypeOK'
  BY <1>8, RowFacts
     DEF SignOut, Revocation, Row, TypeOK, Become, Request, Idle, Digests, Steps, Writes, Reasons
<1>9. ASSUME NEW r \in Requests, NEW c \in SessionIds, NEW s \in SessionIds, RevokeOwn(r, c, s)
      PROVE  TypeOK'
  BY <1>9, RowFacts
     DEF RevokeOwn, Revocation, Row, TypeOK, Become, Request, Idle, Digests, Steps, Writes, Reasons
<1>10. ASSUME NEW r \in Requests, NEW s \in SessionIds, RevokeOthers(r, s)
       PROVE  TypeOK'
  <2>1. sessions[s] \in Row
    BY <1>10, RowFacts DEF RevokeOthers, Authenticates, Live
  <2>2. PICK q \in Request : Become(r, q)
    BY <1>10, <2>1
       DEF RevokeOthers, Row, TypeOK, Request, Idle, Digests, Steps, Writes, Reasons
  <2> QED
    BY <1>10, <2>2, BecomeType DEF RevokeOthers, TypeOK
<1>11. ASSUME NEW r \in Requests, NEW s \in SessionIds, ChangePassword(r, s)
       PROVE  TypeOK'
  <2>1. sessions[s] \in Row
    BY <1>11, RowFacts DEF ChangePassword, Authenticates, Live
  <2>2. PICK q \in Request : Become(r, q)
    BY <1>11, <2>1
       DEF ChangePassword, Row, TypeOK, Request, Idle, Digests, Steps, Writes, Reasons
  <2> QED
    BY <1>11, <2>2, BecomeType DEF ChangePassword, TypeOK
<1>12. ASSUME NEW r \in Requests, NEW u \in Users, ResetPassword(r, u)
       PROVE  TypeOK'
  BY <1>12 DEF ResetPassword, TypeOK, Become, Request, Idle, Digests, Steps, Writes, Reasons
<1>13. ASSUME NEW r \in Requests, NEW u \in Users, Deactivate(r, u)
       PROVE  TypeOK'
  BY <1>13 DEF Deactivate, TypeOK, Become, Request, Idle, Digests, Steps, Writes, Reasons
<1>14. ASSUME NEW r \in Requests, NEW u \in Users, Reactivate(r, u)
       PROVE  TypeOK'
  BY <1>14 DEF Reactivate, TypeOK, Become, Request, Idle, Digests, Steps, Writes
<1>15. ASSUME NEW r \in Requests, LockAccount(r)
       PROVE  TypeOK'
  <2>0. requests[r] \in Request /\ now \in Nat
    BY DEF TypeOK
  <2>1. [requests[r] EXCEPT !.step = "close", !.at = now] \in Request
    BY <2>0 DEF Request, Steps
  <2> QED
    BY <1>15, <2>1, BecomeType DEF LockAccount, TypeOK
<1>16. ASSUME NEW r \in Requests, TakeSnapshot(r)
       PROVE  TypeOK'
  <2>0. requests[r] \in Request
    BY DEF TypeOK
  <2>1. [requests[r] EXCEPT !.step = "closing",
           !.targets = {s \in SessionIds : Exists(s) /\ InScope(requests[r], sessions[s])},
           !.met = {f \in Families : Opened(f)}]
        \in Request
    BY <2>0 DEF Request, Steps
  <2> QED
    BY <1>16, <2>1, BecomeType DEF TakeSnapshot, TypeOK
<1>17. ASSUME NEW r \in Requests, WriteReactivation(r)
       PROVE  TypeOK'
  <2>1. users' \in [Users -> Account]
    BY <1>17, StatusType DEF WriteReactivation, TypeOK
  <2> QED
    BY <1>17, <2>1, FinishType DEF WriteReactivation, TypeOK
<1>18. ASSUME NEW r \in Requests, CommitRevocation(r)
       PROVE  TypeOK'
  <2> DEFINE q == requests[r]
  <2>1. q \in Request
    BY DEF TypeOK
  <2>2. ASSUME NEW s \in SessionIds
        PROVE  RowAfter(q, s) \in Row \cup {None}
    BY <2>1, <2>2, RowFacts DEF RowAfter, Row, Live, TypeOK, Request
  <2>3. ASSUME NEW account \in Account
        PROVE  AccountAfter(q, account) \in Account
    <3>1. CASE q.write = "password"
      BY <2>3, <3>1, PasswordType DEF AccountAfter, Account
    <3>2. CASE q.write = "suspend"
      BY <2>3, <3>2, StatusType DEF AccountAfter
    <3>3. CASE q.write \in {"nothing", "reactivate"}
      BY <2>3, <3>3 DEF AccountAfter
    <3> QED
      BY <2>1, <3>1, <3>2, <3>3 DEF Request, Writes
  <2>4. users' \in [Users -> Account]
    BY <1>18, <2>3 DEF CommitRevocation, TypeOK
  <2>5. proved' \in [Families -> Nat]
    <3>1. CASE q.write = "password"
      <4>1. users[q.userId].password + 1 \in Nat
        BY <3>1 DEF RequestsNameTheirRow, NamesItsRow, TypeOK, Account
      <4> QED
        BY <1>18, <4>1 DEF CommitRevocation, TypeOK
    <3>2. CASE q.write # "password"
      BY <1>18, <3>2 DEF CommitRevocation, TypeOK
    <3> QED
      BY <3>1, <3>2
  <2>6. sessions' \in [SessionIds -> Row \cup {None}]
    BY <1>18, <2>2 DEF CommitRevocation
  <2> QED
    BY <1>18, <2>4, <2>5, <2>6, FinishType DEF CommitRevocation, TypeOK
<1>19. ASSUME NEW r \in Requests, Rollback(r)
       PROVE  TypeOK'
  BY <1>19, FinishType DEF Rollback, TypeOK
<1>20. ASSUME Tick
       PROVE  TypeOK'
  BY <1>20 DEF Tick, TypeOK
<1>21. ASSUME UNCHANGED vars
       PROVE  TypeOK'
  BY <1>21 DEF vars, TypeOK
<1> QED
  BY <1>1, <1>2, <1>3, <1>4, <1>5, <1>6, <1>7, <1>8, <1>9, <1>10, <1>11, <1>12, <1>13,
     <1>14, <1>15, <1>16, <1>17, <1>18, <1>19, <1>20, <1>21 DEF Next, Receive, Advance

-----------------------------------------------------------------------------
\* Only three steps write the sessions table.
LEMMA SessionsWriters ==
  ASSUME [Next]_vars, sessions' # sessions
  PROVE  \E r \in Requests : OpenSession(r) \/ IssueSuccessor(r) \/ CommitRevocation(r)
BY DEF vars, Next, Receive, Advance, Tick, Rollback, Login, ResetPassword, Deactivate,
       Reactivate, PresentSpent, PresentLive, SignOut, RevokeOthers, ChangePassword,
       RevokeOwn, ReadAccount, MarkRotated, LockAccount, WriteReactivation, TakeSnapshot

\* What each of the three does to one row.
LEMMA OpenSessionRows ==
  ASSUME IInv, NEW r \in Requests, OpenSession(r)
  PROVE  \E s \in Unused, f \in Families :
           /\ ~Opened(f)
           /\ sessions' = [sessions EXCEPT ![s] = NewRow(requests[r], f, None)]
           /\ NewRow(requests[r], f, None) \in Row
           /\ NewRow(requests[r], f, None).familyId = f
           /\ NewRow(requests[r], f, None).rotatedFromId = None
           /\ NewRow(requests[r], f, None).userId = requests[r].userId
           /\ NewRow(requests[r], f, None).permissionsVersion = requests[r].permissionsVersion
           /\ NewRow(requests[r], f, None) # None
           /\ proved' = [proved EXCEPT ![f] = requests[r].password]
<1>1. requests[r] \in Request /\ requests[r].userId \in Users
  BY DEF OpenSession, IInv, TypeOK, RequestsNameTheirRow, NamesItsRow
<1>2. PICK s \in Unused, f \in Families :
        /\ ~Opened(f) /\ sessions' = [sessions EXCEPT ![s] = NewRow(requests[r], f, None)]
        /\ proved' = [proved EXCEPT ![f] = requests[r].password]
  BY DEF OpenSession
<1>3. NewRow(requests[r], f, None) \in Row /\ NewRow(requests[r], f, None) # None
  BY <1>1, NewRowType DEF IInv
<1>4. /\ NewRow(requests[r], f, None).familyId = f
      /\ NewRow(requests[r], f, None).rotatedFromId = None
      /\ NewRow(requests[r], f, None).userId = requests[r].userId
      /\ NewRow(requests[r], f, None).permissionsVersion = requests[r].permissionsVersion
  BY DEF NewRow
<1> QED
  BY <1>2, <1>3, <1>4

LEMMA IssueSuccessorRows ==
  ASSUME IInv, NEW r \in Requests, IssueSuccessor(r)
  PROVE  \E s \in Unused, t \in SessionIds, spent, new \in Row :
           /\ t = requests[r].sessionId /\ Live(t) /\ s # t
           /\ sessions' = [sessions EXCEPT ![t] = spent, ![s] = new]
           /\ spent # None /\ spent.revokedReason = "ROTATED"
           /\ spent.familyId = sessions[t].familyId
           /\ spent.userId = sessions[t].userId
           /\ spent.rotatedFromId = sessions[t].rotatedFromId
           /\ spent.expiresAt = sessions[t].expiresAt
           /\ spent.permissionsVersion = sessions[t].permissionsVersion
           /\ new # None /\ new.rotatedFromId = t /\ new.revokedReason = None
           /\ new.permissionsVersion = requests[r].permissionsVersion
           /\ new.familyId = sessions[t].familyId
           /\ new.userId = sessions[t].userId
<1> DEFINE q == requests[r]
           t == q.sessionId
           spent == [sessions[t] EXCEPT !.revokedReason = "ROTATED", !.revokedAt = q.at]
           new == NewRow(q, sessions[t].familyId, t)
<1>1. /\ q \in Request /\ t \in SessionIds /\ Live(t)
      /\ sessions[t].userId = q.userId
  BY DEF IssueSuccessor, IInv, TypeOK, RequestsNameTheirRow, NamesItsRow, RotationOwnsItsRow
<1>2. sessions[t] \in Row
  BY <1>1, RowFacts DEF IInv, Live
<1>3. /\ spent \in Row /\ spent.revokedReason = "ROTATED"
      /\ spent.familyId = sessions[t].familyId /\ spent.userId = sessions[t].userId
      /\ spent.rotatedFromId = sessions[t].rotatedFromId
      /\ spent.expiresAt = sessions[t].expiresAt
      /\ spent.permissionsVersion = sessions[t].permissionsVersion
  BY <1>1, <1>2 DEF Row, Reasons, Request
<1>4. /\ new \in Row /\ new # None
  BY <1>1, <1>2, NewRowType DEF IInv, Row
<1>5. /\ new.rotatedFromId = t /\ new.revokedReason = None
      /\ new.familyId = sessions[t].familyId /\ new.userId = sessions[t].userId
      /\ new.permissionsVersion = q.permissionsVersion
  BY <1>1 DEF NewRow
<1>6. PICK s \in Unused : sessions' = [sessions EXCEPT ![t] = spent, ![s] = new]
  BY DEF IssueSuccessor
<1>7. s # t
  BY <1>1 DEF Unused, Live
<1>8. spent # None
  BY <1>3, NullAssumption
<1> HIDE DEF spent, new, t
<1> QED
  BY <1>1, <1>3, <1>4, <1>5, <1>6, <1>7, <1>8 DEF t

LEMMA CommitRevocationRows ==
  ASSUME IInv, NEW r \in Requests, CommitRevocation(r), NEW s \in SessionIds,
         sessions'[s] # sessions[s]
  PROVE  /\ Live(s) /\ ~RowLocked(s)
         /\ sessions'[s] \in Row /\ sessions'[s] # None
         /\ sessions'[s].familyId = sessions[s].familyId
         /\ sessions'[s].userId = sessions[s].userId
         /\ sessions'[s].rotatedFromId = sessions[s].rotatedFromId
         /\ sessions'[s].expiresAt = sessions[s].expiresAt
         /\ sessions'[s].permissionsVersion = sessions[s].permissionsVersion
         /\ sessions'[s].revokedReason = requests[r].reason
<1>1. sessions'[s] = RowAfter(requests[r], s)
  BY DEF CommitRevocation
<1>2. /\ s \in requests[r].targets /\ Live(s) /\ ~RowLocked(s)
      /\ sessions'[s] = [sessions[s] EXCEPT !.revokedReason = requests[r].reason,
                                            !.revokedAt = requests[r].at]
  BY <1>1 DEF RowAfter, CommitRevocation
<1>3. sessions[s] \in Row /\ requests[r] \in Request
  BY <1>2, RowFacts DEF IInv, TypeOK, Live
<1>4. sessions'[s] \in Row
  BY <1>2, <1>3 DEF Row, Request
<1> QED
  BY <1>2, <1>3, <1>4, NullAssumption DEF Row

\* Rows are never deleted, never change their user, family or predecessor, and
\* a row that is no longer live is never written again; the row another
\* request is rotating is not touched.
LEMMA RowsKeep ==
  ASSUME IInv, [Next]_vars, NEW s \in SessionIds, Exists(s)
  PROVE  /\ Exists(s)'
         /\ sessions'[s].familyId = sessions[s].familyId
         /\ sessions'[s].userId = sessions[s].userId
         /\ sessions'[s].rotatedFromId = sessions[s].rotatedFromId
         /\ sessions'[s].expiresAt = sessions[s].expiresAt
         /\ sessions'[s].permissionsVersion = sessions[s].permissionsVersion
         /\ ~Live(s) => sessions'[s] = sessions[s]
<1> USE DEF Exists, Live
<1>1. CASE sessions'[s] = sessions[s]
  BY <1>1
<1>2. ASSUME NEW r \in Requests, OpenSession(r)
      PROVE  sessions'[s] = sessions[s]
  <2>1. PICK n \in Unused, row \in Row : sessions' = [sessions EXCEPT ![n] = row]
    BY <1>2, OpenSessionRows
  <2> QED
    BY <2>1 DEF Unused, IInv, TypeOK
<1>3. ASSUME NEW r \in Requests, IssueSuccessor(r), sessions'[s] # sessions[s]
      PROVE  /\ Exists(s)' /\ Live(s)
             /\ sessions'[s].familyId = sessions[s].familyId
             /\ sessions'[s].userId = sessions[s].userId
             /\ sessions'[s].rotatedFromId = sessions[s].rotatedFromId
             /\ sessions'[s].expiresAt = sessions[s].expiresAt
             /\ sessions'[s].permissionsVersion = sessions[s].permissionsVersion
  <2>1. PICK n \in Unused, t \in SessionIds, spent, new \in Row :
          /\ Live(t) /\ n # t /\ spent # None
          /\ sessions' = [sessions EXCEPT ![t] = spent, ![n] = new]
          /\ spent.familyId = sessions[t].familyId
          /\ spent.userId = sessions[t].userId
          /\ spent.rotatedFromId = sessions[t].rotatedFromId
          /\ spent.expiresAt = sessions[t].expiresAt
          /\ spent.permissionsVersion = sessions[t].permissionsVersion
    BY <1>3, IssueSuccessorRows
  <2>2. s # n
    BY DEF Unused
  <2> QED
    BY <1>3, <2>1, <2>2 DEF IInv, TypeOK
<1>4. ASSUME NEW r \in Requests, CommitRevocation(r), sessions'[s] # sessions[s]
      PROVE  /\ Exists(s)' /\ Live(s)
             /\ sessions'[s].familyId = sessions[s].familyId
             /\ sessions'[s].userId = sessions[s].userId
             /\ sessions'[s].rotatedFromId = sessions[s].rotatedFromId
             /\ sessions'[s].expiresAt = sessions[s].expiresAt
             /\ sessions'[s].permissionsVersion = sessions[s].permissionsVersion
  BY <1>4, CommitRevocationRows
<1> QED
  BY <1>1, <1>2, <1>3, <1>4, SessionsWriters

\* A family keeps at most one live row.
LEMMA OneLiveRowStep ==
  ASSUME IInv, [Next]_vars
  PROVE  OneLiveRowPerFamily'
<1> USE DEF Exists, Live
<1>1. CASE sessions' = sessions
  BY <1>1 DEF IInv, OneLiveRowPerFamily
<1>2. ASSUME NEW r \in Requests, OpenSession(r)
      PROVE  OneLiveRowPerFamily'
  <2>1. PICK n \in Unused, f \in Families :
          /\ ~Opened(f)
          /\ sessions' = [sessions EXCEPT ![n] = NewRow(requests[r], f, None)]
          /\ NewRow(requests[r], f, None).familyId = f
    BY <1>2, OpenSessionRows
  <2>2. \A s \in SessionIds \ {n} :
          sessions'[s] = sessions[s] /\ (Exists(s) => sessions[s].familyId # f)
    BY <2>1 DEF Opened, IInv, TypeOK
  <2>3. sessions'[n].familyId = f
    BY <2>1 DEF Unused, IInv, TypeOK
  <2> QED
    BY <2>2, <2>3 DEF IInv, OneLiveRowPerFamily
<1>3. ASSUME NEW r \in Requests, IssueSuccessor(r)
      PROVE  OneLiveRowPerFamily'
  <2>1. PICK n \in Unused, t \in SessionIds, spent, new \in Row :
          /\ Live(t) /\ n # t
          /\ sessions' = [sessions EXCEPT ![t] = spent, ![n] = new]
          /\ spent # None /\ spent.revokedReason = "ROTATED"
          /\ new.familyId = sessions[t].familyId
    BY <1>3, IssueSuccessorRows
  <2>2. /\ \A s \in SessionIds \ {n, t} : sessions'[s] = sessions[s]
        /\ sessions'[t] = spent /\ sessions'[n] = new
    BY <2>1 DEF Unused, IInv, TypeOK
  <2>3. ~Live(t)'
    BY <2>1, <2>2, NullAssumption DEF Reasons
  <2>4. \A s \in SessionIds \ {n, t} : Live(s) => sessions[s].familyId # sessions[t].familyId
    BY <2>1 DEF IInv, OneLiveRowPerFamily
  <2> QED
    BY <2>1, <2>2, <2>3, <2>4 DEF IInv, OneLiveRowPerFamily
<1>4. ASSUME NEW r \in Requests, CommitRevocation(r)
      PROVE  OneLiveRowPerFamily'
  <2>1. \A s \in SessionIds :
          Live(s)' => Live(s) /\ sessions'[s].familyId = sessions[s].familyId
    BY <1>4, CommitRevocationRows
  <2> QED
    BY <2>1 DEF IInv, OneLiveRowPerFamily
<1> QED
  BY <1>1, <1>2, <1>3, <1>4, SessionsWriters

\* The successor of a row is inserted together with the spending of that row.
LEMMA ChainStep ==
  ASSUME IInv, [Next]_vars
  PROVE  ChainIsClosed' /\ ChainNeverForks'
<1> USE DEF Exists, Live
<1>1. CASE sessions' = sessions
  BY <1>1 DEF IInv, ChainIsClosed, ChainNeverForks
<1>2. ASSUME NEW r \in Requests, OpenSession(r)
      PROVE  ChainIsClosed' /\ ChainNeverForks'
  <2>1. PICK n \in Unused, row \in Row :
          /\ sessions' = [sessions EXCEPT ![n] = row]
          /\ row.rotatedFromId = None /\ row # None
    BY <1>2, OpenSessionRows
  <2>2. /\ \A s \in SessionIds \ {n} : sessions'[s] = sessions[s]
        /\ sessions'[n] = row /\ n \in SessionIds /\ ~Exists(n)
    BY <2>1 DEF Unused, IInv, TypeOK
  <2>3. \A s \in SessionIds : Exists(s) => sessions[s].rotatedFromId # n
    BY <2>2, NullAssumption DEF IInv, ChainIsClosed
  <2>4. ChainIsClosed'
    BY <2>1, <2>2 DEF IInv, ChainIsClosed
  <2>5. ChainNeverForks'
    BY <2>1, <2>2, <2>3, NullAssumption DEF IInv, ChainNeverForks
  <2> QED
    BY <2>4, <2>5
<1>3. ASSUME NEW r \in Requests, IssueSuccessor(r)
      PROVE  ChainIsClosed' /\ ChainNeverForks'
  <2>1. PICK n \in Unused, t \in SessionIds, spent, new \in Row :
          /\ Live(t) /\ n # t
          /\ sessions' = [sessions EXCEPT ![t] = spent, ![n] = new]
          /\ spent # None /\ spent.revokedReason = "ROTATED"
          /\ spent.familyId = sessions[t].familyId
          /\ spent.userId = sessions[t].userId
          /\ spent.rotatedFromId = sessions[t].rotatedFromId
          /\ new # None /\ new.rotatedFromId = t
          /\ new.familyId = sessions[t].familyId
          /\ new.userId = sessions[t].userId
    BY <1>3, IssueSuccessorRows
  <2>2. /\ \A s \in SessionIds \ {n, t} : sessions'[s] = sessions[s]
        /\ sessions'[t] = spent /\ sessions'[n] = new
        /\ n \in SessionIds /\ ~Exists(n)
    BY <2>1 DEF Unused, IInv, TypeOK
  <2>3. \A s \in SessionIds : Exists(s) => sessions[s].rotatedFromId # n
    BY <2>2, NullAssumption DEF IInv, ChainIsClosed
  <2>4. \A s \in SessionIds : Exists(s) => sessions[s].rotatedFromId # t
    BY <2>1, NullAssumption DEF IInv, ChainNeverForks, Reasons
  <2>5. /\ \A s \in SessionIds : Exists(s)' <=> Exists(s) \/ s = n
        /\ \A s \in SessionIds : Exists(s) =>
             /\ sessions'[s].familyId = sessions[s].familyId
             /\ sessions'[s].userId = sessions[s].userId
             /\ sessions'[s].rotatedFromId = sessions[s].rotatedFromId
             /\ ~Live(s) => sessions'[s] = sessions[s]
        /\ sessions'[t].revokedReason = "ROTATED" /\ t \in SessionIds
        /\ sessions'[n].rotatedFromId = t /\ Exists(t) /\ t # None
        /\ sessions'[n].familyId = sessions[t].familyId
        /\ sessions'[n].userId = sessions[t].userId
    BY <2>1, <2>2, NullAssumption
  <2>6. ChainIsClosed'
    <3>1. ASSUME NEW s \in SessionIds, Exists(s)', sessions'[s].rotatedFromId # None
          PROVE  (sessions[s].rotatedFromId \in SessionIds /\ Exists(sessions[s].rotatedFromId))'
      <4>1. CASE s = n
        BY <2>5, <4>1
      <4>2. CASE s # n
        <5>1. Exists(s) /\ sessions'[s].rotatedFromId = sessions[s].rotatedFromId
          BY <2>5, <3>1, <4>2
        <5>2. sessions[s].rotatedFromId \in SessionIds /\ Exists(sessions[s].rotatedFromId)
          BY <3>1, <5>1 DEF IInv, ChainIsClosed
        <5> QED
          BY <2>5, <5>1, <5>2
      <4> QED
        BY <4>1, <4>2
    <3> QED
      BY <3>1 DEF ChainIsClosed
  <2>7. ASSUME NEW s \in SessionIds, NEW v \in SessionIds,
               Exists(s)', Exists(v)', sessions'[v].rotatedFromId = s
        PROVE  /\ sessions'[s].revokedReason = "ROTATED"
               /\ sessions'[s].familyId = sessions'[v].familyId
               /\ sessions'[s].userId = sessions'[v].userId
               /\ \A w \in SessionIds : Exists(w)' /\ sessions'[w].rotatedFromId = s => w = v
    <3>1. CASE v = n
      <4>1. s = t
        BY <2>5, <2>7, <3>1
      <4>2. \A w \in SessionIds : Exists(w)' /\ sessions'[w].rotatedFromId = t => w = n
        BY <2>4, <2>5
      <4> QED
        BY <2>5, <3>1, <4>1, <4>2
    <3>2. CASE v # n
      <4>1. Exists(v) /\ sessions[v].rotatedFromId = s
        BY <2>5, <2>7, <3>2
      <4>2. Exists(s) /\ s # n
        BY <2>3, <2>5, <2>7, <4>1
      <4>3. /\ sessions[s].revokedReason = "ROTATED"
            /\ sessions[s].familyId = sessions[v].familyId
            /\ sessions[s].userId = sessions[v].userId
            /\ \A w \in SessionIds : Exists(w) /\ sessions[w].rotatedFromId = s => w = v
        BY <4>1, <4>2 DEF IInv, ChainNeverForks
      <4>4. sessions'[s] = sessions[s] /\ s # t
        BY <2>4, <2>5, <4>1, <4>2, <4>3, NullAssumption DEF Reasons
      <4> QED
        BY <2>5, <4>1, <4>3, <4>4
    <3> QED
      BY <3>1, <3>2
  <2>8. ChainNeverForks'
    BY <2>7 DEF ChainNeverForks
  <2> QED
    BY <2>6, <2>8
<1>4. ASSUME NEW r \in Requests, CommitRevocation(r)
      PROVE  ChainIsClosed' /\ ChainNeverForks'
  <2>1. \A s \in SessionIds :
          /\ Exists(s)' <=> Exists(s)
          /\ Exists(s) => /\ sessions'[s].familyId = sessions[s].familyId
                          /\ sessions'[s].userId = sessions[s].userId
                          /\ sessions'[s].rotatedFromId = sessions[s].rotatedFromId
          /\ ~Live(s) => sessions'[s] = sessions[s]
    BY <1>4, CommitRevocationRows
  <2>2. ChainIsClosed'
    BY <2>1 DEF IInv, ChainIsClosed
  <2>3. ChainNeverForks'
    BY <2>1, NullAssumption DEF IInv, ChainNeverForks, Reasons
  <2> QED
    BY <2>2, <2>3
<1> QED
  BY <1>1, <1>2, <1>3, <1>4, SessionsWriters

\* A row under rotation is left alone by everybody else.
LEMMA LockedRowKeeps ==
  ASSUME IInv, [Next]_vars, NEW p \in Requests, requests[p].step = "issue",
         ~IssueSuccessor(p)
  PROVE  sessions'[requests[p].sessionId] = sessions[requests[p].sessionId]
<1> DEFINE s == requests[p].sessionId
<1>1. s \in SessionIds /\ Exists(s) /\ RowLocked(s)
  BY DEF IInv, RequestsNameTheirRow, NamesItsRow, RowLocked
<1>2. ASSUME NEW r \in Requests, OpenSession(r)
      PROVE  sessions'[s] = sessions[s]
  BY <1>1, <1>2, OpenSessionRows DEF Unused, IInv, TypeOK
<1>3. ASSUME NEW r \in Requests, IssueSuccessor(r)
      PROVE  sessions'[s] = sessions[s]
  <2>1. PICK n \in Unused, spent, new \in Row :
          sessions' = [sessions EXCEPT ![requests[r].sessionId] = spent, ![n] = new]
    BY <1>3, IssueSuccessorRows
  <2>2. s # n /\ s # requests[r].sessionId
    BY <1>1, <1>3 DEF Unused, IssueSuccessor, IInv, RotationOwnsItsRow
  <2> QED
    BY <1>1, <2>1, <2>2 DEF IInv, TypeOK
<1>4. ASSUME NEW r \in Requests, CommitRevocation(r)
      PROVE  sessions'[s] = sessions[s]
  BY <1>1, <1>4, CommitRevocationRows
<1> QED
  BY <1>2, <1>3, <1>4, SessionsWriters

\* A request that moves on, other than to hold a row, takes nothing from the
\* rest.
LEMMA MovesOn ==
  ASSUME IInv, [Next]_vars, NEW r \in Requests,
         \A p \in Requests \ {r} : requests'[p] = requests[p],
         NamesItsRow(requests'[r]), requests'[r].step # "issue"
  PROVE  RequestsNameTheirRow' /\ RotationOwnsItsRow'
<1>1. ASSUME NEW p \in Requests
      PROVE  NamesItsRow(requests[p])'
  <2>1. NamesItsRow(requests'[p])
    BY DEF IInv, RequestsNameTheirRow
  <2> QED
    BY <2>1, RowsKeep DEF NamesItsRow
<1>2. ASSUME NEW p \in Requests, requests'[p].step = "issue"
      PROVE  /\ Live(requests[p].sessionId)'
             /\ \A v \in Requests \ {p} :
                  requests'[v].step = "issue" => requests'[v].sessionId # requests'[p].sessionId
  <2>1. p # r /\ requests'[p] = requests[p]
    BY <1>2
  <2>2. ~IssueSuccessor(p)
    BY <1>2, <2>1, FinishType DEF IInv, IssueSuccessor, Idle
  <2>3. sessions'[requests[p].sessionId] = sessions[requests[p].sessionId]
    BY <1>2, <2>1, <2>2, LockedRowKeeps
  <2> QED
    BY <1>2, <2>1, <2>3 DEF IInv, RotationOwnsItsRow, Live, Exists
<1> QED
  BY <1>1, <1>2 DEF RequestsNameTheirRow, RotationOwnsItsRow

\* A request that ends holds nothing.
LEMMA Ends ==
  ASSUME IInv, [Next]_vars, NEW r \in Requests, Finish(r)
  PROVE  RequestsNameTheirRow' /\ RotationOwnsItsRow'
<1>1. NamesItsRow(Idle) /\ Idle.step # "issue"
  BY DEF NamesItsRow, Idle
<1>2. requests'[r] = Idle /\ \A p \in Requests \ {r} : requests'[p] = requests[p]
  BY FinishType DEF IInv
<1> QED
  BY <1>1, <1>2, MovesOn

\* Requests keep naming their rows, and a row is rotated by one request at a
\* time: only MarkRotated takes one, after the row lock is free.
LEMMA RequestsStep ==
  ASSUME IInv, [Next]_vars
  PROVE  RequestsNameTheirRow' /\ RotationOwnsItsRow'
<1> DEFINE Kept == RequestsNameTheirRow' /\ RotationOwnsItsRow'
<1>0. /\ TypeOK
      /\ \A r \in Requests : NamesItsRow(requests[r]) /\ requests[r] \in Request
  BY DEF IInv, RequestsNameTheirRow, TypeOK
<1>1. ASSUME NEW r \in Requests, NEW u \in Users,
             Login(r, u) \/ ResetPassword(r, u) \/ Deactivate(r, u) \/ Reactivate(r, u)
      PROVE  Kept
  <2>1. /\ \A p \in Requests \ {r} : requests'[p] = requests[p]
        /\ requests'[r].userId = u /\ requests'[r].step \in {"open", "write"}
    <3>1. CASE Login(r, u)
      BY <1>0, <3>1 DEF Become, TypeOK, Login, Idle
    <3>2. CASE ResetPassword(r, u)
      BY <1>0, <3>2 DEF Become, TypeOK, ResetPassword, Idle
    <3>3. CASE Deactivate(r, u)
      BY <1>0, <3>3 DEF Become, TypeOK, Deactivate, Idle
    <3>4. CASE Reactivate(r, u)
      BY <1>0, <3>4 DEF Become, TypeOK, Reactivate, Idle
    <3> QED
      BY <1>1, <3>1, <3>2, <3>3, <3>4
  <2>3. NamesItsRow(requests'[r]) /\ requests'[r].step # "issue"
    BY <2>1 DEF NamesItsRow
  <2> QED
    BY <2>1, <2>3, MovesOn
<1>2. ASSUME NEW r \in Requests, NEW s \in SessionIds,
             PresentSpent(r, s) \/ SignOut(r, s) \/ RevokeOthers(r, s)
      PROVE  Kept
  <2>1. /\ \A p \in Requests \ {r} : requests'[p] = requests[p]
        /\ requests'[r].write = "nothing" /\ requests'[r].step = "close"
    <3>1. CASE PresentSpent(r, s)
      BY <1>0, <3>1 DEF Become, TypeOK, PresentSpent, Revocation, Idle
    <3>2. CASE SignOut(r, s)
      BY <1>0, <3>2 DEF Become, TypeOK, SignOut, Revocation, Idle
    <3>3. CASE RevokeOthers(r, s)
      BY <1>0, <3>3 DEF Become, TypeOK, RevokeOthers, Idle
    <3> QED
      BY <1>2, <3>1, <3>2, <3>3
  <2>3. NamesItsRow(requests'[r]) /\ requests'[r].step # "issue"
    BY <2>1 DEF NamesItsRow
  <2> QED
    BY <2>1, <2>3, MovesOn
<1>3. ASSUME NEW r \in Requests, NEW c \in SessionIds, NEW s \in SessionIds, RevokeOwn(r, c, s)
      PROVE  Kept
  <2>1. /\ \A p \in Requests \ {r} : requests'[p] = requests[p]
        /\ requests'[r].write = "nothing" /\ requests'[r].step = "close"
    BY <1>0, <1>3 DEF Become, TypeOK, RevokeOwn, Revocation, Idle
  <2>3. NamesItsRow(requests'[r]) /\ requests'[r].step # "issue"
    BY <2>1 DEF NamesItsRow
  <2> QED
    BY <2>1, <2>3, MovesOn
<1>4. ASSUME NEW r \in Requests, NEW s \in SessionIds, ChangePassword(r, s)
      PROVE  Kept
  <2>1. /\ \A p \in Requests \ {r} : requests'[p] = requests[p]
        /\ requests'[r].userId = sessions[s].userId /\ requests'[r].step = "write"
    BY <1>0, <1>4 DEF Become, TypeOK, ChangePassword, Idle
  <2>2. requests'[r].userId \in Users
    BY <1>0, <1>4, <2>1, RowFacts DEF ChangePassword, Authenticates, Live, Row
  <2>3. NamesItsRow(requests'[r]) /\ requests'[r].step # "issue"
    BY <2>1, <2>2 DEF NamesItsRow
  <2> QED
    BY <2>1, <2>3, MovesOn
<1>5. ASSUME NEW r \in Requests, NEW s \in SessionIds, PresentLive(r, s)
      PROVE  Kept
  <2>1. /\ \A p \in Requests \ {r} : requests'[p] = requests[p]
        /\ requests'[r].write = "nothing" /\ requests'[r].step = "account"
        /\ requests'[r].sessionId = s /\ requests'[r].userId = sessions[s].userId
    BY <1>0, <1>5 DEF Become, TypeOK, PresentLive, Idle
  <2>3. NamesItsRow(requests'[r]) /\ requests'[r].step # "issue"
    BY <1>5, <2>1 DEF NamesItsRow, PresentLive, Live
  <2> QED
    BY <2>1, <2>3, MovesOn
<1>6. ASSUME NEW r \in Requests, ReadAccount(r)
      PROVE  Kept
  <2>1. /\ \A p \in Requests \ {r} : requests'[p] = requests[p]
        /\ requests'[r].step \in {"spend", "close"}
        /\ requests'[r].write = requests[r].write
        /\ requests'[r].sessionId = requests[r].sessionId
        /\ requests'[r].userId = requests[r].userId
    BY <1>0, <1>6 DEF Become, TypeOK, ReadAccount, Revocation, Request
  <2>3. NamesItsRow(requests'[r]) /\ requests'[r].step # "issue"
    BY <1>0, <1>6, <2>1 DEF NamesItsRow, ReadAccount
  <2> QED
    BY <2>1, <2>3, MovesOn
<1>7. ASSUME NEW r \in Requests, LockAccount(r) \/ TakeSnapshot(r)
      PROVE  Kept
  <2>1. /\ \A p \in Requests \ {r} : requests'[p] = requests[p]
        /\ requests'[r].step \in {"close", "closing"}
        /\ requests'[r].write = requests[r].write /\ requests'[r].userId = requests[r].userId
    <3>1. CASE LockAccount(r)
      BY <1>0, <3>1 DEF Become, TypeOK, LockAccount, Request
    <3>2. CASE TakeSnapshot(r)
      BY <1>0, <3>2 DEF Become, TypeOK, TakeSnapshot, Request
    <3> QED
      BY <1>7, <3>1, <3>2
  <2>3. NamesItsRow(requests'[r]) /\ requests'[r].step # "issue"
    BY <1>0, <2>1 DEF NamesItsRow
  <2> QED
    BY <2>1, <2>3, MovesOn
<1>8. ASSUME NEW r \in Requests, MarkRotated(r)
      PROVE  Kept
  <2>1. CASE Live(requests[r].sessionId)
    <3> DEFINE q == [requests[r] EXCEPT !.step = "issue"]
    <3>1. /\ q \in Request /\ q.step = "issue" /\ q.write = requests[r].write
          /\ q.userId = requests[r].userId /\ q.sessionId = requests[r].sessionId
      BY <1>0 DEF Request, Steps
    <3>2. Become(r, q) /\ UNCHANGED sessions /\ requests[r].step = "spend"
      BY <1>8, <2>1 DEF MarkRotated
    <3> HIDE DEF q
    <3>3. requests'[r] = q /\ \A p \in Requests \ {r} : requests'[p] = requests[p]
      BY <1>0, <3>1, <3>2, BecomeType
    <3>4. NamesItsRow(q)
      BY <1>0, <3>1, <3>2 DEF NamesItsRow
    <3>5. \A p \in Requests : NamesItsRow(requests[p])'
      BY <1>0, <3>2, <3>3, <3>4 DEF NamesItsRow, Exists
    <3>6. \A p \in Requests : requests[p].step = "issue" =>
                              requests[p].sessionId # requests[r].sessionId
      BY <1>8 DEF MarkRotated, RowLocked
    <3>7. RotationOwnsItsRow'
      BY <2>1, <3>1, <3>2, <3>3, <3>6 DEF IInv, RotationOwnsItsRow, Live, Exists
    <3> QED
      BY <3>5, <3>7 DEF RequestsNameTheirRow
  <2>2. CASE ~Live(requests[r].sessionId)
    BY <1>8, <2>2, Ends DEF MarkRotated, Finish
  <2> QED
    BY <2>1, <2>2
<1>9. ASSUME NEW r \in Requests,
             \/ OpenSession(r) \/ IssueSuccessor(r) \/ CommitRevocation(r)
             \/ WriteReactivation(r) \/ Rollback(r)
      PROVE  Kept
  BY <1>9, Ends DEF OpenSession, IssueSuccessor, CommitRevocation, WriteReactivation, Rollback
<1>10. ASSUME UNCHANGED <<sessions, requests>>
       PROVE  Kept
  BY <1>0, <1>10
     DEF IInv, RequestsNameTheirRow, NamesItsRow, RotationOwnsItsRow, Live, Exists
<1> QED
  BY <1>1, <1>2, <1>3, <1>4, <1>5, <1>6, <1>7, <1>8, <1>9, <1>10
     DEF Next, Receive, Advance, Tick, vars

-----------------------------------------------------------------------------
\* The invariant is inductive.
LEMMA Inductive ==
  Spec => []IInv
<1>1. Init => IInv
  <2> SUFFICES ASSUME Init
               PROVE  IInv
    OBVIOUS
  <2>1. TypeOK
    BY IdleType DEF Init, TypeOK, Account, Digests
  <2>2. \A s \in SessionIds : ~Exists(s)
    BY DEF Init, Exists
  <2>3. \A r \in Requests : requests[r] = Idle
    BY DEF Init
  <2> QED
    BY <2>1, <2>2, <2>3
       DEF IInv, RequestsNameTheirRow, NamesItsRow, RotationOwnsItsRow, Idle,
           OneLiveRowPerFamily, ChainIsClosed, ChainNeverForks, Live
<1>2. IInv /\ [Next]_vars => IInv'
  BY TypeStep, RequestsStep, OneLiveRowStep, ChainStep DEF IInv
<1> QED
  BY <1>1, <1>2, PTL DEF Spec

\* Rows and requests are well-formed, whatever happens.
THEOREM TypeCorrect == Spec => []TypeOK
BY Inductive, PTL DEF IInv

\* Two requests holding one token cannot both rotate it, so a family never has
\* two live rows (markRotated, session.repository.ts).
THEOREM OneLiveRow == Spec => []OneLiveRowPerFamily
BY Inductive, PTL DEF IInv

\* A token has at most one successor, and was spent by that rotation.
THEOREM ChainIsALine == Spec => []ChainNeverForks
BY Inductive, PTL DEF IInv

\* A closed row is never written again: the reason it was closed for stays.
THEOREM RevokedRowsStay == Spec => RevocationIsFinal
<1>1. IInv /\ [Next]_vars =>
        [\A s \in SessionIds : Exists(s) /\ ~Live(s) => sessions'[s] = sessions[s]]_vars
  BY RowsKeep
<1> QED
  BY <1>1, Inductive, PTL DEF Spec, RevocationIsFinal

-----------------------------------------------------------------------------
(* The transactions implement the token family.                            *)

\* A new row is a token nobody was issued, and opens a family.
LEMMA OpenSessionOpens ==
  ASSUME IInv, NEW r \in Requests, OpenSession(r)
  PROVE  TokenFamilies!Next
<1>1. PICK n \in Unused, f \in Families :
        /\ ~Opened(f)
        /\ sessions' = [sessions EXCEPT ![n] = NewRow(requests[r], f, None)]
        /\ NewRow(requests[r], f, None) # None
        /\ NewRow(requests[r], f, None).familyId = f
        /\ NewRow(requests[r], f, None).revokedReason = None
  BY OpenSessionRows DEF NewRow
<1>2. /\ n \in SessionIds /\ ~Exists(n)
      /\ \A s \in SessionIds \ {n} : sessions'[s] = sessions[s]
      /\ sessions'[n] # None /\ sessions'[n].familyId = f
      /\ sessions'[n].revokedReason = None
  BY <1>1 DEF Unused, IInv, TypeOK
<1>3. LiveOf(f) = {} /\ SpentOf(f) = {}
  BY <1>1 DEF LiveOf, SpentOf, Opened, Live
<1>4. \A g \in Families : n \notin LiveOf(g) /\ n \notin SpentOf(g)
  BY <1>2 DEF LiveOf, SpentOf, Live
<1>5. \A g \in Families :
        /\ LiveOf(g)' = IF g = f THEN {n} ELSE LiveOf(g)
        /\ SpentOf(g)' = SpentOf(g)
  <2> TAKE g \in Families
  <2>1. \A s \in SessionIds : (Live(s) /\ sessions[s].familyId = g)' <=>
          (Live(s) /\ sessions[s].familyId = g) \/ (s = n /\ g = f)
    BY <1>2 DEF Live, Exists
  <2>2. \A s \in SessionIds : (Exists(s) /\ ~Live(s) /\ sessions[s].familyId = g)' <=>
          Exists(s) /\ ~Live(s) /\ sessions[s].familyId = g
    BY <1>2 DEF Live, Exists
  <2> QED
    BY <1>2, <1>3, <2>1, <2>2 DEF LiveOf, SpentOf
<1>6. TokenFamilies!Open(f, n)
  BY <1>3, <1>4, <1>5 DEF TokenFamilies!Open, TokenFamilies!Issued
<1> QED
  BY <1>2, <1>6 DEF TokenFamilies!Next

\* The spent row and its successor are one exchange.
LEMMA IssueSuccessorExchanges ==
  ASSUME IInv, NEW r \in Requests, IssueSuccessor(r)
  PROVE  TokenFamilies!Next
<1>1. PICK n \in Unused, t \in SessionIds, spent, new \in Row :
        /\ Live(t) /\ n # t
        /\ sessions' = [sessions EXCEPT ![t] = spent, ![n] = new]
        /\ spent # None /\ spent.revokedReason = "ROTATED"
        /\ spent.familyId = sessions[t].familyId
        /\ new # None /\ new.revokedReason = None
        /\ new.familyId = sessions[t].familyId
  BY IssueSuccessorRows
<1> DEFINE f == sessions[t].familyId
<1>2. /\ n \in SessionIds /\ ~Exists(n) /\ f \in Families
      /\ \A s \in SessionIds \ {n, t} : sessions'[s] = sessions[s]
      /\ sessions'[n] # None /\ sessions'[n].familyId = f
      /\ sessions'[n].revokedReason = None
      /\ sessions'[t] # None /\ sessions'[t].familyId = f
      /\ sessions'[t].revokedReason # None
  BY <1>1, RowFacts, NullAssumption DEF Unused, IInv, TypeOK, Row, Live, Reasons
<1>3. LiveOf(f) = {t}
  BY <1>1 DEF LiveOf, IInv, OneLiveRowPerFamily
<1>4. \A g \in Families : n \notin LiveOf(g) /\ n \notin SpentOf(g)
  BY <1>2 DEF LiveOf, SpentOf, Live
<1>5. \A g \in Families :
        /\ LiveOf(g)' = IF g = f THEN {n} ELSE LiveOf(g)
        /\ SpentOf(g)' = IF g = f THEN SpentOf(g) \cup {t} ELSE SpentOf(g)
  <2> TAKE g \in Families
  <2>1. \A s \in SessionIds : (Live(s) /\ sessions[s].familyId = g)' <=>
          (Live(s) /\ sessions[s].familyId = g /\ s # t) \/ (s = n /\ g = f)
    BY <1>2 DEF Live, Exists
  <2>2. \A s \in SessionIds : (Exists(s) /\ ~Live(s) /\ sessions[s].familyId = g)' <=>
          (Exists(s) /\ ~Live(s) /\ sessions[s].familyId = g) \/ (s = t /\ g = f)
    BY <1>1, <1>2 DEF Live, Exists
  <2>3. g # f => t \notin LiveOf(g)
    BY DEF LiveOf
  <2> HIDE DEF f
  <2> QED
    BY <1>2, <1>3, <2>1, <2>2, <2>3 DEF LiveOf, SpentOf
<1> HIDE DEF f
<1>6. TokenFamilies!Exchange(f, t, n)
  BY <1>2, <1>3, <1>4, <1>5 DEF TokenFamilies!Exchange, TokenFamilies!Issued
<1> QED
  BY <1>2, <1>6 DEF TokenFamilies!Next

\* A revocation closes the families whose live row it reaches.
LEMMA CommitRevocationCloses ==
  ASSUME IInv, NEW r \in Requests, CommitRevocation(r)
  PROVE  TokenFamilies!Next
<1> DEFINE closed == {f \in Families : LiveOf(f)' # LiveOf(f)}
<1>1. \A s \in SessionIds :
        /\ Exists(s)' <=> Exists(s)
        /\ Exists(s) => sessions'[s].familyId = sessions[s].familyId
        /\ Live(s)' => Live(s)
  BY CommitRevocationRows DEF Live, Exists
<1>2. ASSUME NEW f \in Families, f \in closed
      PROVE  LiveOf(f)' = {} /\ SpentOf(f)' = SpentOf(f) \cup LiveOf(f)
  <2>1. PICK s \in SessionIds : LiveOf(f) = {s} /\ LiveOf(f)' = {}
    BY <1>1, <1>2 DEF LiveOf, IInv, OneLiveRowPerFamily, Live
  <2> QED
    BY <1>1, <2>1 DEF LiveOf, SpentOf, Live
<1>3. ASSUME NEW f \in Families, f \notin closed
      PROVE  LiveOf(f)' = LiveOf(f) /\ SpentOf(f)' = SpentOf(f)
  BY <1>1, <1>3 DEF LiveOf, SpentOf, Live
<1>4. closed \in SUBSET Families
  OBVIOUS
<1>5. TokenFamilies!Close(closed)
  <2> HIDE DEF closed
  <2> QED
    BY <1>2, <1>3 DEF TokenFamilies!Close
<1> QED
  BY <1>4, <1>5 DEF TokenFamilies!Next

LEMMA InitImplements ==
  Init => TokenFamilies!Init
BY DEF Init, TokenFamilies!Init, LiveOf, SpentOf, Live, Exists

LEMMA StepImplements ==
  IInv /\ [Next]_vars => [TokenFamilies!Next]_TokenFamilies!vars
<1> SUFFICES ASSUME IInv, [Next]_vars
             PROVE  [TokenFamilies!Next]_TokenFamilies!vars
  OBVIOUS
<1>1. CASE sessions' = sessions
  <2>1. \A f \in Families : LiveOf(f)' = LiveOf(f) /\ SpentOf(f)' = SpentOf(f)
    BY <1>1 DEF LiveOf, SpentOf, Live, Exists
  <2> QED
    BY <2>1 DEF TokenFamilies!vars
<1>2. CASE sessions' # sessions
  BY <1>2, SessionsWriters, OpenSessionOpens, IssueSuccessorExchanges, CommitRevocationCloses
<1> QED
  BY <1>1, <1>2

\* Whatever the interleaving of sign-ins, refreshes, sign-outs, password changes,
\* resets, suspensions and rollbacks, each family exchanges one token at a time
\* and each token once.
THEOREM SessionsImplementTokenFamilies == Spec => ImplementsTokenFamilies
BY InitImplements, StepImplements, Inductive, PTL
   DEF Spec, ImplementsTokenFamilies, TokenFamilies!Spec

\* Closing a device is for good: no request still under way brings a family
\* back once none of its rows is live.
THEOREM ClosedIsClosed == Spec => ClosedFamilyStaysClosed
<1>1. ASSUME IInv, [Next]_vars, NEW f \in Families, Opened(f), LiveOf(f) = {}
      PROVE  LiveOf(f)' = {}
  <2>1. CASE sessions' = sessions
    BY <1>1, <2>1 DEF LiveOf, Live, Exists
  <2>2. ASSUME NEW r \in Requests, OpenSession(r)
        PROVE  LiveOf(f)' = {}
    <3>1. PICK n \in Unused, g \in Families :
            /\ ~Opened(g)
            /\ sessions' = [sessions EXCEPT ![n] = NewRow(requests[r], g, None)]
            /\ NewRow(requests[r], g, None).familyId = g
      BY <1>1, <2>2, OpenSessionRows
    <3>2. /\ \A s \in SessionIds \ {n} : sessions'[s] = sessions[s]
          /\ sessions'[n].familyId = g /\ g # f
      BY <1>1, <3>1 DEF Unused, IInv, TypeOK
    <3> QED
      BY <1>1, <3>2 DEF LiveOf, Live, Exists
  <2>3. ASSUME NEW r \in Requests, IssueSuccessor(r)
        PROVE  LiveOf(f)' = {}
    <3>1. PICK n \in Unused, t \in SessionIds, spent, new \in Row :
            /\ Live(t) /\ n # t
            /\ sessions' = [sessions EXCEPT ![t] = spent, ![n] = new]
            /\ spent.familyId = sessions[t].familyId
            /\ new.familyId = sessions[t].familyId
      BY <1>1, <2>3, IssueSuccessorRows
    <3>2. /\ \A s \in SessionIds \ {n, t} : sessions'[s] = sessions[s]
          /\ sessions'[n].familyId = sessions[t].familyId
          /\ sessions'[t].familyId = sessions[t].familyId
          /\ sessions[t].familyId # f
      BY <1>1, <3>1 DEF Unused, IInv, TypeOK, LiveOf
    <3> QED
      BY <1>1, <3>2 DEF LiveOf, Live, Exists
  <2>4. ASSUME NEW r \in Requests, CommitRevocation(r)
        PROVE  LiveOf(f)' = {}
    <3>1. \A s \in SessionIds :
            Live(s)' => Live(s) /\ sessions'[s].familyId = sessions[s].familyId
      BY <1>1, <2>4, CommitRevocationRows DEF Live, Exists
    <3> QED
      BY <1>1, <3>1 DEF LiveOf
  <2> QED
    BY <1>1, <2>1, <2>2, <2>3, <2>4, SessionsWriters
<1>2. IInv /\ [Next]_vars =>
        [\A f \in Families : Opened(f) /\ LiveOf(f) = {} => LiveOf(f)' = {}]_vars
  BY <1>1
<1> QED
  BY <1>2, Inductive, PTL DEF Spec, ClosedFamilyStaysClosed

-----------------------------------------------------------------------------
(* A token that is refused stays refused.                                  *)

\* A version an account has reached, and has left behind if it is suspended.
Behind(version, u) ==
  /\ version <= users[u].permissionsVersion
  /\ users[u].status = "SUSPENDED" => version < users[u].permissionsVersion

\* No row, and no row about to be inserted, carries a version its account has yet to reach, or
\* one that was in force since it was suspended.
VersionsLag ==
  /\ \A s \in SessionIds : Exists(s) =>
       Behind(sessions[s].permissionsVersion, sessions[s].userId)
  /\ \A r \in Requests : requests[r].step \in {"open", "spend", "issue"} =>
       Behind(requests[r].permissionsVersion, requests[r].userId)

\* A request at work on an account names one.
LEMMA AtWorkOn ==
  ASSUME IInv, NEW r \in Requests,
         requests[r].step \in {"open", "account", "spend", "issue"} \/ requests[r].write # "nothing"
  PROVE  /\ requests[r].userId \in Users
         /\ requests[r] \in Request
         /\ users[requests[r].userId] \in Account
BY RowFacts DEF IInv, TypeOK, RequestsNameTheirRow, NamesItsRow, Row

\* The users table is written by three steps.
LEMMA UsersWriters ==
  ASSUME [Next]_vars, <<users, proved>>' # <<users, proved>>
  PROVE  \E r \in Requests : OpenSession(r) \/ WriteReactivation(r) \/ CommitRevocation(r)
<1>1. PICK r \in Requests : Receive(r) \/ Advance(r) \/ Rollback(r)
  BY DEF vars, Next, Tick
<1>2. ~Receive(r)
  BY DEF Receive, Login, ResetPassword, Deactivate, Reactivate, PresentSpent, PresentLive,
     SignOut, RevokeOthers, ChangePassword, RevokeOwn
<1>3. ~Rollback(r) /\ ~ReadAccount(r) /\ ~MarkRotated(r) /\ ~LockAccount(r) /\ ~IssueSuccessor(r)
      /\ ~TakeSnapshot(r)
  BY DEF Rollback, ReadAccount, MarkRotated, LockAccount, IssueSuccessor, TakeSnapshot
<1> QED
  BY <1>1, <1>2, <1>3 DEF Advance

\* A version only grows, and a status changes only under a version the account never had.
LEMMA VersionsGrow ==
  ASSUME IInv, [Next]_vars, NEW u \in Users
  PROVE  /\ users'[u].permissionsVersion >= users[u].permissionsVersion
         /\ users'[u].status # users[u].status =>
              users'[u].permissionsVersion > users[u].permissionsVersion
<1>1. users \in [Users -> Account] /\ users[u].permissionsVersion \in Nat
  BY DEF IInv, TypeOK, Account
<1>2. ASSUME NEW account \in Account, NEW password
      PROVE  /\ WithPassword(account, password).permissionsVersion = account.permissionsVersion
             /\ WithPassword(account, password).status = account.status
  BY DEF WithPassword, Account
<1>3. ASSUME NEW account \in Account, NEW status
      PROVE  /\ WithStatus(account, status).permissionsVersion = account.permissionsVersion + 1
             /\ WithStatus(account, status).status = status
             /\ account.permissionsVersion \in Nat
  BY DEF WithStatus, Account
<1>4. CASE users' = users
  BY <1>1, <1>4
<1>5. ASSUME NEW r \in Requests, OpenSession(r), users' # users
      PROVE  /\ users'[u].permissionsVersion = users[u].permissionsVersion
             /\ users'[u].status = users[u].status
  <2>1. users' = [users EXCEPT ![requests[r].userId] =
                    WithPassword(users[requests[r].userId], requests[r].password)]
    BY <1>5 DEF OpenSession
  <2> QED
    BY <1>1, <1>2, <2>1
<1>6. ASSUME NEW r \in Requests, WriteReactivation(r)
      PROVE  /\ users'[u].permissionsVersion >= users[u].permissionsVersion
             /\ users'[u] # users[u] =>
                  users'[u].permissionsVersion > users[u].permissionsVersion
  <2>1. users' = [users EXCEPT ![requests[r].userId] =
                    WithStatus(users[requests[r].userId], "ACTIVE")]
    BY <1>6 DEF WriteReactivation
  <2>2. CASE u = requests[r].userId
    <3>1. users'[u] = WithStatus(users[u], "ACTIVE") /\ users[u] \in Account
      BY <1>1, <2>1, <2>2
    <3> QED
      BY <1>3, <3>1
  <2>3. CASE u # requests[r].userId
    BY <1>1, <2>1, <2>3
  <2> QED
    BY <2>2, <2>3
<1>7. ASSUME NEW r \in Requests, CommitRevocation(r), users' # users
      PROVE  /\ users'[u].permissionsVersion >= users[u].permissionsVersion
             /\ users'[u].status # users[u].status =>
                  users'[u].permissionsVersion > users[u].permissionsVersion
  <2> DEFINE q == requests[r]
  <2>1. users' = [users EXCEPT ![q.userId] = AccountAfter(q, users[q.userId])]
    BY <1>7 DEF CommitRevocation
  <2>2. CASE u = q.userId
    <3>1. users'[u] = AccountAfter(q, users[u]) /\ users[u] \in Account
      BY <1>1, <2>1, <2>2
    <3>2. CASE q.write = "password"
      BY <1>1, <1>2, <3>1, <3>2 DEF AccountAfter
    <3>3. CASE q.write = "suspend"
      BY <1>1, <1>3, <3>1, <3>3 DEF AccountAfter
    <3>4. CASE q.write \notin {"password", "suspend"}
      BY <1>1, <3>1, <3>4 DEF AccountAfter
    <3> QED
      BY <3>2, <3>3, <3>4
  <2>3. CASE u # q.userId
    BY <1>1, <2>1, <2>3
  <2> QED
    BY <2>2, <2>3
<1>8. users' = users \/ \E r \in Requests :
        OpenSession(r) \/ WriteReactivation(r) \/ CommitRevocation(r)
  BY UsersWriters
<1> QED
  BY <1>1, <1>4, <1>5, <1>6, <1>7, <1>8

\* What a step tells one request to carry, and where it was read.
LEMMA CarriedVersions ==
  ASSUME IInv, [Next]_vars, NEW r \in Requests, requests'[r].step \in {"open", "spend", "issue"}
  PROVE  \/ /\ requests[r].step \in {"open", "spend", "issue"}
            /\ requests'[r].userId = requests[r].userId
            /\ requests'[r].permissionsVersion = requests[r].permissionsVersion
         \/ /\ requests'[r].userId \in Users
            /\ users[requests'[r].userId].status = "ACTIVE" /\ UNCHANGED users
            /\ requests'[r].permissionsVersion = users[requests'[r].userId].permissionsVersion
<1>1. CASE requests'[r] = requests[r]
  BY <1>1
<1>2. CASE requests'[r] # requests[r]
  <2>1. requests \in [Requests -> Request] /\ requests[r] \in Request
    BY DEF IInv, TypeOK
  <2>2. PICK p \in Requests : Receive(p) \/ Advance(p) \/ Rollback(p)
    BY <1>2 DEF Next, Tick, vars
  <2>3. p = r
    BY <1>2, <2>1, <2>2 DEF Receive, Advance, Rollback, Login, ResetPassword, Deactivate,
       Reactivate, PresentSpent, PresentLive, SignOut, RevokeOthers, ChangePassword,
       RevokeOwn, ReadAccount, MarkRotated, LockAccount, IssueSuccessor, TakeSnapshot,
       OpenSession, WriteReactivation, CommitRevocation, Finish, Become
  <2>4. ASSUME NEW u \in Users, Login(r, u)
        PROVE  /\ requests'[r].userId = u /\ users[u].status = "ACTIVE" /\ UNCHANGED users
               /\ requests'[r].permissionsVersion = users[u].permissionsVersion
    BY <2>1, <2>4 DEF Login, Become, Idle
  <2>5. CASE ReadAccount(r)
    <3>1. requests[r].userId \in Users
      BY <2>5, AtWorkOn DEF ReadAccount
    <3>2. /\ requests'[r].userId = requests[r].userId
          /\ users[requests[r].userId].status = "ACTIVE" /\ UNCHANGED users
          /\ requests'[r].permissionsVersion = users[requests[r].userId].permissionsVersion
      BY <1>2, <2>1, <2>5 DEF ReadAccount, Become, Revocation, Request
    <3> QED
      BY <3>1, <3>2
  <2>6. CASE MarkRotated(r)
    BY <2>1, <2>6 DEF MarkRotated, Become, Request, Idle
  <2>7. CASE Finish(r)
    BY <2>1, <2>7 DEF Finish, Become, Idle
  <2>8. CASE LockAccount(r) \/ TakeSnapshot(r)
    <3>1. CASE LockAccount(r)
      BY <2>1, <3>1 DEF LockAccount, Become, Request
    <3>2. CASE TakeSnapshot(r)
      BY <2>1, <3>2 DEF TakeSnapshot, Become, Request
    <3> QED
      BY <2>8, <3>1, <3>2
  <2>9. ASSUME NEW u \in Users, ResetPassword(r, u) \/ Deactivate(r, u) \/ Reactivate(r, u)
        PROVE  FALSE
    <3>1. ~ResetPassword(r, u)
      BY <2>1 DEF ResetPassword, Become, Idle
    <3>2. ~Deactivate(r, u)
      BY <2>1 DEF Deactivate, Become, Idle
    <3>3. ~Reactivate(r, u)
      BY <2>1 DEF Reactivate, Become, Idle
    <3> QED
      BY <2>9, <3>1, <3>2, <3>3
  <2>10. ASSUME NEW s \in SessionIds, \/ PresentSpent(r, s) \/ PresentLive(r, s) \/ SignOut(r, s)
                                      \/ RevokeOthers(r, s) \/ ChangePassword(r, s)
         PROVE  FALSE
    <3>1. ~PresentSpent(r, s) /\ ~PresentLive(r, s)
      BY <2>1 DEF PresentSpent, PresentLive, Become, Revocation, Idle
    <3>2. ~SignOut(r, s) /\ ~RevokeOthers(r, s)
      BY <2>1 DEF SignOut, RevokeOthers, Become, Revocation, Idle
    <3>3. ~ChangePassword(r, s)
      BY <2>1 DEF ChangePassword, Become, Idle
    <3> QED
      BY <2>10, <3>1, <3>2, <3>3
  <2>11. ASSUME NEW c \in SessionIds, NEW s \in SessionIds, RevokeOwn(r, c, s) PROVE FALSE
    BY <2>1, <2>11 DEF RevokeOwn, Become, Revocation, Idle
  <2>12. CASE Receive(r)
    BY <2>4, <2>9, <2>10, <2>11, <2>12 DEF Receive
  <2>13. CASE Advance(r) \/ Rollback(r)
    BY <2>5, <2>6, <2>7, <2>8, <2>13 DEF Advance, Rollback, OpenSession, IssueSuccessor,
       WriteReactivation, CommitRevocation
  <2> QED
    BY <2>2, <2>3, <2>12, <2>13
<1> QED
  BY <1>1, <1>2

LEMMA VersionsLagStep ==
  ASSUME IInv, [Next]_vars, VersionsLag
  PROVE  VersionsLag'
<1>1. /\ sessions \in [SessionIds -> Row \cup {None}] /\ users \in [Users -> Account]
      /\ users' \in [Users -> Account] /\ sessions' \in [SessionIds -> Row \cup {None}]
      /\ requests' \in [Requests -> Request]
  BY TypeStep DEF IInv, TypeOK
<1>2. ASSUME NEW u \in Users, NEW version \in Nat, Behind(version, u) PROVE Behind(version, u)'
  <2>1. users[u].permissionsVersion \in Nat /\ users'[u].permissionsVersion \in Nat
    BY <1>1 DEF Account
  <2> QED
    BY <1>2, <2>1, VersionsGrow DEF Behind
<1>3. ASSUME NEW s \in SessionIds, Exists(s)
      PROVE  Behind(sessions[s].permissionsVersion, sessions[s].userId)'
  <2>1. /\ sessions'[s].permissionsVersion = sessions[s].permissionsVersion
        /\ sessions'[s].userId = sessions[s].userId
    BY <1>3, RowsKeep
  <2>2. sessions[s].userId \in Users /\ sessions[s].permissionsVersion \in Nat
    BY <1>3, RowFacts DEF IInv, Row
  <2>3. Behind(sessions[s].permissionsVersion, sessions[s].userId)
    BY <1>3 DEF VersionsLag
  <2> QED
    BY <1>2, <2>1, <2>2, <2>3 DEF Behind
<1>4. ASSUME NEW s \in SessionIds, ~Exists(s), Exists(s)'
      PROVE  Behind(sessions[s].permissionsVersion, sessions[s].userId)'
  <2>1. PICK r \in Requests :
          /\ requests[r].step \in {"open", "issue"}
          /\ sessions'[s].permissionsVersion = requests[r].permissionsVersion
          /\ sessions'[s].userId = requests[r].userId
    <3>1. sessions' # sessions
      BY <1>4 DEF Exists
    <3>2. ASSUME NEW r \in Requests, OpenSession(r)
          PROVE  /\ requests[r].step = "open"
                 /\ sessions'[s].permissionsVersion = requests[r].permissionsVersion
                 /\ sessions'[s].userId = requests[r].userId
      <4>1. PICK n \in Unused, f \in Families :
              /\ sessions' = [sessions EXCEPT ![n] = NewRow(requests[r], f, None)]
              /\ NewRow(requests[r], f, None).userId = requests[r].userId
              /\ NewRow(requests[r], f, None).permissionsVersion = requests[r].permissionsVersion
        BY <3>2, OpenSessionRows
      <4>2. n = s
        BY <1>1, <1>4, <4>1 DEF Exists
      <4> QED
        BY <1>1, <3>2, <4>1, <4>2 DEF OpenSession
    <3>3. ASSUME NEW r \in Requests, IssueSuccessor(r)
          PROVE  /\ requests[r].step = "issue"
                 /\ sessions'[s].permissionsVersion = requests[r].permissionsVersion
                 /\ sessions'[s].userId = requests[r].userId
      <4>1. PICK n \in Unused, t \in SessionIds, spent, new \in Row :
              /\ t = requests[r].sessionId /\ Live(t)
              /\ sessions' = [sessions EXCEPT ![t] = spent, ![n] = new]
              /\ new.permissionsVersion = requests[r].permissionsVersion
              /\ new.userId = sessions[t].userId
        BY <3>3, IssueSuccessorRows
      <4>2. n = s
        BY <1>1, <1>4, <4>1 DEF Exists, Live
      <4>3. sessions[t].userId = requests[r].userId /\ requests[r].step = "issue"
        BY <3>3, <4>1 DEF IssueSuccessor, IInv, RequestsNameTheirRow, NamesItsRow
      <4> QED
        BY <1>1, <1>4, <4>1, <4>2, <4>3
    <3>4. ASSUME NEW r \in Requests, CommitRevocation(r) PROVE FALSE
      BY <1>4, <3>4, CommitRevocationRows DEF Exists, Live
    <3> QED
      BY <3>1, <3>2, <3>3, <3>4, SessionsWriters
  <2>2. requests[r].userId \in Users /\ requests[r].permissionsVersion \in Nat
    BY <2>1, AtWorkOn DEF Request
  <2>3. Behind(requests[r].permissionsVersion, requests[r].userId)
    BY <2>1 DEF VersionsLag
  <2> QED
    BY <1>2, <2>1, <2>2, <2>3 DEF Behind
<1>5. ASSUME NEW r \in Requests, requests'[r].step \in {"open", "spend", "issue"}
      PROVE  Behind(requests[r].permissionsVersion, requests[r].userId)'
  <2>1. CASE /\ requests[r].step \in {"open", "spend", "issue"}
             /\ requests'[r].userId = requests[r].userId
             /\ requests'[r].permissionsVersion = requests[r].permissionsVersion
    <3>1. requests[r].userId \in Users /\ requests[r].permissionsVersion \in Nat
      BY <2>1, AtWorkOn DEF Request
    <3>2. Behind(requests[r].permissionsVersion, requests[r].userId)
      BY <2>1 DEF VersionsLag
    <3> QED
      BY <1>2, <2>1, <3>1, <3>2 DEF Behind
  <2>2. CASE /\ requests'[r].userId \in Users
             /\ users[requests'[r].userId].status = "ACTIVE" /\ UNCHANGED users
             /\ requests'[r].permissionsVersion = users[requests'[r].userId].permissionsVersion
    BY <1>1, <2>2 DEF Behind, Account
  <2> QED
    BY <1>5, <2>1, <2>2, CarriedVersions
<1> QED
  BY <1>3, <1>4, <1>5 DEF VersionsLag

LEMMA VersionsAlwaysLag == Spec => []VersionsLag
<1>1. Init => VersionsLag
  BY DEF Init, VersionsLag, Exists, Idle
<1>2. IInv /\ VersionsLag /\ [Next]_vars => VersionsLag'
  BY VersionsLagStep
<1> QED
  BY <1>1, <1>2, Inductive, PTL DEF Spec

\* What a suspension leaves of an account's sessions opens nothing, however sign-ins, rotations
\* and suspensions overlap: a row that escapes the revocation still carries a version the
\* account has left behind, and so does every row written later.
THEOREM LeftoversAreStale == Spec => []SuspendedSessionsAreStale
<1>1. VersionsLag => SuspendedSessionsAreStale
  BY DEF VersionsLag, Behind, SuspendedSessionsAreStale
<1> QED
  BY <1>1, VersionsAlwaysLag, PTL

\* However sign-ins, refreshes, revocations, suspensions and reactivations overlap, an access
\* token that was refused once is refused ever after: neither time nor a reactivation, nor
\* both, brings back the version and the row it names.
THEOREM RefusedForGood == Spec => RefusedTokenStaysRefused
<1> DEFINE Refused == \A s \in SessionIds : Exists(s) /\ ~Authenticates(s) => ~Authenticates(s)'
<1>1. IInv /\ VersionsLag /\ [Next]_vars => [Refused]_vars
  <2> SUFFICES ASSUME IInv, VersionsLag, [Next]_vars, NEW s \in SessionIds, Exists(s),
                      Authenticates(s)'
               PROVE  Authenticates(s)
    OBVIOUS
  <2> DEFINE u == sessions[s].userId
             version == sessions[s].permissionsVersion
  <2>1. /\ sessions'[s].permissionsVersion = version /\ sessions'[s].userId = u
        /\ sessions'[s].expiresAt = sessions[s].expiresAt
        /\ ~Live(s) => sessions'[s] = sessions[s]
    BY RowsKeep
  <2>2. Live(s)
    BY <2>1 DEF Authenticates, Live, Exists
  <2>3. /\ u \in Users /\ version \in Nat /\ sessions[s].expiresAt \in Nat
        /\ users[u].permissionsVersion \in Nat /\ users[u].status \in {"ACTIVE", "SUSPENDED"}
    BY RowFacts DEF IInv, TypeOK, Row, Account
  <2>4. version <= users[u].permissionsVersion
    BY DEF VersionsLag, Behind
  <2>5. users'[u].permissionsVersion = version /\ users'[u].status = "ACTIVE"
    BY <2>1 DEF Authenticates
  <2>6. /\ users'[u].permissionsVersion >= users[u].permissionsVersion
        /\ users'[u].status # users[u].status =>
             users'[u].permissionsVersion > users[u].permissionsVersion
    BY <2>3, VersionsGrow
  <2>7. users[u].permissionsVersion = version /\ users[u].status = "ACTIVE"
    BY <2>3, <2>4, <2>5, <2>6
  <2>8. sessions[s].expiresAt > now
    <3>1. now \in Nat /\ (now' = now \/ now' = now + 1)
      <4>1. ASSUME NEW r \in Requests, Receive(r) PROVE now' = now
        BY <4>1 DEF Receive, Login, ResetPassword, Deactivate, Reactivate, PresentSpent, PresentLive,
           SignOut, RevokeOthers, ChangePassword, RevokeOwn
      <4>2. ASSUME NEW r \in Requests, Advance(r) \/ Rollback(r) PROVE now' = now
        BY <4>2 DEF Advance, Rollback, ReadAccount, MarkRotated, LockAccount, IssueSuccessor,
           TakeSnapshot, OpenSession, WriteReactivation, CommitRevocation
      <4> QED
        BY <4>1, <4>2 DEF IInv, TypeOK, vars, Next, Tick
    <3>2. sessions[s].expiresAt > now'
      BY <2>1 DEF Authenticates
    <3> QED
      BY <2>3, <3>1, <3>2
  <2> QED
    BY <2>2, <2>7, <2>8 DEF Authenticates
<1> QED
  BY <1>1, Inductive, VersionsAlwaysLag, PTL DEF Spec, RefusedTokenStaysRefused

-----------------------------------------------------------------------------
(* What a closing leaves, and what a change of the password leaves.        *)

\* A row of the family had been selected, and was exchanged before it could be written.
Overtaken(q, f) ==
  \E t \in q.targets :
    Exists(t) /\ sessions[t].familyId = f /\ sessions[t].revokedReason = "ROTATED"

\* What a request in flight may rely on, whatever the others do: what it is about to do hangs
\* together, the families it names were opened, and the rows that its statement is meant to
\* close and has not selected are rows it was overtaken by.
Standing(q) ==
  /\ q.step \in {"account", "spend", "issue"} => q.write = "nothing"
  /\ q.step \in {"close", "closing"} \/ (q.step = "write" /\ q.write # "reactivate") =>
       q.reason # None
  /\ q.write # "nothing" =>
       /\ q.familyId = None
       /\ q.keepFamilyId # None =>
            \E s \in SessionIds : /\ Exists(s) /\ sessions[s].familyId = q.keepFamilyId
                                  /\ sessions[s].userId = q.userId
  /\ q.familyId # None => Opened(q.familyId)
  /\ q.step = "closing" =>
       /\ \A f \in q.met : Opened(f)
       /\ \A s \in SessionIds, f \in q.met :
            Live(s) /\ Meant(q, sessions[s]) /\ sessions[s].familyId = f =>
              s \in q.targets \/ Overtaken(q, f)

\* Quantified over requests, so that what is said of one does not depend on its place.
RequestsStand == \A q \in Request : (\E r \in Requests : q = requests[r]) => Standing(q)

\* A closing that is overtaken is overtaken by a rotation: nothing else adds a live row to a
\* family that was opened.
LEMMA StandingKeeps ==
  ASSUME IInv, [Next]_vars, NEW q \in Request, Standing(q)
  PROVE  Standing(q)'
<1>1. \A s \in SessionIds : Exists(s) =>
        /\ Exists(s)' /\ sessions'[s].familyId = sessions[s].familyId
        /\ sessions'[s].userId = sessions[s].userId
        /\ ~Live(s) => sessions'[s] = sessions[s]
  BY RowsKeep
<1>2. q.keepFamilyId # None /\ q.write # "nothing" =>
        \E s \in SessionIds : /\ Exists(s)' /\ sessions'[s].familyId = q.keepFamilyId
                              /\ sessions'[s].userId = q.userId
  BY <1>1 DEF Standing
<1>3. q.familyId # None => Opened(q.familyId)'
  BY <1>1 DEF Standing, Opened
<1>4. ASSUME q.step = "closing", NEW s \in SessionIds, NEW f \in q.met,
             Live(s)', Meant(q, sessions'[s]), sessions'[s].familyId = f
      PROVE  s \in q.targets \/ Overtaken(q, f)'
  <2>1. /\ Opened(f)
        /\ \A t \in SessionIds :
             Live(t) /\ Meant(q, sessions[t]) /\ sessions[t].familyId = f =>
               t \in q.targets \/ Overtaken(q, f)
        /\ q.targets \subseteq SessionIds
    BY <1>4 DEF Standing, Request
  <2>2. Overtaken(q, f) => Overtaken(q, f)'
    <3> SUFFICES ASSUME Overtaken(q, f) PROVE Overtaken(q, f)'
      OBVIOUS
    <3>1. PICK t \in q.targets :
            Exists(t) /\ sessions[t].familyId = f /\ sessions[t].revokedReason = "ROTATED"
      BY DEF Overtaken
    <3>2. t \in SessionIds /\ ~Live(t)
      BY <2>1, <3>1, NullAssumption DEF Live, Reasons
    <3> QED
      BY <1>1, <3>1, <3>2 DEF Overtaken
  <2>3. CASE Live(s) /\ sessions'[s].familyId = sessions[s].familyId
                     /\ sessions'[s].userId = sessions[s].userId
    <3>1. Meant(q, sessions[s])
      BY <1>4, <2>3 DEF Meant
    <3> QED
      BY <1>4, <2>1, <2>2, <2>3, <3>1
  <2>4. CASE sessions' = sessions
    BY <1>4, <2>3, <2>4 DEF Live, Exists
  <2>5. ASSUME NEW r \in Requests, OpenSession(r) PROVE Live(s) /\ sessions'[s] = sessions[s]
    <3>1. PICK n \in Unused, g \in Families :
            /\ ~Opened(g)
            /\ sessions' = [sessions EXCEPT ![n] = NewRow(requests[r], g, None)]
            /\ NewRow(requests[r], g, None).familyId = g
      BY <2>5, OpenSessionRows
    <3>2. /\ \A t \in SessionIds \ {n} : sessions'[t] = sessions[t]
          /\ sessions'[n].familyId = g
      BY <3>1 DEF Unused, IInv, TypeOK
    <3>3. s # n
      BY <1>4, <2>1, <3>1, <3>2
    <3> QED
      BY <1>4, <3>2, <3>3 DEF Live, Exists
  <2>6. ASSUME NEW r \in Requests, CommitRevocation(r)
        PROVE  Live(s) /\ sessions'[s].familyId = sessions[s].familyId
                       /\ sessions'[s].userId = sessions[s].userId
    <3>1. Live(s)
      BY <1>4, <2>6, CommitRevocationRows DEF Live, Exists
    <3> QED
      BY <1>1, <3>1 DEF Live
  <2>7. ASSUME NEW r \in Requests, IssueSuccessor(r)
        PROVE  s \in q.targets \/ Overtaken(q, f)'
    <3>1. PICK n \in Unused, t \in SessionIds, spent, new \in Row :
            /\ Live(t) /\ n # t
            /\ sessions' = [sessions EXCEPT ![t] = spent, ![n] = new]
            /\ spent # None /\ spent.revokedReason = "ROTATED"
            /\ new.familyId = sessions[t].familyId /\ new.userId = sessions[t].userId
            /\ spent.familyId = sessions[t].familyId
      BY <2>7, IssueSuccessorRows
    <3>2. /\ \A v \in SessionIds \ {n, t} : sessions'[v] = sessions[v]
          /\ sessions'[n] = new /\ sessions'[t] = spent
      BY <3>1 DEF Unused, IInv, TypeOK
    <3>3. CASE s = n
      <4>1. Meant(q, sessions[t]) /\ sessions[t].familyId = f
        BY <1>4, <3>1, <3>2, <3>3 DEF Meant
      <4>2. CASE t \in q.targets
        BY <3>1, <3>2, <4>1, <4>2 DEF Overtaken, Exists
      <4>3. CASE Overtaken(q, f)
        BY <2>2, <4>3
      <4> QED
        BY <2>1, <3>1, <4>1, <4>2, <4>3
    <3>4. CASE s = t
      BY <1>4, <3>1, <3>2, <3>4, NullAssumption DEF Live, Reasons
    <3>5. CASE s \notin {n, t}
      BY <1>4, <2>3, <3>2, <3>5 DEF Live, Exists
    <3> QED
      BY <3>3, <3>4, <3>5
  <2> QED
    BY <2>3, <2>4, <2>5, <2>6, <2>7, SessionsWriters
<1>5. q.step = "closing" => \A f \in q.met : Opened(f)'
  BY <1>1 DEF Standing, Opened
<1> QED
  BY <1>2, <1>3, <1>4, <1>5 DEF Standing

LEMMA IdleStands == ASSUME NEW q, q = Idle PROVE Standing(q)
BY DEF Standing, Idle

\* A request moves on, by a step that writes no row, to something that stands.
LEMMA StandsAfterReading ==
  ASSUME IInv, RequestsStand, UNCHANGED sessions, NEW r \in Requests,
         NEW q \in Request, Become(r, q), Standing(q)
  PROVE  RequestsStand'
<1>1. \A p : Standing(p)' = Standing(p)
  BY DEF Standing, Meant, Overtaken, Opened, Live, Exists
<1>2. \A s \in Requests : requests'[s] = IF s = r THEN q ELSE requests[s]
  BY DEF Become, IInv, TypeOK
<1>3. ASSUME NEW p \in Request, NEW s \in Requests, p = requests'[s] PROVE Standing(p)'
  BY <1>1, <1>2, <1>3 DEF RequestsStand
<1> QED
  BY <1>3 DEF RequestsStand

LEMMA StandsAfterFinish ==
  ASSUME IInv, [Next]_vars, RequestsStand, NEW r \in Requests, Finish(r)
  PROVE  RequestsStand'
<1>1. requests'[r] = Idle /\ \A p \in Requests \ {r} : requests'[p] = requests[p]
  BY FinishType DEF IInv
<1>2. ASSUME NEW q \in Request, NEW s \in Requests, q = requests'[s] PROVE Standing(q)'
  <2>1. CASE s = r
    BY <1>1, <1>2, <2>1, IdleType DEF Standing, Idle
  <2>2. CASE s # r
    <3>1. Standing(q)
      BY <1>1, <1>2, <2>2 DEF RequestsStand
    <3> QED
      BY <3>1, StandingKeeps
  <2> QED
    BY <2>1, <2>2
<1> QED
  BY <1>2 DEF RequestsStand

\* A request that writes no account stands on its reason and on the family it names.
LEMMA RevocationsStand ==
  ASSUME NEW q, q.write = "nothing",
         \/ q.step = "account" /\ q.familyId = None
         \/ /\ q.step = "close" /\ q.reason # None
            /\ q.familyId # None => Opened(q.familyId)
  PROVE  Standing(q)
BY DEF Standing

LEMMA StandsStep ==
  ASSUME IInv, RequestsStand, [Next]_vars
  PROVE  RequestsStand'
<1>0. /\ TypeOK /\ TypeOK' /\ requests \in [Requests -> Request]
      /\ requests' \in [Requests -> Request]
  BY TypeStep DEF IInv, TypeOK
<1>1. SUFFICES ASSUME NEW r \in Requests, UNCHANGED sessions, Become(r, requests'[r]),
                      Receive(r) \/ Advance(r), ~Finish(r)
               PROVE  Standing(requests'[r])
  <2>1. CASE UNCHANGED <<sessions, requests>>
    BY <2>1 DEF RequestsStand, Standing, Meant, Overtaken, Opened, Live, Exists
  <2>2. ASSUME NEW r \in Requests, Receive(r) \/ Advance(r) \/ Rollback(r)
        PROVE  RequestsStand'
    <3>1. CASE Finish(r)
      BY <3>1, StandsAfterFinish
    <3>2. CASE ~Finish(r)
      <4>1. UNCHANGED sessions
        BY <2>2, <3>2 DEF Receive, Advance, Rollback, Login, ResetPassword, Deactivate,
           Reactivate, PresentSpent, PresentLive, SignOut, RevokeOthers, ChangePassword,
           RevokeOwn, ReadAccount, MarkRotated, LockAccount, IssueSuccessor, TakeSnapshot,
           OpenSession, WriteReactivation, CommitRevocation
      <4>2. \E q : Become(r, q)
        BY <2>2, <3>2 DEF Receive, Advance, Rollback, Login, ResetPassword, Deactivate,
           Reactivate, PresentSpent, PresentLive, SignOut, RevokeOthers, ChangePassword,
           RevokeOwn, ReadAccount, MarkRotated, LockAccount, IssueSuccessor, TakeSnapshot,
           OpenSession, WriteReactivation, CommitRevocation
      <4>3. Become(r, requests'[r])
        BY <1>0, <4>2 DEF Become
      <4>4. Standing(requests'[r])
        BY <1>1, <2>2, <3>2, <4>1, <4>3 DEF Rollback
      <4>5. PICK q \in Request : q = requests'[r]
        BY <1>0
      <4> QED
        BY <4>1, <4>3, <4>4, <4>5, StandsAfterReading
    <3> QED
      BY <3>1, <3>2
  <2> QED
    BY <2>1, <2>2 DEF Next, Tick, vars
<1> DEFINE q == requests[r]
<1>2. q \in Request /\ Standing(q)
  BY <1>0 DEF RequestsStand
<1>3. ASSUME NEW u \in Users, Login(r, u) \/ ResetPassword(r, u) \/ Deactivate(r, u) \/ Reactivate(r, u)
      PROVE  Standing(requests'[r])
  <2>1. CASE Login(r, u)
    BY <1>0, <2>1 DEF Login, Become, Idle, Standing
  <2>2. CASE ResetPassword(r, u)
    BY <1>0, <2>2, NullAssumption DEF ResetPassword, Become, Idle, Standing, Reasons
  <2>3. CASE Deactivate(r, u)
    BY <1>0, <2>3, NullAssumption DEF Deactivate, Become, Idle, Standing, Reasons
  <2>4. CASE Reactivate(r, u)
    BY <1>0, <2>4 DEF Reactivate, Become, Idle, Standing
  <2> QED
    BY <1>3, <2>1, <2>2, <2>3, <2>4
<1>4. ASSUME NEW s \in SessionIds,
             PresentSpent(r, s) \/ PresentLive(r, s) \/ SignOut(r, s) \/ RevokeOthers(r, s)
      PROVE  Standing(requests'[r])
  <2>1. CASE PresentSpent(r, s)
    <3>1. /\ requests'[r].write = "nothing" /\ requests'[r].step = "close"
          /\ requests'[r].reason # None /\ requests'[r].familyId = sessions[s].familyId
      BY <1>0, <2>1, NullAssumption DEF PresentSpent, Become, Revocation, Idle, Reasons
    <3>2. Opened(sessions[s].familyId)
      BY <2>1 DEF PresentSpent, Opened
    <3> QED
      BY <3>1, <3>2, RevocationsStand
  <2>2. CASE PresentLive(r, s)
    <3>1. /\ requests'[r].write = "nothing" /\ requests'[r].step = "account"
          /\ requests'[r].familyId = None
      BY <1>0, <2>2 DEF PresentLive, Become, Idle
    <3> QED
      BY <3>1, RevocationsStand
  <2>3. CASE SignOut(r, s)
    <3>1. /\ requests'[r].write = "nothing" /\ requests'[r].step = "close"
          /\ requests'[r].reason # None /\ requests'[r].familyId = sessions[s].familyId
      BY <1>0, <2>3, NullAssumption DEF SignOut, Become, Revocation, Idle, Reasons
    <3>2. Opened(sessions[s].familyId)
      BY <2>3 DEF SignOut, Opened
    <3> QED
      BY <3>1, <3>2, RevocationsStand
  <2>4. CASE RevokeOthers(r, s)
    <3>1. /\ requests'[r].write = "nothing" /\ requests'[r].step = "close"
          /\ requests'[r].reason # None /\ requests'[r].familyId = None
      BY <1>0, <2>4, NullAssumption DEF RevokeOthers, Become, Idle, Reasons
    <3> QED
      BY <3>1, RevocationsStand
  <2> QED
    BY <1>4, <2>1, <2>2, <2>3, <2>4
<1>5. ASSUME NEW c \in SessionIds, NEW s \in SessionIds, RevokeOwn(r, c, s)
      PROVE  Standing(requests'[r])
  <2>1. /\ requests'[r].step = "close" /\ requests'[r].write = "nothing"
        /\ requests'[r].reason # None /\ requests'[r].familyId = sessions[s].familyId
    BY <1>0, <1>5, NullAssumption DEF RevokeOwn, Become, Revocation, Idle, Reasons
  <2>2. Opened(sessions[s].familyId)
    BY <1>5 DEF RevokeOwn, Opened
  <2> QED
    BY <2>1, <2>2, RevocationsStand
<1>6. ASSUME NEW c \in SessionIds, ChangePassword(r, c)
      PROVE  Standing(requests'[r])
  <2>1. /\ requests'[r].step = "write" /\ requests'[r].write = "password"
        /\ requests'[r].familyId = None /\ requests'[r].reason # None
        /\ requests'[r].userId = sessions[c].userId
        /\ requests'[r].keepFamilyId = sessions[c].familyId
    BY <1>0, <1>6, NullAssumption DEF ChangePassword, Become, Idle, Reasons
  <2>2. Exists(c)
    BY <1>6 DEF ChangePassword, Authenticates, Live
  <2> QED
    BY <2>1, <2>2 DEF Standing
<1>7. CASE ReadAccount(r)
  <2> DEFINE d == requests'[r]
  <2>1. /\ \/ d.step = "spend" /\ d.familyId = q.familyId
           \/ /\ d.step = "close" /\ d.reason # None
              /\ d.familyId = sessions[q.sessionId].familyId
        /\ d.write = q.write /\ q.step = "account"
    BY <1>0, <1>2, <1>7, NullAssumption
       DEF ReadAccount, Become, Revocation, Request, Reasons
  <2>2. q.write = "nothing" /\ (q.familyId # None => Opened(q.familyId))
    BY <1>2, <2>1 DEF Standing
  <2>3. Opened(sessions[q.sessionId].familyId)
    BY <2>1 DEF IInv, RequestsNameTheirRow, NamesItsRow, Opened
  <2> HIDE DEF d, q
  <2>4. Standing(d)
    BY <2>1, <2>2, <2>3 DEF Standing
  <2> QED
    BY <2>4 DEF d
<1>8. CASE MarkRotated(r)
  <2> DEFINE d == requests'[r]
  <2>1. /\ d.step = "issue" /\ d.write = q.write /\ d.familyId = q.familyId
        /\ q.step = "spend"
    BY <1>0, <1>1, <1>2, <1>8 DEF MarkRotated, Become, Request, Finish
  <2>2. q.write = "nothing" /\ (q.familyId # None => Opened(q.familyId))
    BY <1>2, <2>1 DEF Standing
  <2> HIDE DEF d, q
  <2>3. Standing(d)
    BY <2>1, <2>2 DEF Standing
  <2> QED
    BY <2>3 DEF d
<1>9. CASE LockAccount(r)
  <2> DEFINE d == requests'[r]
  <2>1. /\ d.step = "close" /\ d.write = q.write /\ d.familyId = q.familyId
        /\ d.keepFamilyId = q.keepFamilyId /\ d.userId = q.userId /\ q.step = "write"
        /\ d.reason = q.reason /\ q.write # "reactivate"
    BY <1>0, <1>2, <1>9 DEF LockAccount, Become, Request
  <2> HIDE DEF d, q
  <2>2. Standing(d)
    BY <1>2, <2>1 DEF Standing
  <2> QED
    BY <2>2 DEF d
<1>10. CASE TakeSnapshot(r)
  <2> DEFINE d == requests'[r]
             t == {s \in SessionIds : Exists(s) /\ InScope(q, sessions[s])}
             m == {f \in Families : Opened(f)}
  <2>1. d = [q EXCEPT !.step = "closing", !.targets = t, !.met = m] /\ q.step = "close"
    BY <1>0, <1>10 DEF TakeSnapshot, Become
  <2>2. /\ \A s \in SessionIds : Live(s) /\ Meant(q, sessions[s]) => s \in t
        /\ \A f \in m : Opened(f)
    BY DEF Live, Meant, InScope
  <2> HIDE DEF d, t, m
  <2>3. /\ d.step = "closing" /\ d.write = q.write /\ d.familyId = q.familyId
        /\ d.keepFamilyId = q.keepFamilyId /\ d.userId = q.userId /\ d.targets = t
        /\ d.reason = q.reason /\ d.met = m
    BY <1>2, <2>1 DEF Request
  <2> HIDE DEF q
  <2>4. \A s \in SessionIds : Live(s) /\ Meant(d, sessions[s]) => s \in t
    BY <2>2, <2>3 DEF Meant
  <2>5. Standing(d)
    BY <1>2, <2>1, <2>2, <2>3, <2>4 DEF Standing
  <2> QED
    BY <2>5 DEF d
<1> QED
  BY <1>1, <1>3, <1>4, <1>5, <1>6, <1>7, <1>8, <1>9, <1>10 DEF Receive, Advance, OpenSession,
     IssueSuccessor, WriteReactivation, CommitRevocation

LEMMA RequestsAlwaysStand == Spec => []RequestsStand
<1>1. Init => RequestsStand
  BY IdleStands DEF Init, RequestsStand
<1>2. IInv /\ RequestsStand /\ [Next]_vars => RequestsStand'
  BY StandsStep
<1> QED
  BY <1>1, <1>2, Inductive, PTL DEF Spec

\* What a revocation leaves live it had not selected.
LEMMA LeftUnselected ==
  ASSUME IInv, RequestsStand, NEW r \in Requests, CommitRevocation(r),
         NEW s \in SessionIds, Live(s)'
  PROVE  /\ Live(s) /\ sessions'[s] = sessions[s]
         /\ s \notin requests[r].targets
<1> DEFINE q == requests[r]
<1>1. q \in Request /\ Standing(q) /\ q.step = "closing"
  BY DEF CommitRevocation, RequestsStand, IInv, TypeOK
<1>2. sessions'[s] = RowAfter(q, s)
  BY DEF CommitRevocation
<1>3. q.reason # None
  BY <1>1 DEF Standing
<1>4. ~(s \in q.targets /\ Live(s))
  <2>1. ASSUME s \in q.targets, Live(s) PROVE sessions'[s].revokedReason = q.reason
    BY <1>2, <2>1, RowFacts DEF RowAfter, IInv, Live, Row
  <2> QED
    BY <1>3, <2>1 DEF Live
<1>5. sessions'[s] = sessions[s] /\ Live(s)
  BY <1>2, <1>4 DEF RowAfter, Live, Exists
<1> QED
  BY <1>4, <1>5

\* However requests overlap, a sign-out, a session closed from the list, a replay, a change or
\* reset of the password and a suspension leave live, of the families that were open when their
\* statement began, only what overtook it: the family of a row that it had selected and that
\* was exchanged before it could be written.
THEOREM ClosingMissesOnlyRotations == Spec => OnlyARotationOutlivesAClosing
<1> DEFINE Missed(r, s) ==
      /\ CommitRevocation(r) /\ Live(s)'
      /\ Meant(requests[r], sessions'[s]) /\ sessions'[s].familyId \in requests[r].met
<1> DEFINE Why(r, s) ==
      \E t \in requests[r].targets : /\ sessions[t].familyId = sessions'[s].familyId
                                    /\ sessions[t].revokedReason = "ROTATED"
<1>1. ASSUME IInv, RequestsStand, NEW r \in Requests, NEW s \in SessionIds, Missed(r, s)
      PROVE  Why(r, s)
  <2>1. requests[r] \in Request /\ Standing(requests[r]) /\ requests[r].step = "closing"
    BY <1>1 DEF CommitRevocation, RequestsStand, IInv, TypeOK
  <2>2. Live(s) /\ sessions'[s] = sessions[s] /\ s \notin requests[r].targets
    BY <1>1, LeftUnselected
  <2>3. Overtaken(requests[r], sessions[s].familyId)
    BY <1>1, <2>1, <2>2 DEF Standing
  <2> QED
    BY <2>2, <2>3 DEF Overtaken
<1>2. IInv /\ RequestsStand /\ [Next]_vars =>
        [\A r \in Requests, s \in SessionIds :
           /\ CommitRevocation(r) /\ Live(s)'
           /\ Meant(requests[r], sessions'[s]) /\ sessions'[s].familyId \in requests[r].met
           => \E t \in requests[r].targets : /\ sessions[t].familyId = sessions'[s].familyId
                                             /\ sessions[t].revokedReason = "ROTATED"]_vars
  BY <1>1
<1> QED
  BY <1>2, Inductive, RequestsAlwaysStand, PTL DEF Spec, OnlyARotationOutlivesAClosing

-----------------------------------------------------------------------------
(* A change of the password leaves only those who know it, unless a sign-in *)
(* or a rotation meets it.                                                  *)

\* The first race the code leaves open: a sign-in has verified a password that is no longer
\* the account's by the time its transaction commits.
SignInsKnowThePassword ==
  \A r \in Requests :
    requests[r].step = "open" => requests[r].password = users[requests[r].userId].password

\* The second: a row of the account, outside the family a change keeps, is committed between
\* the snapshot of the change's revocation and its commit.
NoRowSlipsIn ==
  \A r \in Requests, s \in SessionIds :
    /\ requests[r].step = "closing" /\ requests[r].write = "password"
    /\ ~Exists(s) /\ Exists(s)'
    => sessions'[s].userId # requests[r].userId \/ sessions'[s].familyId = requests[r].keepFamilyId

FamiliesHaveOneUser ==
  \A s, t \in SessionIds :
    Exists(s) /\ Exists(t) /\ sessions[s].familyId = sessions[t].familyId =>
      sessions[s].userId = sessions[t].userId

\* A change of the password has selected every live row it is not to keep.
Covers(q) ==
  q.step = "closing" /\ q.write = "password" =>
    \A s \in SessionIds :
      Live(s) /\ sessions[s].userId = q.userId =>
        s \in q.targets \/ sessions[s].familyId = q.keepFamilyId

SnapshotsCover == \A q \in Request : (\E r \in Requests : q = requests[r]) => Covers(q)

\* The inductive invariant, as long as neither race happens.
KnownInv ==
  /\ IInv
  /\ RequestsStand
  /\ FamiliesHaveOneUser
  /\ SnapshotsCover
  /\ LiveSessionsKnowThePassword

LEMMA FamiliesStep ==
  ASSUME IInv, [Next]_vars, FamiliesHaveOneUser
  PROVE  FamiliesHaveOneUser'
<1>1. sessions \in [SessionIds -> Row \cup {None}]
  BY DEF IInv, TypeOK
<1>2. ASSUME NEW r \in Requests, OpenSession(r) PROVE FamiliesHaveOneUser'
  <2>1. PICK n \in Unused, f \in Families :
          /\ ~Opened(f)
          /\ sessions' = [sessions EXCEPT ![n] = NewRow(requests[r], f, None)]
          /\ NewRow(requests[r], f, None).familyId = f
    BY <1>2, OpenSessionRows
  <2>2. /\ \A s \in SessionIds \ {n} : sessions'[s] = sessions[s] /\
             (Exists(s) => sessions[s].familyId # f)
        /\ sessions'[n].familyId = f
    BY <1>1, <2>1 DEF Unused, Opened
  <2> QED
    BY <2>2 DEF FamiliesHaveOneUser, Exists
<1>3. ASSUME NEW r \in Requests, IssueSuccessor(r) PROVE FamiliesHaveOneUser'
  <2>1. PICK n \in Unused, t \in SessionIds, spent, new \in Row :
          /\ Live(t) /\ n # t
          /\ sessions' = [sessions EXCEPT ![t] = spent, ![n] = new]
          /\ spent.familyId = sessions[t].familyId /\ spent.userId = sessions[t].userId
          /\ new.familyId = sessions[t].familyId /\ new.userId = sessions[t].userId
    BY <1>3, IssueSuccessorRows
  <2>2. /\ \A s \in SessionIds \ {n, t} : sessions'[s] = sessions[s]
        /\ sessions'[n] = new /\ sessions'[t] = spent /\ Exists(t)
    BY <1>1, <2>1 DEF Unused, Live
  <2>3. ASSUME NEW s \in SessionIds, Exists(s)'
        PROVE  \E o \in SessionIds :
                 /\ Exists(o) /\ sessions'[s].familyId = sessions[o].familyId
                 /\ sessions'[s].userId = sessions[o].userId
    <3>1. CASE s \in {n, t}
      BY <2>1, <2>2, <3>1
    <3>2. CASE s \notin {n, t}
      BY <2>2, <2>3, <3>2 DEF Exists
    <3> QED
      BY <3>1, <3>2
  <2> QED
    BY <2>3 DEF FamiliesHaveOneUser
<1>4. ASSUME NEW r \in Requests, CommitRevocation(r) PROVE FamiliesHaveOneUser'
  <2>1. \A s \in SessionIds :
          /\ Exists(s)' => Exists(s)
          /\ Exists(s) => sessions'[s].familyId = sessions[s].familyId /\
                          sessions'[s].userId = sessions[s].userId
    BY <1>4, CommitRevocationRows DEF Exists, Live
  <2> QED
    BY <2>1 DEF FamiliesHaveOneUser
<1>5. CASE sessions' = sessions
  BY <1>5 DEF FamiliesHaveOneUser, Exists
<1> QED
  BY <1>2, <1>3, <1>4, <1>5, SessionsWriters

\* Only taking the snapshot brings a request to the point of writing what it selected.
LEMMA ClosingBegins ==
  ASSUME IInv, [Next]_vars, NEW r \in Requests, requests'[r].step = "closing",
         requests'[r] # requests[r]
  PROVE  TakeSnapshot(r)
<1>1. requests \in [Requests -> Request] /\ requests[r] \in Request
  BY DEF IInv, TypeOK
<1>2. PICK p \in Requests : Receive(p) \/ Advance(p) \/ Rollback(p)
  BY DEF Next, Tick, vars
<1>3. p = r
  BY <1>1, <1>2 DEF Receive, Advance, Rollback, Login, ResetPassword, Deactivate,
     Reactivate, PresentSpent, PresentLive, SignOut, RevokeOthers, ChangePassword,
     RevokeOwn, ReadAccount, MarkRotated, LockAccount, IssueSuccessor, TakeSnapshot,
     OpenSession, WriteReactivation, CommitRevocation, Finish, Become
<1>4. ASSUME NEW u \in Users PROVE ~Login(r, u) /\ ~ResetPassword(r, u)
  BY <1>1 DEF Login, ResetPassword, Become, Idle
<1>5. ASSUME NEW u \in Users PROVE ~Deactivate(r, u) /\ ~Reactivate(r, u)
  BY <1>1 DEF Deactivate, Reactivate, Become, Idle
<1>6. ASSUME NEW s \in SessionIds PROVE ~PresentSpent(r, s) /\ ~PresentLive(r, s) /\ ~SignOut(r, s)
  BY <1>1 DEF PresentSpent, PresentLive, SignOut, Become, Revocation, Idle
<1>7. ASSUME NEW s \in SessionIds PROVE ~RevokeOthers(r, s) /\ ~ChangePassword(r, s)
  BY <1>1 DEF RevokeOthers, ChangePassword, Become, Idle
<1>8. ASSUME NEW c \in SessionIds, NEW s \in SessionIds PROVE ~RevokeOwn(r, c, s)
  BY <1>1 DEF RevokeOwn, Become, Revocation, Idle
<1>9. ~Finish(r)
  BY <1>1 DEF Finish, Become, Idle
<1>10. ~ReadAccount(r) /\ ~MarkRotated(r) /\ ~LockAccount(r)
  <2>1. ~ReadAccount(r)
    BY <1>1 DEF ReadAccount, Become, Revocation, Request
  <2>2. ~MarkRotated(r)
    BY <1>1 DEF MarkRotated, Become, Request, Idle
  <2>3. ~LockAccount(r)
    BY <1>1 DEF LockAccount, Become, Request
  <2> QED
    BY <2>1, <2>2, <2>3
<1>11. ~Receive(r)
  <2>1. ~\E s \in SessionIds : \/ PresentSpent(r, s) \/ PresentLive(r, s) \/ SignOut(r, s)
                                \/ RevokeOthers(r, s) \/ ChangePassword(r, s)
    BY <1>6, <1>7
  <2> QED
    BY <1>4, <1>5, <1>8, <2>1 DEF Receive
<1>12. Advance(r) \/ Rollback(r)
  BY <1>2, <1>3, <1>11
<1> QED
  BY <1>9, <1>10, <1>12 DEF Advance, Rollback, OpenSession, IssueSuccessor, WriteReactivation,
     CommitRevocation

LEMMA CoversStep ==
  ASSUME KnownInv, [Next]_vars, NoRowSlipsIn
  PROVE  SnapshotsCover'
<1>0. requests \in [Requests -> Request] /\ requests' \in [Requests -> Request]
  BY TypeStep DEF KnownInv, IInv, TypeOK
<1>1. SUFFICES ASSUME NEW q \in Request, NEW r \in Requests, q = requests'[r],
                      q.step = "closing", q.write = "password",
                      NEW s \in SessionIds, Live(s)', sessions'[s].userId = q.userId
               PROVE  s \in q.targets \/ sessions'[s].familyId = q.keepFamilyId
  BY DEF SnapshotsCover, Covers
<1>2. CASE requests'[r] = requests[r]
  <2>1. q = requests[r] /\ Covers(q)
    BY <1>1, <1>2 DEF KnownInv, SnapshotsCover
  <2>2. CASE Exists(s)
    <3>1. /\ Live(s) /\ sessions'[s].userId = sessions[s].userId
          /\ sessions'[s].familyId = sessions[s].familyId
      BY <1>1, <2>2, RowsKeep DEF KnownInv, Live, Exists
    <3> QED
      BY <1>1, <2>1, <3>1 DEF Covers
  <2>3. CASE ~Exists(s)
    BY <1>1, <2>1, <2>3 DEF NoRowSlipsIn, Live
  <2> QED
    BY <2>2, <2>3
<1>3. CASE requests'[r] # requests[r]
  <2> DEFINE b == requests[r]
             t == {v \in SessionIds : Exists(v) /\ InScope(b, sessions[v])}
  <2>1. TakeSnapshot(r)
    BY <1>1, <1>3, ClosingBegins DEF KnownInv
  <2>2. b \in Request /\ Standing(b) /\ UNCHANGED sessions
    BY <1>0, <2>1 DEF KnownInv, RequestsStand, TakeSnapshot
  <2>3. q = [b EXCEPT !.step = "closing", !.targets = t,
                           !.met = {f \in Families : Opened(f)}]
    BY <1>0, <1>1, <2>1 DEF TakeSnapshot, Become
  <2> HIDE DEF t
  <2>4. /\ q.write = b.write /\ q.userId = b.userId /\ q.keepFamilyId = b.keepFamilyId
        /\ q.targets = t
    BY <2>2, <2>3 DEF Request
  <2>5. b.familyId = None
    BY <1>1, <2>2, <2>4 DEF Standing
  <2>6. Live(s) /\ sessions[s].userId = b.userId
    BY <1>1, <2>2, <2>4 DEF Live, Exists
  <2> QED
    BY <2>2, <2>4, <2>5, <2>6 DEF t, InScope, Live
<1> QED
  BY <1>2, <1>3

\* What the invariant says of one row.
Known(s) ==
  Live(s) => proved[sessions[s].familyId] = users[sessions[s].userId].password

\* A sign-in that knows the password leaves every password as it was.
LEMMA OpenedSessionIsKnown ==
  ASSUME KnownInv, SignInsKnowThePassword, NEW r \in Requests, OpenSession(r), NEW s \in SessionIds
  PROVE  Known(s)'
<1> DEFINE q == requests[r]
<1>1. q \in Request /\ q.userId \in Users /\ q.step = "open"
  BY DEF OpenSession, KnownInv, IInv, TypeOK, RequestsNameTheirRow, NamesItsRow
<1>2. users[q.userId].password = q.password
  BY <1>1 DEF SignInsKnowThePassword
<1>3. \A u \in Users : users'[u].password = users[u].password
  BY <1>1, <1>2 DEF OpenSession, WithPassword, KnownInv, IInv, TypeOK, Account
<1>4. PICK n \in Unused, f \in Families :
        /\ ~Opened(f)
        /\ sessions' = [sessions EXCEPT ![n] = NewRow(q, f, None)]
        /\ NewRow(q, f, None).familyId = f
        /\ NewRow(q, f, None).userId = q.userId
        /\ proved' = [proved EXCEPT ![f] = q.password]
  BY OpenSessionRows DEF KnownInv
<1>5. sessions \in [SessionIds -> Row \cup {None}] /\ proved \in [Families -> Nat]
  BY DEF KnownInv, IInv, TypeOK
<1>6. CASE s = n
  <2>1. sessions'[s].familyId = f /\ sessions'[s].userId = q.userId /\ proved'[f] = q.password
    BY <1>4, <1>5, <1>6 DEF Unused
  <2> QED
    BY <1>1, <1>2, <1>3, <2>1 DEF Known
<1>7. CASE s # n /\ Live(s)
  <2>1. /\ sessions'[s] = sessions[s] /\ sessions[s].familyId # f
        /\ sessions[s].familyId \in Families /\ sessions[s].userId \in Users
    BY <1>4, <1>5, <1>7, RowFacts DEF Unused, Opened, Live, Exists, Row, KnownInv, IInv
  <2>2. proved'[sessions[s].familyId] = proved[sessions[s].familyId]
    BY <1>4, <1>5, <2>1
  <2> QED
    BY <1>3, <1>7, <2>1, <2>2 DEF Known, KnownInv, LiveSessionsKnowThePassword
<1>8. CASE s # n /\ ~Live(s)
  <2>1. ~Live(s)'
    BY <1>4, <1>5, <1>8 DEF Live, Exists
  <2> QED
    BY <2>1 DEF Known
<1> QED
  BY <1>6, <1>7, <1>8

\* A rotation hands on what its family knows.
LEMMA SuccessorIsKnown ==
  ASSUME KnownInv, NEW r \in Requests, IssueSuccessor(r), NEW s \in SessionIds
  PROVE  Known(s)'
<1>1. PICK n \in Unused, t \in SessionIds, spent, new \in Row :
        /\ Live(t) /\ n # t
        /\ sessions' = [sessions EXCEPT ![t] = spent, ![n] = new]
        /\ spent.revokedReason = "ROTATED"
        /\ new.familyId = sessions[t].familyId
        /\ new.userId = sessions[t].userId
  BY IssueSuccessorRows DEF KnownInv
<1>2. sessions \in [SessionIds -> Row \cup {None}] /\ UNCHANGED <<users, proved>>
  BY DEF KnownInv, IInv, TypeOK, IssueSuccessor
<1>3. proved[sessions[t].familyId] = users[sessions[t].userId].password
  BY <1>1 DEF KnownInv, LiveSessionsKnowThePassword
<1>4. CASE s = n
  <2>1. sessions'[s] = new
    BY <1>1, <1>2, <1>4 DEF Unused
  <2> QED
    BY <1>1, <1>2, <1>3, <2>1 DEF Known
<1>5. CASE s = t
  <2>1. sessions'[s] = spent
    BY <1>1, <1>2, <1>5 DEF Unused
  <2> QED
    BY <1>1, <2>1, NullAssumption DEF Known, Live, Reasons
<1>6. CASE s \notin {n, t}
  <2>1. sessions'[s] = sessions[s]
    BY <1>1, <1>2, <1>6 DEF Unused
  <2> QED
    BY <1>2, <2>1 DEF Known, Live, Exists, KnownInv, LiveSessionsKnowThePassword
<1> QED
  BY <1>4, <1>5, <1>6

LEMMA ReactivatedIsKnown ==
  ASSUME KnownInv, NEW r \in Requests, WriteReactivation(r), NEW s \in SessionIds
  PROVE  Known(s)'
<1> DEFINE q == requests[r]
<1>1. q.userId \in Users /\ UNCHANGED <<sessions, proved>>
  BY DEF WriteReactivation, KnownInv, IInv, RequestsNameTheirRow, NamesItsRow
<1>2. \A u \in Users : users'[u].password = users[u].password
  BY <1>1 DEF WriteReactivation, WithStatus, KnownInv, IInv, TypeOK, Account
<1>3. Exists(s) => sessions[s].userId \in Users
  BY RowFacts DEF Row, KnownInv, IInv
<1> QED
  BY <1>1, <1>2, <1>3 DEF Known, Live, Exists, KnownInv, LiveSessionsKnowThePassword

\* A change of the password keeps one family, whose device set it; everything else of the
\* account it has selected.
LEMMA RevocationLeavesTheKnown ==
  ASSUME KnownInv, NEW r \in Requests, CommitRevocation(r), NEW s \in SessionIds
  PROVE  Known(s)'
<1> DEFINE q == requests[r]
<1>1. SUFFICES ASSUME Live(s)' PROVE Known(s)'
  BY DEF Known
<1>2. Live(s) /\ sessions'[s] = sessions[s] /\ s \notin q.targets
  BY <1>1, LeftUnselected DEF KnownInv
<1>3. /\ q \in Request /\ Standing(q) /\ Covers(q) /\ q.step = "closing"
      /\ q.write # "nothing" => q.userId \in Users
  BY DEF CommitRevocation, KnownInv, RequestsStand, SnapshotsCover, IInv, TypeOK,
     RequestsNameTheirRow, NamesItsRow
<1>4. /\ sessions[s].familyId \in Families /\ sessions[s].userId \in Users
      /\ proved[sessions[s].familyId] = users[sessions[s].userId].password
  BY <1>2, RowFacts DEF KnownInv, LiveSessionsKnowThePassword, Live, Row, IInv
<1>5. users \in [Users -> Account] /\ proved \in [Families -> Nat]
  BY DEF KnownInv, IInv, TypeOK
<1>6. CASE q.write # "password"
  <2>1. proved' = proved
    BY <1>6 DEF CommitRevocation
  <2>2. \A u \in Users : users'[u].password = users[u].password
    <3>1. CASE q.write = "suspend"
      BY <1>3, <1>5, <3>1 DEF CommitRevocation, AccountAfter, WithStatus, Account
    <3>2. CASE q.write # "suspend"
      BY <1>3, <1>5, <1>6, <3>2 DEF CommitRevocation, AccountAfter
    <3> QED
      BY <3>1, <3>2
  <2> QED
    BY <1>2, <1>4, <2>1, <2>2 DEF Known
<1>7. CASE q.write = "password"
  <2> DEFINE new == users[q.userId].password + 1
  <2>1. /\ users' = [users EXCEPT ![q.userId] = WithPassword(users[q.userId], new)]
        /\ proved' = IF q.keepFamilyId # None THEN [proved EXCEPT ![q.keepFamilyId] = new]
                     ELSE proved
    BY <1>3, <1>7 DEF CommitRevocation, AccountAfter
  <2>2. WithPassword(users[q.userId], new).password = new
    BY <1>3, <1>5, <1>7 DEF WithPassword, Account
  <2>3. CASE sessions[s].userId = q.userId
    <3>1. sessions[s].familyId = q.keepFamilyId /\ q.keepFamilyId # None
      BY <1>2, <1>3, <1>4, <1>7, <2>3, NullAssumption DEF Covers
    <3>2. proved'[sessions[s].familyId] = new
      BY <1>4, <1>5, <2>1, <3>1
    <3>3. users'[sessions[s].userId].password = new
      BY <1>4, <1>5, <2>1, <2>2, <2>3
    <3> QED
      BY <1>2, <3>2, <3>3 DEF Known
  <2>4. CASE sessions[s].userId # q.userId
    <3>1. q.keepFamilyId # None => sessions[s].familyId # q.keepFamilyId
      BY <1>2, <1>3, <1>7, <2>4 DEF Standing, Live, KnownInv, FamiliesHaveOneUser
    <3>2. proved'[sessions[s].familyId] = proved[sessions[s].familyId]
      BY <1>4, <1>5, <2>1, <3>1
    <3>3. users'[sessions[s].userId] = users[sessions[s].userId]
      BY <1>4, <1>5, <2>1, <2>4
    <3> QED
      BY <1>2, <1>4, <3>2, <3>3 DEF Known
  <2> QED
    BY <2>3, <2>4
<1> QED
  BY <1>6, <1>7

LEMMA KnownStep ==
  ASSUME KnownInv, IInv', [Next]_vars, SignInsKnowThePassword, NoRowSlipsIn
  PROVE  KnownInv'
<1>1. FamiliesHaveOneUser' /\ RequestsStand' /\ SnapshotsCover'
  BY FamiliesStep, StandsStep, CoversStep DEF KnownInv
<1>2. \A s \in SessionIds : Known(s)'
  <2>1. CASE UNCHANGED <<sessions, users, proved>>
    BY <2>1 DEF Known, Live, Exists, KnownInv, LiveSessionsKnowThePassword
  <2>2. CASE \E r \in Requests : OpenSession(r)
    BY <2>2, OpenedSessionIsKnown
  <2>3. CASE \E r \in Requests : IssueSuccessor(r)
    BY <2>3, SuccessorIsKnown
  <2>4. CASE \E r \in Requests : WriteReactivation(r)
    BY <2>4, ReactivatedIsKnown
  <2>5. CASE \E r \in Requests : CommitRevocation(r)
    BY <2>5, RevocationLeavesTheKnown
  <2> QED
    BY <2>1, <2>2, <2>3, <2>4, <2>5, SessionsWriters, UsersWriters
<1>3. LiveSessionsKnowThePassword'
  BY <1>2 DEF Known, LiveSessionsKnowThePassword
<1> QED
  BY <1>1, <1>3 DEF KnownInv

\* A password change or reset leaves no session to a device that has not shown it knows the new
\* password, with rotations, re-hashes, sign-outs, suspensions and other changes in flight beside
\* it, unless a sign-in still carries the old password or a row of the account is committed while
\* the change is closing the others: the only two ways a session can escape it.
THEOREM OnlyTheKnowingStay ==
  Spec /\ []SignInsKnowThePassword /\ [][NoRowSlipsIn]_vars => []LiveSessionsKnowThePassword
<1>1. Init /\ IInv => KnownInv
  <2> SUFFICES ASSUME Init, IInv PROVE KnownInv
    OBVIOUS
  <2>1. \A s \in SessionIds : ~Exists(s)
    BY DEF Init, Exists
  <2>2. RequestsStand
    BY IdleStands DEF Init, RequestsStand
  <2>3. SnapshotsCover
    BY DEF Init, SnapshotsCover, Covers, Idle
  <2> QED
    BY <2>1, <2>2, <2>3 DEF KnownInv, FamiliesHaveOneUser, LiveSessionsKnowThePassword, Live
<1>2. KnownInv /\ IInv' /\ [Next]_vars /\ SignInsKnowThePassword /\ [NoRowSlipsIn]_vars => KnownInv'
  <2>1. UNCHANGED vars => NoRowSlipsIn
    BY DEF vars, NoRowSlipsIn, Exists
  <2> QED
    BY <2>1, KnownStep
<1>3. KnownInv => LiveSessionsKnowThePassword
  BY DEF KnownInv
<1> QED
  BY <1>1, <1>2, <1>3, Inductive, PTL DEF Spec
=============================================================================

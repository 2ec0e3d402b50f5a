# A TLA+ model of bad-crm

This directory holds TLA+ modules that model the parts of bad-crm in which
several requests, tabs, transactions or timers meet, TLC configurations that check them on
small instances, and proofs of theorems about them for every instance. Paths below
are relative to the repository; `server/` stands for `packages/server/src/`,
`client/` for `packages/client/src/`.

## 1. The system

bad-crm is a CRM for one or more organizations. A Node API (`packages/server`,
clean architecture: `domain`, `application`, `infrastructure`, `presentation`) keeps
everything that lasts in PostgreSQL and its rate-limit counters in Redis. A React
client (`packages/client`) talks to it with a fifteen-minute access token kept in
memory and a refresh token kept in an HttpOnly cookie.

Three facts shape every module about the database:

* **Every use case runs in one interactive transaction at READ COMMITTED**
  (`server/infrastructure/persistence/prisma/tenant.context.ts`, 74-115), with a
  ceiling of five seconds. Each statement sees what had been committed when it
  started; between two statements of one request any other request may commit.
  A transaction that deadlocks, times out or loses its connection leaves nothing.
* **A row lock is held until commit, and a waiting statement re-reads only the row
  it waited for.** An `UPDATE ... WHERE` chooses its rows from its snapshot; rows
  inserted meanwhile are not looked at.
* **No use case is retried by the server, and nothing runs in the background.**
  There is no job that removes expired rows: expiry is a predicate of every read.

### Components

| Component | State it keeps | Operations | What makes it correct | Modelled |
|---|---|---|---|---|
| Sessions and credentials (`server/application/identity`) | `sessions` (one row per refresh token, chained into families), the digest, status and `permissions_version` of `users` | sign-in, rotate, three ways to sign out, change password, reset, suspend, reactivate | a family has one live token, each is exchanged once, a closed family stays closed, a revocation reaches every session it is meant for | partly |
| Authority (`server/application/iam`) | `organizations.owner_id`, `roles`, `role_permissions`, `user_roles`, `user_permission_overrides`, status and version of `users` | transfer ownership, assign and revoke roles, create, edit and delete roles, personal exceptions, suspend and reactivate | rights only come from people who have them, somebody always owns the organization, tokens are invalidated whenever rights move | partly |
| Browser session (`client/app`, `client/shared/api`, `client/units/auth`) | access token and session state of each tab, the cookie the tabs share, one pending rotation per tab | bootstrap, adopt, rotate, replay a refused request, sign in, sign out | no tab races itself, racing tabs do not destroy the session, everything that waits is woken | partly |
| Password reset (`request-/confirm-password-reset.use-case.ts`) | `password_reset_tokens` | sweep, mint and mail a link, spend it, void the others | a link sets one password or none, never after a newer one | yes |
| Second factor (`*-totp`, `*-recovery-code*`) | draft secret, confirmed secret, last counter, recovery codes | draft, confirm, abandon, regenerate, consume | one batch while the factor is on, a proof opens one door, guesses are bounded | yes |
| Rate limiting (`server/infrastructure/rate-limit`) | counters and penalties in Redis | consume, block, escalate, reset | fails closed, one escalation for one exhaustion | yes |
| Invitations (`write-/accept-invitation.use-case.ts`) | `invitations` | create, send again, withdraw, accept | one acceptance, only while the offer stands | yes |
| Teams | `teams`, `team_members` | create, rename, disband, add, remove, and the part of suspension that empties memberships | nobody suspended is on a team, memberships and versions move together | yes |
| Employee profiles | `employee_profiles` with the manager of each | edit, end and restore at offboarding, read, directory, chart | the chart has no loop, no edit undoes another, a refusal tells nothing | partly |
| Process lifecycle (`server/infrastructure/bootstrap`, `application/platform`) | phase, ready flag, kept verdict, open resources | start, probe, serve, stop | nothing closes under work, ready is true, a stop ends | yes |
| Mail dispatch | messages in flight | dispatch, deliver or lose, drain | leaves after the commit, is drained before the transport closes | partly |
| Role batches and access policies (`write-role-changes.use-case.ts`, `domain/iam/access`) | none of their own: they decide | save a draft of several roles in one transaction, or none of it | the draft is judged by what it leaves behind, nobody locks themselves out | yes |
| Registration and provisioning | organization, owner, seven roles | register | neither or both | no |
| Tenant scope and row-level security | `app.organization_id` of a connection | open a scope, guard a repository | no row of another organization is seen | no |
| Audit trail and logging | `audit_logs` | record | an entry commits with its operation | no |
| HTTP surface, client screens, shared contracts, tooling | none | — | — | no |

### How they interact

* Sessions and Authority share the `users` row. Suspending an account is one
  transaction that closes its sessions, changes its status and moves its version; any
  of the three is enough to refuse its access token
  (`authenticate-session.query.ts`). Every change of rights moves the version too.
* A password change or reset closes sessions and voids every other reset link in the
  transaction that writes the digest.
* Suspending also removes memberships and dates the employment record. `Teams`,
  `Employees` and `Authority` each model the part of that transaction that meets their rows.
* Accepting an invitation creates an account, assigns a role, joins the teams the invitation
  names and opens a session in one transaction, without the locks that the team operations take.
* Drafting and confirming a second factor spend one budget of the rate limiter.
* The browser meets Sessions only through HTTP: a rotation that the server commits
  and the browser never hears of, or hears of late, is where the two disagree.
* Mail is handed over after the commit, is never awaited by its request and may be lost; the shutdown
  drains it before it closes the transport.

### What is hard

Interleavings of statements at READ COMMITTED (a policy reads, another request
commits, the policy's conclusion is written); share locks that both want to be exclusive;
something read before slow hashing and relied on after it; an answer that
arrives after the state it was computed from is gone; tabs that share a cookie and nothing else; a
shutdown over work that may never end; and long sequences of legal edits. Section 6 of this file and
`hazards` in `PROJECT.json` list each of them at the line where it bites.


## 2. The modules

| Module | What it is |
|---|---|
| `TokenFamilies` | abstract specification: what a refresh-token family promises |
| `Sessions` | the transactions of the session repository and of the accounts, statement by statement; implements `TokenFamilies` |
| `Authority` | who may do what in an organization, and every operation that changes it |
| `RoleBatch` | extends `Authority` with the draft of the matrix screen: several roles judged and saved as a whole |
| `BrowserSession` | tabs, cookie jar and wire of one browser, with the server's family as its peer |
| `Offers` | abstract specification: something made once, taken at most once, while it stands |
| `Teams` | teams and memberships beside suspension, with the locks each statement takes |
| `Invitations` | extends `Teams` with invitations; implements `Offers` |
| `PasswordReset` | the links of one account, with the locks each statement takes; implements `Offers` |
| `RateLimiter` | one budget of one subject, command by command; no specification of its own, to be composed |
| `SecondFactor` | extends `RateLimiter` with the factor the budget protects |
| `Employees` | employment records: the walk up the reporting line, the period, offboarding |
| `Readiness` | checks, probes, deadlines, and the verdict that is kept; no specification of its own |
| `Process` | extends `Readiness` with the life of the process from start to exit |
| `…Proofs` | theorems about the module of that name; `AuthorityProofs` also holds those about `RoleBatch`, `InvitationsProofs` those about `Teams` |
| `MC…` | the values of constants and the symmetry TLC needs; `PasswordReset` and `Process` need none |

Definitions with a comment that begins *Mutant* are never part of a specification.
Each is a wrong variant of the definition after it, kept to show which property notices the mistake.

### Sessions

| TLA+ | Code |
|---|---|
| `sessions`, `users` | the tables, as committed |
| `requests[r]` | what a request in flight has read, and the locks its step implies |
| `Login`, `OpenSession` | `login.use-case.ts`: the account is read; after the slow verification the row is inserted and, for an old digest, the re-hash written |
| `PresentSpent`, `PresentLive`, `ReadAccount`, `MarkRotated`, `IssueSuccessor` | `refresh-session.use-case.ts`: token looked up, account read, conditional `UPDATE`, successor inserted and committed |
| `SignOut`, `RevokeOwn`, `RevokeOthers` | `end-session.use-case.ts` |
| `ChangePassword`, `ResetPassword`, `Deactivate`, `Reactivate`, `LockAccount`, `WriteReactivation` | the use cases of that name: read, then the `UPDATE` of `users` that takes its lock |
| `TakeSnapshot`, `CommitRevocation` | `revokeFamily`, `revokeAllFamilies`: the rows of the snapshot, the wait, the re-check, the commit |
| `Rollback` | time-out, lost connection, crash |
| `Tick` | the clock |

Uncommitted writes live in the request and become visible in the commit action. This
is why `MarkRotated` changes no table: it takes the lock (`RowLocked`), and the
spent row appears together with its successor. `proved` is a history variable: the
last password the device of a family has shown it knows. So is the field `met` of a request:
the families that were open when a revocation selected its rows.

### Authority

A request is three moments: `Receive` (the actor is rebuilt from the database and the
route's capability checked), `Decide` or `Refuse` (the transaction reads what its
policy needs), and the write. Editing and deleting a role has a fourth, `BumpHolders`:
"who holds this role" is answered by one statement and the commit is another, a gap
`role-repository.port.ts` 160-167 acknowledges. The policies (`assertTransferable`,
`canAssignRole`, `canRevokeRole`, `assertDeactivable`, `canUpdateRole`,
`canWriteOverride`, …) keep the names they have in `server/domain/iam/access`.
`Effective` folds roles and exceptions as `effective-permissions-reader.adapter.ts` does, expiry
being a predicate of the read. `Expire` is the passing of time.

The organization begins as registration leaves it: its owner is named by the pointer and holds no role, since
`bootstrap-organization.use-case.ts` and `organization.repository.ts` write no row of `user_roles`. (A comment of the
migration that creates the table, `20260805120000_user_roles/migration.sql` 18, says that registration grants one.)
Whoever holds a role at the start of an instance was given it; in `race_last_owner` the owner has given the role
`owner` to two people.

### RoleBatch

A draft is a function from the roles it names to what they should grant: the validator refuses a role named
twice, and the order in which the roles were sent, which decides the order of the row locks, is left open.

| TLA+ | Code (`write-role-changes.use-case.ts`, `role-batch.policy.ts`, `custom-role.repository.ts`) |
|---|---|
| `SendDraft` | the guard of `POST /roles/apply-changes`: the actor as the database has it |
| `ReadDraft` | `readDraft`: the compositions, one statement; a missing role refuses the draft |
| `JudgeDraft`, `judgeRoleChanges`, `rightsTheActorLoses` | `holdingsOf`, a second statement, and the policy; roles that do not move leave the draft |
| `WriteChange` | `applyOne`: the row of one role is locked, or found gone |
| `BumpHoldersOfMany`, `SaveDraft` | one statement for all holders; the commit |
| `AbandonDraft` | deadlock, ceiling, lost connection |

`BatchNext` runs drafts beside every operation of `Authority`. `Undisturbed` is what the locks of a draft forbid
the others: a role being drafted is neither edited nor removed, a bumped account waits. `overtaken` is a
history variable: a row has changed since the actor of the draft was rebuilt.

### BrowserSession

An exchange is three moments: `Send`; one of the server steps (`Rotate`,
`RefuseRefresh`, `DetectReuse`, `SignIn`, `WrongPassword`, `SignOut`, `Serve`, or
`Fail`, an outage); and one of the browser steps (`Adopt`, `Lose`, `Postpone`, `Start`,
`AwaitRefresh`, `Settle`), which applies the cookie and runs every promise that was
waiting in one task. `Render` is the composition root rendering again, which in
`client/app/app.component.tsx` happens only when the session changes. `AccessExpires`, `GraceEnds` and
`EndedElsewhere` are time and other devices. The server here is the family of
`Sessions` with one commit per exchange.

### Teams

A request is a record of what it has read and of the locks it holds; `Wants` says which locks the
next statement needs, `Granted` that nobody else holds one that conflicts, `InDeadlock` that the
waiting has closed into a circle, which only `AbortDeadlock` (or a rollback) opens.

| TLA+ | Code (`team.repository.ts`, `write-team.use-case.ts`, `delete-team.use-case.ts`, `manage-team-members.use-case.ts`, `user-lifecycle.repository.ts`) |
|---|---|
| `Address`, `AdmitSubject` | `scope` and `subject`: the team and the account under `FOR SHARE` |
| `ExamineMembership`, `WriteMembership`, `AddMember` | the row under `FOR UPDATE`, the upsert, the bump of the version and the commit |
| `TakeMembership`, `RemoveMember` | the delete, and the same end |
| `HideTeam`, `DeleteMembers`, `DisbandTeam` | the conditional `UPDATE` of `deleted_at`, `DELETE ... RETURNING`, the bump of whom it returned |
| `CreateTeam`, `ReadFirst`, `RenameTeam` | the insert under the partial unique index of slugs; read, then `updateMany` |
| `SuspendAccount`, `LeaveTeams`, `ReactivateAccount` | the `UPDATE` of the account, then `DELETE FROM team_members`; reactivation restores none |

A comment in `team.repository.ts` (255-262) explains what happens when two requests
create the same membership at once. In the model that pair never gets so far: both
hold the account under `FOR SHARE` and both then want it exclusively, so one of them is
aborted as a deadlock.

### Invitations

`exchanges[r]` is a request about an invitation. `CheckAddress` and `CreateInvitation` are two statements;
`ReadInvitation` and then `ResendInvitation` or `RevokeInvitation` likewise. An acceptance is `ResolveLink` (before
the transaction, before the hashing), `ReadOffer`, `SpendInvitation` (insert of the account, then the conditional
`UPDATE`), `JoinTeams` (`INSERT ... SELECT` the teams that are live, without a lock) and `AcceptInvitation`,
the commit. `Step(r)` composes them with the steps of `Teams`: a request is about one or the other, both share
`accounts`, `teams` and `members`. `Expire` is the seventh day.

### PasswordReset

One account, since nothing here touches another's. Asking: `AskForLink`, `FindSettled` and `DeleteSettled` (the sweep
takes its rows from a snapshot, then waits for them), `InsertLink` (the commit), `DispatchLetter` (arrives or is
lost). Presenting: `ResolveLink`, `ConsumeLink` (the conditional `UPDATE`, with the clock read before the
transaction), `AdmitAccount` (a suspended account is refused and the spend is *kept*), `WritePassword`,
`FindOutstanding`, `InvalidateOutstanding`, `CommitPassword`. `ChangePassword` enters the same tail from
`change-password.use-case.ts`. `setters` and `turnedAway` are history variables.

### RateLimiter and SecondFactor

`CountAttempt` is the `SET NX`/`INCR` pair of the library, `BlockOnce` its own block when a budget is spent,
`CountPenalty` and `LengthenBlock` the escalation the adapter adds as two more commands, `ClearAttempts` and
`ClearPenalties` the reset after a success, `LoseStore` Redis out of reach at any of them. A key is a value and the
ticks it has left. Time may pass between any two of these commands and between any two statements of a request.

In `SecondFactor`, `BeginDraft` is `setup-totp`, `JudgeCode` and `CommitEnrolment` the two halves of `confirm-totp`
with the hashing of a batch between them, `AbandonDraft` the refusal that discards the draft, `JudgeForBatch` and
`ReplaceBatch` `regenerate-recovery-codes`, `MatchCode` and `SpendCode` `consume-recovery-code`. The last one is in
the application layer and no route reaches it yet. `BeginDraft` stamps the draft when its statement runs, which may be
long after the command that opened the window. `guesses` and `accepted` are history variables, and the field `aim` of
a request is the draft its code was sent to: `guesses` counts the wrong codes sent to the draft there is and judged
against it, and a code sent to an earlier draft is not one of them.

### Employees

`Receive` is the policy of `write-employee-profile.use-case.ts`, `ReadLinks` the snapshot of the chart, `Climb` one link
of `closesManagerCycle`, `CheckPeriod` the check of the dates (a caller who may not see them is judged on what they
send), `Upsert` the statement with the columns of the patch under the constraints of the table. The upsert is taken
as one statement, as the repository's own comment describes it. `Suspend` and `Reactivate` are what offboarding and its
undoing do to the record. The field `overtaken` of a request is a history: somebody was put below a manager since it
read the chart.

### Readiness and Process

`BeginCheck`, `Probe`, `TimeoutProbe`, `Conclude` are `check-readiness.use-case.ts`: a fresh verdict is repeated,
otherwise each dependency is asked under a deadline and the verdict is kept with the moment its check *began*. `Tell`
reads the flag of `ProcessLifecycleAdapter` when the answer is made. In `Process`, `StartStep` follows
`api-process.factory.ts` and the container in their order; `Signal` raises the flag, arms the deadline and calls
`server.close()` in one turn of the event loop; `ServerClosed` waits for connections, not for handlers; `CloseStep`
takes the resources in the order of `container.factory.ts`; `ForceExit` is the deadline.

## 3. What is checked

Eleven runs, one for each question, check thirty-nine properties that hold. Every one has a mutant in `PROJECT.json`:
a wrong variant of one definition with which TLC finds the property violated. A twelfth run, `race_last_owner`, ends
in a violation and is the finding described below.

| Run | Question | Instance |
|---|---|---|
| `rotation` | Does a family survive any interleaving of rotations, sign-outs and sign-ins? Also the refinement of `TokenFamilies`. | 1 account, 3 rows, 2 families, 2 requests, grace 1 and life 2 of 2 ticks |
| `accounts` | Beside suspension, reactivation, a change and a reset of the password: is what escapes a suspension stale, does anything but a rotation escape a closing, does a refused access token stay refused, does every request end although requests wait for each other's locks? | 1 account with a weak digest, 2 rows, 1 family, 2 requests, 2 status changes, 1 new password |
| `conserve` | Can drafts of several roles, assignments, new and removed roles and exceptions, by people who are not the owner, produce a right none of them had, or lock the author of a draft out? | 2 actors, 3 roles, 6 keys, 5 drafts, 2 requests, assignments that expire |
| `ownership` | Do overlapping transfers and revocations move the pointer only on the word of the owner of that moment, and does a request whose work another has done sign nobody out? | 3 actors, 2 requests, an assignment that expires |
| `authority_serial` | Is every operation on authority right when it runs alone? | 10 operations, 2 accounts, either of which may come to own the organization, 3 roles, 8 keys |
| `browser` | Do two tabs of a browser keep one session, whatever expires, fails or arrives late? | 2 tabs, 2 refresh tokens, 1 outage |
| `workspace` | Teams, invitations and suspension together: who is on which team, when does a version move, is an invitation taken once, does every request end? | 1 newcomer, 1 team, 1 invitation, 2 links, 2 requests, every operation |
| `reset` | Does a link set one password or none, however it is presented, voided, refused, outlived or swept? | 2 links, 2 requests |
| `factor` | Can drafts, confirmations, batches and codes be interleaved into more guesses, two batches, or a proof taken twice? | 2 requests, a budget of 2, window 2, block 2 to 3, memory 3 of the clock, 2 secrets, 3 batches, 1 code, counters to 2 |
| `chart` | Is a loop of managers closed by nothing but an edit that was overtaken, and does any edit undo another or tell a date it may not? | 3 people, 3 overlapping edits, 2 days |
| `process` | Is anything closed under work, is "ready" ever wrong, does every stop end? | 2 requests, 2 checks, 1 dependency, deadlines of 2 ticks |

`authority_serial` is deliberately about requests that do not overlap: its three properties hold of the code then,
and the theorems of section 4 say which overlaps, and no others, take them away; `MCAuthority_race_transfer`
and `MCAuthority_race_lockout` below show two of them, and the port's own comment describes the third. Concurrency is the subject of all the other runs.

### The finding

`race_last_owner`: two people hold the role `owner`, two revocations overlap. Each counts the holders that would be
left, finds the one whom the other is about to remove, and deletes its row: nobody holds the role.
`revoke-role.use-case.ts` 23-28 and `role-assignment.policy.ts` 71-73 say that this cannot happen because the count is
made inside the transaction. At READ COMMITTED a plain `SELECT` there takes no lock and sees what was committed before
it. The owner named by the pointer keeps every right, so the organization is not lost; what the comments promise is.

### Further configurations

Each ends in a violation of the property its `.cfg` names, and shows behaviour worth knowing:

| Configuration | What happens |
|---|---|
| `MCSessions_race_rehash` | A sign-in verifies the old password, a reset writes a new one, the sign-in's re-hash writes the old one back (`identity-repositories.test.ts` 204: "a row that moved between the sign-in and the re-hash leaves the digest as it was"). |
| `MCSessions_race_reset` | A sign-in that verified the old password commits its session after a reset has closed all of them. |
| `MCAuthority_race_transfer` | Ownership is transferred to an account while it is being suspended. Both commit. |
| `MCAuthority_race_lockout` | Two edits of two roles, each relying on the other, take the last right to edit roles from the editor. |
| `MCAuthority_race_twice` | Two people offboard somebody at the same moment: both read the account as active, both suspend it and move its version (`deactivate-user.use-case.ts` 71-72: "the second run must not read in the log as a second event"). |
| `MCAuthority_regrant` | Assigning a role whose earlier assignment has expired answers success and gives nothing (`assign-role.use-case.ts` 21: "or confirms they already have it"). |
| `MCBrowserSession_outage` | One failed `POST /auth/refresh` at load leaves the tab on its loading screen: nothing renders again, so nothing asks again. |
| `MCBrowserSession_race_tabs` | The refusal of a lost race arrives after the winner's cookie and clears it. |
| `MCBrowserSession_late_refresh` | A rotation answered after a sign-out puts a token back into memory. |
| `MCInvitations_race_disband` | An acceptance reads a team as live, the team is disbanded, the acceptance inserts its membership: a team that is gone has a member. `OnlyInviteesOutliveATeam` says it is the only way. |
| `MCInvitations_race_replaced` | An acceptance resolved by one link commits after the invitation was sent again with another. |
| `MCSecondFactor_race_setup` | A draft is replaced while a code of its predecessor is being verified: what is turned on is not what was verified. |
| `MCSecondFactor_spent_secret` | The window turns over between the wrong guesses at a secret, so none is refused and nothing discards the draft; the secret is then confirmed (`confirm-totp.use-case.ts` 75-76: "the secret that absorbed five wrong guesses is never confirmable again"). |
| `MCEmployees_race_loop` | Two appointments, each of which read the chart before the other wrote, close a loop (`write-employee-profile.use-case.ts` 63-65 says it cannot). |
| `MCEmployees_offboarding` | Somebody whose hiring date lies in the future cannot be offboarded: the end date written is before it, the constraint refuses the transaction, and the answer is a 500. |
| `Process_abandoned` | A handler whose client has hung up is not waited for: it works on a closed pool. |

### Bounds

Two concurrent requests are enough for every race found here, since each is a pair: one reads, the other commits, the
first writes; three edits let a loop close through three people. Three session rows make a chain with a fork possible,
two families a revocation that should spare one of them. Clocks only need to pass the durations that matter.
`MaxVersion` caps the status changes and `MaxPassword` the new passwords of `Sessions`; `VersionWrap` keeps a version
modulo 2, which is sound for properties that only compare versions across one step. In `BrowserSession`, `MaxTokens`
caps what the server issues (afterwards it answers 5xx), `Outages` the failed exchanges, `Offers` which requests a tab
may send, `Slow` whether an answer may outlast the ten-second grace. `Bystanders`, `Actors`, `Compositions`,
`Exceptions`, `Terms` and `Drafts` bound the inputs of `Authority` and `RoleBatch`. `Ids`, `MaxLinks`, `Slugs`,
`Links`, `Secrets`, `Batches`, `Codes` and `MaxCounter` bound what is ever created by the other modules, `Edits` what
an edit of a record may ask for, `Memory` how long the store remembers.

Symmetry is used only in runs without a liveness property: ids of rows, requests, people, secrets and batches are
interchangeable.

### Fairness

* `Sessions`: strong fairness of `Advance(r)` for each request. PostgreSQL queues the waiters of a
  row in order, so a request whose lock becomes free again and again is not
  overtaken for ever; the event loop resumes it. `Rollback` is never owed: that every request
  ends is shown without the help of the five-second ceiling.
* `Teams`, `Invitations`, `PasswordReset`: the same for the steps of each request, and weak fairness of the abort
  of one request of a deadlock, which PostgreSQL detects after a second.
* `BrowserSession`: weak fairness of each tab's render, of the answer to each exchange
  that was sent, and of the browser's handling of it. Nobody owes opening a tab, sending
  a request, or the expiry of a token.
* `Process`: weak fairness of the clock, of the forced exit once its deadline has passed, and of the deadlines of
  probes. No request, message, dependency or resource owes anything: `EveryStopEnds` holds although all may hang.
* `Authority`, `RoleBatch`, `SecondFactor` and `Employees` state safety only and assume none.

Deadlock is checked except where the system really may stop: a suspended account with no session and nobody to
reactivate it (`accounts`); a browser whose tabs have all been opened and offer nothing more; an organization whose
drafts have emptied every role while its owner sends nothing (`conserve`); records whose edits are done and whose
hiring dates block every suspension (`chart`); a process that has exited.

## 4. What is proved

Forty-six theorems in eight modules, each for every value of the constants. The assumptions are the named `ASSUME`s of
the modules (`ParamAssumption`, `NullAssumption`, `BatchAssumption`, `InvitationAssumption`, `LimiterAssumption`,
`FactorAssumption`, `EmployeesAssumption`, `ReadinessAssumption`, `ProcessAssumption`): bounds are naturals, the
inputs that are enumerated have the shape the validators let through, SQL's `NULL` is no id. TLC evaluates them in
every run. A theorem that needs more says so as a hypothesis, and the sections below say why it is necessary. No
theorem assumes that requests do not overlap: where an overlap does break a property, the hypothesis names that pair
of steps. Every safety invariant and every action property of the runs is stated by one of them; liveness is not.

| Module | Theorem | Statement |
|---|---|---|
| `SessionsProofs` | `TypeCorrect` | type correctness |
| | `OneLiveRow` | a family never has two live rows |
| | `ChainIsALine` | a row has at most one successor, in its own family and of its own user, and only if a rotation closed it |
| | `RevokedRowsStay` | a closed row never changes again |
| | `SessionsImplementTokenFamilies` | every behaviour of `Sessions` is one of `TokenFamilies` |
| | `ClosedIsClosed` | a family without a live row never has one again |
| | `RefusedForGood` | an access token that was refused once is refused ever after, however requests overlap |
| | `OnlyTheKnowingStay` | a live session belongs to a device that has shown the password in force, unless a sign-in still carries an old one (`SignInsKnowThePassword`) or a row of the account is committed while a change is closing the others (`NoRowSlipsIn`) |
| | `LeftoversAreStale` | every row of a suspended account carries a version the account has left behind, the ones that escaped its revocation included |
| | `ClosingMissesOnlyRotations` | what a closing leaves live, of the families open when its statement began, overtook it: a row it had selected was exchanged before it could be written |
| `AuthorityProofs` | `AuthorityTypeCorrect`, `BatchTypeCorrect` | type correctness, without and with drafts |
| | `OwnershipMoves` | the pointer moves only in a transfer that the account it names asked for, to the account that was asked for |
| | `OwnerCanSignIn` | the owner's account is never suspended, unless one account is about to be handed the organization and about to be suspended at the same moment (`TransfersMeetNoSuspension`) |
| | `NobodyIsSignedOutForNothing` | a transfer, an assignment or a revocation moves a version only of somebody of whom the rows say something new |
| | `VersionsFollow` | a commit that changes what somebody may do moves their version, unless a role is edited, or given, under a request that edits or removes it (`RolesAreNotOvertaken`) |
| | `EditorsKeepEditing` | an edit or removal of a role leaves its author the right to edit roles, unless what the author holds is changed meanwhile (`EditorsAreNotOvertaken`) |
| | `RightsAreConserved` | if the owner sends nothing and no exception is lifted (`NobodyGivesAway`), nobody ever has a right that none of the others had at the start |
| | `DraftsConserveRights` | the same with drafts of several roles in flight |
| | `DraftsLeaveAWayBack` | a draft nobody overtook leaves its author the right to edit roles they had |
| `BrowserSessionProofs` | `BrowserTypeCorrect` | type correctness |
| | `ShellAlwaysHoldsItsToken` | a tab with a signed-in screen has a token to send |
| | `TabsNeverRaceThemselves` | a tab never presents a refresh token it has itself spent |
| | `SignedOutTabsStayOut` | only the sign-in form brings a signed-out tab back |
| | `DetectionSparesLiveSessions` | while answers arrive within the grace (`~Slow`), the detection of reuse closes no family with a live row |
| `InvitationsProofs` | `TeamsTypeCorrect` | type correctness of `Teams` |
| | `SuspendedLeaveEveryTeam` | nobody suspended is on a team |
| | `MembershipsAreCounted` | a membership never appears or disappears without the version of its person moving |
| | `SuspendedLeaveInvitedTeams`, `InvitedMembershipsAreCounted` | the same with invitations in flight |
| | `DisbandingLeavesInviteesOnly` | only somebody who came by invitation is ever left on a disbanded team |
| | `InvitationsImplementOffers` | an invitation is an offer: taken at most once, while it stands |
| `PasswordResetProofs` | `ResetTypeCorrect` | type correctness |
| | `RefusalsAreFinal` | a link refused to a suspended account never sets a password |
| | `OutstandingLinksDie` | a committed password voids every link outstanding when it was written |
| | `LinksAreOffers` | a link is an offer |
| `SecondFactorProofs` | `AccountsHoldOneBatch` | the factor is on with exactly one batch of codes, or off with none |
| | `NoProofIsTakenTwice` | no time step and no recovery code is accepted twice |
| | `GuessingMeetsItsBudget` | at most two budgets less one of the codes sent to a draft are judged against it and found wrong, however long requests take and whichever commands of the limiter fail |
| `EmployeesProofs` | `EmployeesTypeCorrect` | type correctness |
| | `OnlyOvertakenEditsCloseALoop` | a loop of managers is closed by nothing but an edit under which another link was made since it read the chart, for any number of people |
| | `TheSentDatesDecide` | an edit of dates by somebody who may not see them is answered by what it carries, or "cycle" for the manager it names |
| | `StoredDatesDoNotShow` | if no edit of dates also appoints a manager, equal edits of dates get equal answers whoever they are about |
| | `EditsAreNotUndone` | an edit writes the columns it was asked for and no other |
| `ProcessProofs` | `ShutdownSparesTheWork` | no resource is closed under a request or message that the shutdown waits for |
| | `ReadyMeansReady` | "ready" is never answered after a stop began, nor on a verdict older than its time to live |

### Sessions

None of the invariants is inductive alone. A successor is inserted by a request that spent a row two statements ago,
so `OneLiveRowPerFamily` needs to know that the row is still live and that nobody else is about to replace it:
`RotationOwnsItsRow`, which the conditional `UPDATE` establishes and its lock keeps. That in turn needs every request
in flight to name a row that exists and belongs to the account it read, `RequestsNameTheirRow`, and the chain needs
its links to point at rows that exist, `ChainIsClosed`. Together with `TypeOK` and `ChainNeverForks` they are `IInv`.
The proof goes action by action: the lemmas `SessionsWriters`, `OpenSessionRows`, `IssueSuccessorRows` and
`CommitRevocationRows` say once what each of the only three actions that write the table does to a row. The refinement
maps inserting a first row to `Open`, a rotation to `Exchange`, a revocation to `Close` of the families whose last
live row it closed, and everything else to a stutter.

`RefusedForGood` needs `VersionsLag`: no row, and no row a request is about to insert, carries a version that its
account has yet to reach. Without it a reactivation could move a version up to that of a token that was refused
before. Every write of `users` leaves the version or raises it, so it holds however requests overlap.

`LeftoversAreStale` rests on the same: `Behind` says that a row, and a request that will insert one, carries no
version above its account's, and a lower one while the account is suspended: a suspension moves the account past all
of them. So a session that escapes a suspension, by a sign-in or a rotation that was under way, opens nothing.

The last two are about what is still true when a revocation writes. `RequestsStand` says it of each request, whatever
the others do (`Standing`): the families it names were opened; and when it has selected its rows, every row live now of
what it is meant to close, in a family open when it looked, is one it selected or has a selected sibling that was
exchanged. `StandingKeeps` shows that no step of anybody takes this away: the only step that adds a live row to an open
family is a rotation, and it spends a row of that family. `ClosingMissesOnlyRotations` follows, with no hypothesis.

`OnlyTheKnowingStay` has two, each one race that the code leaves open; `MCSessions_race_reset` shows the first.
`KnownInv` adds `Covers` (a change of the password has selected every live row it is not to keep) and
`FamiliesHaveOneUser`, which makes "every session but this one" exact: sparing the family of the caller spares no row of
somebody else. Rotations, sign-outs, suspensions, and re-hashes may all be in flight; a rotation is excluded only when
it commits between the snapshot of the change and its commit.

### Authority and RoleBatch

The hypotheses are necessary, and each names the pair that races. `TransfersMeetNoSuspension`: in
`MCAuthority_race_transfer` an account is handed the organization while it is being suspended. `RolesAreNotOvertaken`:
an assignment that commits in the gap of `BumpHolders` changes rights without moving a version, the case the port's
comment describes. `EditorsAreNotOvertaken`: in `MCAuthority_race_lockout` two edits take from one editor the roles
that each relied on; and a right may end under its holder. `NobodyGivesAway`: the owner may legitimately grant
anything, and `permission-override.policy.ts` (73-87) compares the lifting of a `DENY` with nobody's rights.
`NobodyIsSignedOutForNothing` needs none. It is about transfers, assignments and revocations: an exception rewritten
with the effect it had, a role saved without a difference to its holders' rights and a suspension of somebody whom
another request has just suspended do move a version for nothing, in the code and in the model.

`TypeOK` is inductive with `RequestsAreWellFormed`: a request in flight carries an input of the shape its operation
takes. `RootIsActive` needs `DecisionsStand`: between the decision of a transfer or suspension and its write, what was
decided is still true; the account that is to become the owner is not suspended meanwhile because, by the hypothesis,
nobody is about to suspend it. `AuthorityIsConserved` needs `RequestsAreCautious`: what a request was found to hold
when it was let in lies within the rights of the beginning, what it is about to write lies within what it holds, and,
while an assignment is decided and not yet written, so does what the role grants, *although that role may be edited in
between*. The last part is why the subset rule survives reading stale data: an edit that overtakes the assignment has
itself passed the subset rule. `CommitConserves` is the one lemma about commits: a write is harmless if every right it
makes usable was usable before or lies within the rights of the beginning.

The others have an invariant each, and each says what of a decision is still true at the write, whoever else is at
work. `WorthInv`: a transfer that was decided is to somebody else. `RowsInv` (`Settled`): an edit nobody overtook
writes over what it read, and its bump has reached everybody who holds the role; nobody holds a role that is gone
(`HeldRolesExist`), and the provisioned ones stay. `AwareInv` (`Aware`): the rights that the rule against locking
oneself out was asked with are those of the rows.

Drafts add `Modest` (what a draft may put into a role lies within the rights of the beginning) and `Current`: as long
as nothing has overtaken a draft, what it read is what the rows say and, once judged, the governing rights its author
holds are among those it leaves. `JudgedKeeps` is the heart of it: leaving out the roles that do not move changes
nothing in the end state the rule was asked about. `DraftsRead` reduces every step of a draft but its commit to one
that writes no row.

### BrowserSession

`IInv` has three parts. `TypeInv` adds to the types that every token named anywhere has been issued and that every
stage of an exchange carries what it should. `TokenInv` relates the server's rows, the cookie jar and the wire. A
spent token is in the jar only while the tab that spent it has not heard of the next one (`SpentCookieIsReplaced`), so
the next request of that tab finds the successor: `NobodyPresentsItsOwn` follows. A token on its way to a tab is known
to nobody else (`Fresh`). A closed family has no live row (`ClosedIsWhole`). `TabInv(t)` is what a tab knows of
itself: a rotation in flight is awaited by the start of the tab or by a refused request, and a signed-in tab has a
token in memory.

`~Slow` says that no exchange outlasts the ten seconds of `REFRESH_RACE_GRACE_SECONDS`. With `Slow` set, TLC finds a
live family closed within six states: the second tab's request is read after the grace of the first has ended.

### Teams and Invitations

`IInv` of `Teams` is `TypeOK`, `RequestsAreShaped` (a request holds the locks its step implies and names what it
addressed), `LocksAgree` (no two requests hold locks that conflict) and `PromisesHold` (what was read under a lock is
still so). `InvitationsIInv` carries the invariant of `Teams` over to a larger system: `Tabled`, `Ordered`, `Present`,
and the observation that an acceptance only adds rows for somebody who was absent when it began, so that it cannot
break what a team operation relies on. Type correctness of `Invitations` is not proved: that the number of links stays
under its bound is a counting argument.

### PasswordReset

A row under a lock keeps its state, a link once settled never stands again, and every request in the tail of a new
password knows the links outstanding when it looked. The refinement maps the commit of a spend to the taking of the
offer, and voiding, expiry and sweep to its withdrawal.

### SecondFactor

A batch being minted is untouched and in nobody else's hands; the time step a confirmation is about to record lies
behind the counter of whatever has been accepted. The rate limiter takes no part in these two.

`GuessingMeetsItsBudget` is about the limiter. A draft lives as long as a window, from its own stamp. The key of the
attempts that is there when it is drafted was opened by the drafting or by something before it, so it has counted an
attempt that was no guess at this secret: a budget less one is left in it, and if it dies before the draft one further
key can begin while the draft lives, a budget more. (The key may also have died before the stamp, since
`setup-totp.use-case.ts` consumes at line 76 and stamps at line 92; the next one then outlives the draft, and there is
one budget in all.) `BudgetInv` says it step by step. `Guessing` are the requests that were let through with a code
sent to this draft and have not judged it yet. `Budgeted` bounds the codes judged so far together with those, in three
cases: with no key, by a budget less one; with a key that dies before the draft, by what it has granted less one; with
a key that lives as long as the draft or longer, by a budget less one and what that key has granted. Counters are
cleared after a success only, and a success has turned the factor on (`SuccessTurnsOn`), which ends the guessing. Any
command of the limiter may fail, and time may pass between any two.

Two hypotheses. `Block >= Window`: with a shorter block, the block that replaces an exhausted key would end before the
draft does, and a draft could meet a third key; `rate-limit-policy.constant.ts` sets both to fifteen minutes for
`mfa_setup_attempt`. `PowersArePositive`: `2^n` is at least one. That is true of the naturals, but the provers have no
rule for exponentiation and proving it takes an induction; the limiter doubles its blocks.

### Employees

Acyclicity needs no induction over the chart: the set of people a walk has passed, together with the one it began
from, is closed upwards once the walk has reached the top, and an appointment whose walk did not meet the subject
hangs the subject under a set that does not contain them. `Climbing` and `Above` say it of an edit under way, and
`Appointed` that they stay true until another link is made; clearing a manager, offboarding and edits of other columns
only cut links. That the exception is real is `MCEmployees_race_loop`.

`Judged` follows an edit of dates by somebody who may not see them: past the judgement of the period the answer can
only be "saved", because such a caller's period is judged by the two dates sent (`Verdict`), because every row in the
table is one its constraints let in (`RowsStorable`), and because the walk has already turned away somebody appointed
to themselves. So no answer depends on what is stored, with one exception that `TheSentDatesDecide` names: an edit
that also appoints a manager may be answered "cycle", which says who reports to whom. That is public in the chart, and
it is why `StoredDatesDoNotShow` asks for `DatesComeAlone`.

### Process

The invariant ties the phase to the resources that are open and the work that is counted, and the kept verdict to the
moment its check began, which is never later than the answers of its probes.

## 5. What is only model-checked, and what is not modelled

Checked by TLC on the instances above and not proved: every liveness property (`EveryRequestEnds`, `EverythingEnds`,
`RequestsEnd`, `EveryStopEnds`), since liveness under fairness and `ENABLED` are outside what the installed provers
do; the type correctness of `Invitations` and of `SecondFactor` with its limiter as a theorem of its own (the parts
that the other proofs need are in their invariants); and that an unbounded exponent is positive (section 4,
`SecondFactor`).

Not modelled inside modelled components:

* `Sessions`: what the session list shows; addresses and user agents. `CommitRevocation` takes all its rows at once
  and waits until none of them is under rotation; `session.repository.ts` locks them one by one and keeps the earlier
  ones meanwhile. With several families of one account that allows further circles of waiting, which the database
  ends by aborting a request (`Rollback`).
* `Authority`, `RoleBatch`: the expiry of an exception; step-up confirmation and the confirmation of dangerous keys;
  the audit trail; keys withdrawn from the catalogue. A lifted `DENY` is not bounded by the subset rule in the code, so
  `conserve` leaves that operation out and says so.
* `BrowserSession`: an answer lost after the server acted (the spent cookie would be
  presented again), a reload, malformed bodies, the thirty-day expiry of a row, signing in by
  accepting an invitation. `optimistic.util.ts` is used by no mutation yet.
* `Teams`: an insert under the slug of a team whose disbanding is not committed yet waits for it; `CreateTeam` answers
  the conflict at once.
* `PasswordReset`: `DeleteSettled` and `InvalidateOutstanding` take the rows of their snapshot in one step; the
  statements lock them one after the other. That allows further circles of waiting, which the database breaks like
  those in the model.
* `Invitations`: the role an invitation offers, whose rule is that of `Authority`; the letter; the session.
* `SecondFactor`: the password asked for beside a code; the budgets of replacing a batch and of spending a code.
  `confirm-totp.use-case.ts` says a secret that absorbed five wrong guesses is never confirmable again: the model bounds
  the guesses at one secret by two budgets less one, the bound is reached, and a secret that absorbed a whole budget is
  confirmed in `MCSecondFactor_spent_secret`.
* `Employees`: the upsert is one step; the walk reads one link per step from the snapshot of the chart; the emergency
  contact.
* `Process`: what is unreferenced and would let the process exit by itself, and the signals of a process with id 1.
  A timer that is due fires before time passes. No request is accepted once `server.close()` was called, although a
  connection kept alive may still carry one; it would hold its connection open as those accepted before do.

Not modelled at all, with the reason, is in `components` of `PROJECT.json`: registration is two transactions, the
second idempotent; row-level security is policy text that the database enforces, so each module is about one
organization; the HTTP layer is stateless; screens render what queries return; the audit entry is an insert in
the transaction it reports.

## 6. Hazards

`hazards` in `PROJECT.json` gives each with its line. By theme:

* **read, then write, with another commit between**: rotation and reuse detection; sign-in against reset and suspension;
  the re-hash; transfer against suspension; the count of owners; edits of one role, and of several; an acceptance
  against a disbanding, a withdrawal, a second letter; a draft secret replaced while a code of it is verified; two
  appointments that close a loop;
* **locks**: two share locks that both want to be exclusive (`team.repository.ts` 87 and 237); two links of one
  account confirmed at once; account and session rows; roles and their holders, taken in one order by an edit and in
  the other by a removal;
* **late, lost or reordered answers**: the cookie of a lost race, a rotation answered after a sign-out, an outage at
  load, overlapping readiness checks;
* **limits**: the budget of guesses across windows, drafts, blocks and a store that fails half-way; a shutdown over
  work that never ends;
* **long legal sequences**: authority assembled by several people; a token or a link that becomes valid again after a
  reactivation; the right to edit roles moved out of its author's reach.

Two are known and not covered: the answer to a rotation lost after its commit, and the
refusal of a lost race that reaches the browser last (shown by `MCBrowserSession_race_tabs`).

## 7. What is left

1. Proofs: type correctness of `Invitations`, with the counting argument that bounds its links.
2. Composition: `Sessions` with `PasswordReset` (which password a session has shown) and with `BrowserSession` (the answer
   that is lost after the commit).
3. `Registration`: two transactions with a crash between them, the second repeated.
4. `TenantScope`: the connection, its organization, and a repository used outside a scope.

## 8. Running

```
tlc -workers 2 -config MCSessions_rotation.cfg MCSessions.tla
tlc -workers 2 -config MCAuthority_serial.cfg MCAuthority.tla
tlc -workers 2 -config MCRoleBatch_conserve.cfg MCRoleBatch.tla
tlc -workers 2 -config MCBrowserSession_browser.cfg MCBrowserSession.tla
tlc -workers 2 -config MCInvitations_workspace.cfg MCInvitations.tla
tlc -workers 2 -config PasswordReset_reset.cfg PasswordReset.tla
tlc -workers 2 -config MCSecondFactor_factor.cfg MCSecondFactor.tla
tlc -workers 2 -config MCEmployees_chart.cfg MCEmployees.tla
tlc -workers 2 -config Process_process.cfg Process.tla
tlapm SessionsProofs.tla      # and each of the other seven …Proofs modules
```

The largest runs are `factor` (2.2 million distinct states), `conserve` (1.6 million), `authority_serial`
(1.5 million), `ownership` and `chart` (1 million each), up to three minutes each with two workers; `browser` has 210 thousand, with liveness.

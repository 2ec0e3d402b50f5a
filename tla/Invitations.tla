---------------------------- MODULE Invitations ----------------------------
(***************************************************************************)
(* Invitations: writing one, sending it again, withdrawing it, and         *)
(* accepting it, which creates the account, spends the invitation and      *)
(* joins the teams it names in one transaction, beside everything Teams    *)
(* does to the same teams and accounts.                                    *)
(*                                                                         *)
(* An acceptance is longer than its transaction: the link is resolved to   *)
(* an invitation first, the password is hashed, and only then is the       *)
(* transaction opened, by the id that was resolved.                        *)
(***************************************************************************)
EXTENDS Teams

CONSTANTS
  Ids,        \* ids of invitations, written or yet to be
  AddressOf,  \* bound: the newcomer each of them would be written to
  MaxLinks    \* bound: how many links one invitation may be given

ASSUME InvitationAssumption ==
  /\ AddressOf \in [Ids -> Newcomers]
  /\ MaxLinks \in Nat \ {0}
  /\ None \notin Ids

VARIABLES
  invitations,  \* the table: which link is the last, whether it is still in time
  exchanges     \* what each request about an invitation has read and done

invitationVars == <<invitations, exchanges>>
allVars == <<vars, invitationVars>>

-----------------------------------------------------------------------------
Invitation == [state : {"unwritten", "open", "accepted", "withdrawn"},
               link : 0 .. MaxLinks, inTime : BOOLEAN, teams : SUBSET Teams]

Exchange == [step : {"idle", "checked", "read", "resolved", "settling", "spent", "joined"},
             op : {"create", "resend", "revoke", "accept", None},
             id : Ids \cup {None}, link : 0 .. MaxLinks, teams : SUBSET Teams]

Quiet == [step |-> "idle", op |-> None, id |-> None, link |-> 0, teams |-> {}]

InvitationsTypeOK ==
  /\ TypeOK
  /\ invitations \in [Ids -> Invitation]
  /\ exchanges \in [Requests -> Exchange]

InvitationsInit ==
  /\ Init
  /\ invitations = [i \in Ids |-> [state |-> "unwritten", link |-> 0,
                                   inTime |-> FALSE, teams |-> {}]]
  /\ exchanges = [r \in Requests |-> Quiet]

-----------------------------------------------------------------------------
\* An acceptance that has inserted its account holds the address and the row.
Spending(q) == exchanges[q].step \in {"spent", "joined"}

RowFree(i) == \A q \in Requests : Spending(q) => exchanges[q].id # i

AddressFree(i) ==
  \A q \in Requests : Spending(q) => AddressOf[exchanges[q].id] # AddressOf[i]

Registered(i) == accounts[AddressOf[i]].status # "absent"

Exchanging(r, op, step) == exchanges[r].op = op /\ exchanges[r].step = step

Turn(r, x) == exchanges' = [exchanges EXCEPT ![r] = x]

Close(r) == Turn(r, Quiet)

Begin(r, op, step, i, link, offered) ==
  /\ exchanges[r] = Quiet
  /\ Turn(r, [step |-> step, op |-> op, id |-> i, link |-> link, teams |-> offered])

-----------------------------------------------------------------------------
(* Writing, sending again, withdrawing.                                    *)

\* userExists is read; the insert is a later statement.
CheckAddress(r, i, offered) ==
  /\ invitations[i].state = "unwritten"
  /\ \A q \in Requests : ~(exchanges[q].op = "create" /\ exchanges[q].id = i)
  /\ ~Registered(i)
  /\ Begin(r, "create", "checked", i, 0, offered)
  /\ UNCHANGED invitations

\* The partial unique index: one open invitation of an address, behind whoever is
\* about to close it.
CreateInvitation(r) ==
  LET i == exchanges[r].id
      another == \E j \in Ids : invitations[j].state = "open" /\ AddressOf[j] = AddressOf[i] IN
  /\ Exchanging(r, "create", "checked")
  /\ \A j \in Ids : AddressOf[j] = AddressOf[i] => RowFree(j)
  /\ IF another THEN UNCHANGED invitations
     ELSE invitations' = [invitations EXCEPT ![i] = [state |-> "open", link |-> 1,
                                                     inTime |-> TRUE,
                                                     teams |-> exchanges[r].teams]]
  /\ Close(r)

\* The links that requests under way may still add.
Resending(i) == Cardinality({q \in Requests : exchanges[q].op = "resend" /\ exchanges[q].id = i})

\* byId: the row is there and nobody has accepted it.
ReadInvitation(r, op, i) ==
  /\ op \in {"resend", "revoke"}
  /\ invitations[i].state = "open"
  /\ op = "resend" => invitations[i].link + Resending(i) < MaxLinks
  /\ Begin(r, op, "read", i, 0, {})
  /\ UNCHANGED invitations

\* A new link, a new week, and the old link dead in the same statement.
ResendInvitation(r) ==
  LET i == exchanges[r].id
      row == invitations[i] IN
  /\ Exchanging(r, "resend", "read")
  /\ RowFree(i)
  /\ IF row.state = "open"
     THEN invitations' = [invitations EXCEPT ![i] = [row EXCEPT !.link = row.link + 1,
                                                                !.inTime = TRUE]]
     ELSE UNCHANGED invitations
  /\ Close(r)

RevokeInvitation(r) ==
  LET i == exchanges[r].id IN
  /\ Exchanging(r, "revoke", "read")
  /\ RowFree(i)
  /\ IF invitations[i].state = "open"
     THEN invitations' = [invitations EXCEPT ![i].state = "withdrawn"]
     ELSE UNCHANGED invitations
  /\ Close(r)

-----------------------------------------------------------------------------
(* Accepting.                                                              *)

\* The link of a row that is still in the table, accepted or expired included.
ResolveLink(r, i) ==
  /\ invitations[i].state \in {"open", "accepted"}
  /\ Begin(r, "accept", "resolved", i, invitations[i].link, {})
  /\ UNCHANGED invitations

\* byId, by the id alone: withdrawn or accepted meanwhile is a refusal.
ReadOffer(r) ==
  LET x == exchanges[r] IN
  /\ Exchanging(r, "accept", "resolved")
  /\ IF invitations[x.id].state = "open" THEN Turn(r, [x EXCEPT !.step = "settling"])
     ELSE Close(r)
  /\ UNCHANGED invitations

\* Mutant: the read decides, the update names the id only.
SpendByTheRead(r) ==
  LET x == exchanges[r]
      row == invitations[x.id] IN
  /\ Exchanging(r, "accept", "settling")
  /\ AddressFree(x.id)
  /\ IF ~Registered(x.id)
     THEN Turn(r, [x EXCEPT !.step = "spent", !.teams = row.teams])
     ELSE Close(r)
  /\ UNCHANGED invitations

\* The account is inserted, behind and after any other of its address; then
\* UPDATE ... WHERE accepted_at IS NULL AND expires_at > now RETURNING.
SpendInvitation(r) ==
  LET x == exchanges[r]
      row == invitations[x.id] IN
  /\ Exchanging(r, "accept", "settling")
  /\ AddressFree(x.id)
  /\ IF ~Registered(x.id) /\ row.state = "open" /\ row.inTime
     THEN Turn(r, [x EXCEPT !.step = "spent", !.teams = row.teams])
     ELSE Close(r)
  /\ UNCHANGED invitations

\* INSERT ... SELECT the teams that are live now; it locks none of them.
JoinTeams(r) ==
  LET x == exchanges[r] IN
  /\ Exchanging(r, "accept", "spent")
  /\ Turn(r, [x EXCEPT !.step = "joined",
                       !.teams = {t \in x.teams : teams[t].state = "live"}])
  /\ UNCHANGED invitations

\* The account, its memberships and the spent invitation become visible together.
AcceptInvitation(r) ==
  LET x == exchanges[r]
      u == AddressOf[x.id] IN
  /\ Exchanging(r, "accept", "joined")
  /\ accounts' = [accounts EXCEPT ![u] = [status |-> "ACTIVE", version |-> 1]]
  /\ members' = [t \in Teams |-> IF t \in x.teams
                                 THEN [members[t] EXCEPT ![u] = "MEMBER"] ELSE members[t]]
  /\ invitations' = [invitations EXCEPT ![x.id].state = "accepted"]
  /\ Close(r)
  /\ UNCHANGED teams

-----------------------------------------------------------------------------
\* Seven days have passed.
Expire(i) ==
  /\ invitations[i].state = "open" /\ invitations[i].inTime
  /\ invitations' = [invitations EXCEPT ![i].inTime = FALSE]
  /\ UNCHANGED exchanges

Abandon(r) ==
  /\ exchanges[r].step # "idle"
  /\ Close(r)
  /\ UNCHANGED invitations

Ask(r) ==
  \E i \in Ids :
     \/ \E offered \in SUBSET Teams : CheckAddress(r, i, offered)
     \/ \E op \in {"resend", "revoke"} : ReadInvitation(r, op, i)
     \/ ResolveLink(r, i)

Proceed(r) ==
  \/ CreateInvitation(r) \/ ResendInvitation(r) \/ RevokeInvitation(r)
  \/ ReadOffer(r) \/ SpendInvitation(r) \/ JoinTeams(r)

\* One statement of the transaction a request is in.
Step(r) ==
  \/ Advance(r) /\ UNCHANGED invitationVars
  \/ Proceed(r) /\ UNCHANGED vars
  \/ AcceptInvitation(r) /\ UNCHANGED work

Break(r) == AbortDeadlock(r) /\ UNCHANGED invitationVars

\* A request is about teams or about an invitation, never about both.
InvitationsNext ==
  \/ \E r \in Requests :
        \/ exchanges[r] = Quiet /\ (Call(r) \/ Rollback(r)) /\ UNCHANGED invitationVars
        \/ work[r] = Idle /\ (Ask(r) \/ Abandon(r)) /\ UNCHANGED vars
        \/ Step(r)
        \/ Break(r)
  \/ \E i \in Ids : Expire(i) /\ UNCHANGED vars

InvitationsFairness == \A r \in Requests : SF_allVars(Step(r)) /\ WF_allVars(Break(r))

InvitationsSpec ==
  InvitationsInit /\ [][InvitationsNext]_allVars /\ InvitationsFairness

-----------------------------------------------------------------------------
(* What must hold.                                                         *)

\* An invitation is an offer: it is taken at most once, only while it stands, and
\* accounts appear with a taken invitation and in no other way.
TheOffers ==
  INSTANCE Offers WITH
    Offer <- Ids, Person <- Users,
    offers <- [i \in Ids |-> CASE invitations[i].state = "unwritten" -> "unmade"
                               [] invitations[i].state = "open" -> "standing"
                               [] invitations[i].state = "accepted" -> "taken"
                               [] invitations[i].state = "withdrawn" -> "withdrawn"],
    people <- {u \in Users : accounts[u].status # "absent"}

ImplementsOffers == TheOffers!Spec

\* The only people a disbanded team can be left with came by an invitation that
\* named it: every addition by hand is shut out by the lock on the team.
OnlyInviteesOutliveATeam ==
  \A t \in Teams, u \in Users :
     teams[t].state # "live" /\ members[t][u] # "none" =>
        \E i \in Ids : /\ AddressOf[i] = u /\ t \in invitations[i].teams
                       /\ invitations[i].state = "accepted"

\* Every request ends, whichever of the two kinds it is.
EverythingEnds ==
  \A r \in Requests :
     work[r] # Idle \/ exchanges[r] # Quiet ~> work[r] = Idle /\ exchanges[r] = Quiet

\* An acceptance was made through the link that is the last one sent.
AcceptedByTheLastLink ==
  [][\A r \in Requests :
       AcceptInvitation(r) => exchanges[r].link = invitations[exchanges[r].id].link]_allVars
=============================================================================

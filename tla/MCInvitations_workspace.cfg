CONSTANTS
  Users = {n1}
  Newcomers = {n1}
  Teams = {t1}
  Standing = {}
  Slugs = {s1}
  Requests = {r1, r2}
  Operations <- Everything
  VersionWrap = 2
  None = None
  Ids = {i1}
  AddressOf <- OneAddress
  MaxLinks = 2
SPECIFICATION InvitationsSpec
INVARIANTS
  SuspendedIsOnNoTeam
  OnlyInviteesOutliveATeam
PROPERTIES
  MembershipMovesTheVersion
  ImplementsOffers
  EverythingEnds


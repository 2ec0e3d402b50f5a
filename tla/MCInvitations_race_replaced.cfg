CONSTANTS
  Users = {n1}
  Newcomers = {n1}
  Teams = {t1}
  Standing = {}
  Slugs = {s1}
  Requests = {r1, r2}
  Operations <- MeetingAnAcceptance
  VersionWrap = 2
  None = None
  Ids = {i1}
  AddressOf <- OneAddress
  MaxLinks = 2
SPECIFICATION InvitationsSpec
PROPERTIES
  AcceptedByTheLastLink


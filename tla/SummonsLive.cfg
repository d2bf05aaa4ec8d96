SPECIFICATION FairSpec
CONSTANTS
  c1 = c1 c2 = c2 u1 = u1 u2 = u2 p1 = p1 p2 = p2 p3 = p3 s1 = s1 s2 = s2
  Comments = {c1, c2}
  Users = {u1}
  Posts = {p2, p3}
  Subs = {s2}
  NoComment = NoComment
  Author <- OneUser
  PostOf <- Types_PostOf
  Command <- Unwatches
  SubOf <- MCSubOf
  PostType <- MCPostType
  DbId <- MCDbId
  LeadingNumber <- MCLeading
  Settings <- MCSettings
  Bots = {}
  Exempt = NoUser
  TooLong = {}
  InitialWatches = {"enabled"}
  SummonsMaxPerHour = 1
  InboxLimit = 1
  MaxFaults = 1
PROPERTY EventuallyClosed

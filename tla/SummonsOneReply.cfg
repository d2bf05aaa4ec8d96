SPECIFICATION Spec
CONSTANTS
  c1 = c1 c2 = c2 u1 = u1 u2 = u2 p1 = p1 p2 = p2 p3 = p3 s1 = s1 s2 = s2
  Comments = {c1, c2}
  Users = {u1, u2}
  Posts = {p1}
  Subs = {s1}
  NoComment = NoComment
  Author <- TwoUsers
  PostOf <- OnP1
  Command <- Reposts
  SubOf <- MCSubOf
  PostType <- MCPostType
  DbId <- MCDbId
  LeadingNumber <- MCLeading
  Settings <- MCSettings
  Bots = {}
  Exempt = NoUser
  TooLong = {}
  InitialWatches = {"none"}
  SummonsMaxPerHour = 2
  InboxLimit = 2
  MaxFaults = 0
INVARIANT OneReplyPerPost

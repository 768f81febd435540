SPECIFICATION PageSpec
CONSTANTS
  p1 = p1
  l1 = l1
  Jobs = {p1, l1}
  Pulls = {p1}
  Backends = {"A"}
  Backend <- OnServer
  Keep = 1
  MaxCrashes = 1
  MaxFaults = 0
  Clicks = {p1}
  Fetches = {1, 2}
INVARIANTS WatchedIsPolled PollsBounded
PROPERTIES BannerFollowed BannerHides

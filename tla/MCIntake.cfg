SPECIFICATION IntakeSpec
CONSTANTS
  x = x
  y = y
  nourl = nourl
  nopath = nopath
  noid = noid
  junk = junk
  MaxId = 3
  MaxStamp = 0
  StaleTimeout = 0
  Reported <- NoReports
  Paths <- NoPaths
  NoPath = nopath
  NoId = noid
  NoUrl = nourl
  NotIndex = junk
  Videos <- TwoVideos
  Offers <- TwoOffers
  Listings <- OnePage
  Scripts <- ThreeScripts
  MaxChanges = 1
  MaxCrashes = 1
INVARIANTS IntakeTypeOK DownloadedAsPicked RepliesAreTrue BatchesStayTogether ContainerIsAnnounced

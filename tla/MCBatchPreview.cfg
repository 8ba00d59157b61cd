SPECIFICATION PreviewSpec
CONSTANTS
  v1 = v1
  v2 = v2
  p1 = p1
  unusable = unusable
  unreadable = unreadable
  raises = raises
  noturl = noturl
  Videos <- TwoVideos
  Playlists <- OnePlaylist
  Unusable = unusable
  Unreadable = unreadable
  Raises = raises
  NotUrl = noturl
  PageSizes <- SmallPages
  MaxSources = 2
  MaxEntries = 2
  MaxEdits = 2
INVARIANTS PreviewTypeOK WalkShowsAll NoDeadEnd OfferedOnce

SPECIFICATION Spec
CONSTANTS
  none = none
  Languages <- TwoLanguages
  Reports <- ThreeReports
  Titles <- TwoTitles
  Leftovers <- AnyLeftovers
  None = none
  MaxCues = 2
  MaxCaption = 2
INVARIANTS DownloaderTypeOK SinglePathIsOutput TranscriptsComplete CaptionsKept CodeNamesCause
PROPERTIES KeepsCall
CHECK_DEADLOCK FALSE

SPECIFICATION Spec
CONSTANTS
  none = none
  Languages <- TwoLanguages
  Reports <- ThreeReports
  Titles <- TwoTitles
  Leftovers <- NoLeftovers
  None = none
  MaxCues = 0
  MaxCaption = 0
INVARIANTS PathIsOutput
CHECK_DEADLOCK FALSE

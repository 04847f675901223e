SPECIFICATION Spec
CONSTANTS
  NameLength = 4
  URLLength = 6
  LastYear = 2261
INVARIANTS
  ReceivedAsSent
  BrowserIsUnderstood
  WildcardIsOneLabel
  HostnameIsExact
  ValidBetweenDates
  WholeChainVerified
CHECK_DEADLOCK FALSE

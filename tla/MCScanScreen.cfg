\* Two scans in a row of three hosts, and every touch the screen allows.
SPECIFICATION ScreenSpec
CONSTANTS
  Hosts = {11, 12, 13}
  Scans = {1, 2}
  Entries = 2
INVARIANTS
  ScreenTypeOK
  AtMostOneScan
  ButtonTracksScan
  RowsAreLatest
  ScanningIsShown
  DeliveredIsComplete
  PingsStayOnWiFi
PROPERTIES
  AnsweredScanIsShown
\* the screen waits for the user, and the scans run out
CHECK_DEADLOCK FALSE

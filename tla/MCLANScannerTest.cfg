\* The expectation of testLanScanSignalForNil.
SPECIFICATION Spec
CONSTANTS
  Hosts = {h1, h2}
  Scans = {s1}
  Entries = 2
PROPERTY EveryScanDelivers
CHECK_DEADLOCK FALSE

\* Two ports, a keyboard that sends one text, texts of two characters.
SPECIFICATION ScreenSpec
CONSTANTS
  LastPort = 2
  Keys = 1
  Inserts = 4
  Length = 2
INVARIANTS
  OneDescriptor
  TypingIsOneWriter
  RemoveIsSafe
  TextsAreWhole
  NothingLostIfNotRaced
  DisplayTellsScan
PROPERTIES
  ServicesAreShown
\* a screen scans its host once and is quiet when everything is typed
CHECK_DEADLOCK FALSE

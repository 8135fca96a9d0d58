SPECIFICATION Spec
CONSTANTS
  Unit = 1
  Rps = 1
  Burst = 2
  MaxTime = 1
  MaxSet = 1
  Names = {ann}
  Calls = {c1, c2}
  Shells = {s1, s2}
  Journals = {work}
  Levels = {off}
  Personal = personal
  City = city
  TokenTTL = 1
  SessionTTL = 1
  MaxTokens = 2
  MaxSessions = 3
SYMMETRY Symmetry
INVARIANTS TypeOK BucketBound SessionsMatch
PROPERTIES RedeemedOnce PreferencesStick
CHECK_DEADLOCK FALSE

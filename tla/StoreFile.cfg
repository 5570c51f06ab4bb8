\* Two threads that save at any moment, cut short by crashes anywhere.
CONSTANTS
  s1 = s1  s2 = s2
  Savers = {s1, s2}
  Torn = Torn  NoFile = NoFile
  MaxVersion = 3  MaxCrashes = 2
SPECIFICATION Spec
INVARIANTS TypeOK DamageNeedsOverlap SavedIsStored
CHECK_DEADLOCK FALSE

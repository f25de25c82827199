SPECIFICATION PersistSpec
CONSTANTS
  Uid = {u1}
  Site = {cn, intl}
  NoSite = NoSite
  MaxChange = 2
  MaxClock = 2
  MaxMirror = 2
INVARIANTS
  CleanMeansSaved
  NoPlaceholderServes
PROPERTIES
  RestoreKeepsLocal
  ChangesReachDisk

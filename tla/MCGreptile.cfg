SPECIFICATION Spec
CONSTANTS
  root = root
  sub = sub
  one = one
  two = two
  none = none
  link = link
  Main = Main
  NULL = NULL
  NoJob = NoJob
  Nobody = Nobody
  Root <- root
  Dirs <- MCDirs
  Files <- MCFiles
  Others <- MCOthers
  Kids <- MCKids
  Matches <- MCMatches
  NUM_THREADS = 2
  MAX_FILES = 1
  MaxSpurious = 1
  MaxVanish = 1
INVARIANTS
  TypeOK
  PathOwnership
  OutputUnbroken
  NoFileAfterQuit
  OneSentinelEach
  DestroyedRingUnused
  StatusTellsAll
PROPERTIES
  UsesRing
  Termination

SPECIFICATION SearchesSpec
CONSTANTS
  Letters = {"a", "b"}
  NL = "nl"
  NUL = "nul"
  Pattern <- MCPattern
  Texts <- MCTexts
  Fresh <- MCFresh
  MaxSize = 5
  MaxChanges = 2
  root = root
  sub = sub
  deep = deep
  f = f
  g = g
  h = h
  one = one
  link = link
  Root <- root
  Dirs <- MCDirs
  Files <- MCFiles
  Others = {link}
  OneByte = {one}
  Kids <- MCKids
  Limits = {2, 4}
  MaxVanish = 2
INVARIANTS
  StaysInBuffer
  ReportsWhatMainSaw
  Reported
  SearchedOnce
PROPERTIES
  ScanEnds
  EndsUnlessOneByte
  WalkEnds
CHECK_DEADLOCK FALSE

\* Three runs that read the file page by page or edit it once, at the same time.
SPECIFICATION Spec
CONSTANTS
  r1 = r1  r2 = r2  r3 = r3
  Runs = {r1, r2, r3}
  NoFile = NoFile
  NoJob = NoJob
  Characters = {"x", "y", "lf", "cr", "ff"}
  InitialTexts <- MCInitialTexts
  OldContents <- MCOldContents
  NewContents <- MCNewContents
  Keywords <- MCKeywords
  MaxReadFileLines = 3
  MaxKeywordMatches = 1
  ContextLines = 1
  MaxWriteSize = 8
  Faults = {"write"}
INVARIANTS TypeOK PagesCover KeywordIsTold
PROPERTIES RestIsKept ReportedLines EditsCurrentFile
SYMMETRY Symmetry
CHECK_DEADLOCK FALSE

SPECIFICATION FairSpec
CONSTANTS
  Ids = {a, b, c}
  MaxRows = 2
  MaxReloads = 1
  Tasks = {t1, t2}
  Blank = Blank
INVARIANTS IInv RowsOutlastTheirCount QuietShowsDatabase
PROPERTIES ChoicesMeanTheirCell CatchesUp
CHECK_DEADLOCK FALSE

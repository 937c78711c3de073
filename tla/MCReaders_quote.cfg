SPECIFICATION FairSpec
CONSTANTS
  Documents <- ExportedTables
  Blank = {" "}
  Slot = 3
CHECK_DEADLOCK FALSE
PROPERTY ReadEnds

CONSTANTS
  MaxColumns = 4
  MaxIndexes = 2
  MaxVarcharLen = 3
  MaxKeySize = 3
  Int2Max = 2
  Bases <- SomeBases
  Alters <- SomeAlters
  Keys = {1, 2}
  Cells = {0, 1, 2}
  Schemas <- SomeSchemas
  Values = {0, 1, 2, 3}
  MaxAlters = 1
  MaxEdits = 1
SPECIFICATION MCSpec
CHECK_DEADLOCK FALSE
INVARIANTS EditsHeld IndexIsScan MergedWhole CellsLand DiffsMeet MergeLaws

SPECIFICATION StoresSpec
CONSTANTS
  Demo = Demo
  Sufficient = 2
  Times = {1, 2}
  Exchange = TWSE
  OtherOne = TPEX
  Revisions = {1, 2}
  Parts = {1, 2}
  Values = {0, 1}
  NoFigure = NoFigure
  MaxRows = 2
  Headlines = 1
INVARIANTS
  SameContract
CHECK_DEADLOCK FALSE

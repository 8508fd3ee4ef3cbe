CONSTANTS
  a = a
  b = b
  x = x
  y = y
  Arrays <- MCArrays
  Values <- MCValues
  Requests <- MCRequests
  NoArray = NoArray
  ElemSize = 2
  SizeMod = 16
  Kinds = {TRUE, FALSE}
  MemFail = TRUE
  Corners = {}
  MaxHeld = 1
  MaxInsert = 1
SYMMETRY Symmetry
VIEW MCView
SPECIFICATION ContainersSpec
INVARIANTS
  StaysInBlock
  CapacityIsAllocated
  ElementsCounted
PROPERTIES
  FailureIsClean
  ImplementsLists
  ImplementsLifo

SPECIFICATION Spec
CONSTANTS
  FirstTypes <- MCFirstTypes
  OtherTypes <- MCOtherTypes
  Length = 3
  MaxOperations = 1
INVARIANTS
  SuccessIsTrue
  ObjectTells
  NothingLeftMounted
PROPERTIES
  WipesOnlyUnmounted
CHECK_DEADLOCK FALSE

CONSTANTS
  N = 4
  SIZE_MOD = 8
  Values <- MCValues
SPECIFICATION Spec
INVARIANTS NoSlotRace IInv
PROPERTIES IsBoundedFifo EveryValuePopped FullClears

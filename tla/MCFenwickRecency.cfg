SPECIFICATION Spec
CONSTANTS
  k1 = k1
  k2 = k2
  k3 = k3
  k4 = k4
  k5 = k5
  Keys = {k1, k2, k3, k4, k5}
  Floors <- MCFloors
  SlotLimits <- MCSlotLimits
  MaxWord = 16
INVARIANTS TreeSumsSlots UpdateAssertionsHold
PROPERTY RefinesIndex
SYMMETRY KeySymmetry
CHECK_DEADLOCK FALSE

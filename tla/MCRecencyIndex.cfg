SPECIFICATION Spec
CONSTANTS
  k1 = k1
  k2 = k2
  k3 = k3
  k4 = k4
  Keys = {k1, k2, k3, k4}
  Floors <- MCFloors
  SlotLimits <- MCSlotLimits
  MaxWord = 8
INVARIANT StorageBounded
PROPERTY RefinesOrder
SYMMETRY KeySymmetry
CHECK_DEADLOCK FALSE

SPECIFICATION Spec
CONSTANTS
  Nodes = {n1, n2, n3, n4}
  Null = Null
  Nothing = Nothing
SYMMETRY Memory
INVARIANTS TreeTypeOK ViewMirrors IndexesRight LoopMissesNone
PROPERTIES LoopVisitsOnce KeepsPromise

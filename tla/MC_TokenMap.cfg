CONSTANTS
  r1 = r1
  r2 = r2
  o1 = o1
  o2 = o2
  o3 = o3
  Request <- MCRequest
  Original <- MCOriginal
  MaxId = 5
SYMMETRY MCSymmetry
INIT TMInit
NEXT TMNext
INVARIANT TMTypeOK
INVARIANT StableMapping
INVARIANT PlaceholdersUnique

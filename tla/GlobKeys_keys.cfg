SPECIFICATION Spec

CONSTANTS
  Keys <- MCKeys
  Items <- MCItems
  MaxItems = 4

INVARIANT KeysExact

SPECIFICATION Spec

CONSTANTS
  c1 = c1
  c2 = c2
  k1 = k1
  k2 = k2
  o1 = o1
  o2 = o2
  o3 = o3
  o4 = o4
  word = word
  Clients <- TwoClients
  Keys <- TwoKeys
  Dbs = {0, 1}
  Numbers = {0, 1}
  Words = {}
  Ids <- Objects
  Null = Null
  MaxDirty = 3
  MaxLen = 2
  MaxReplies = 2

SYMMETRY Interchangeable

INVARIANT TypeOK
INVARIANT RefCountsExact
INVARIANT RepliesIntact
INVARIANT RangeAsDocumented
PROPERTY ChangesCounted
PROPERTY ImplementsDatabase

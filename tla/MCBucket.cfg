SPECIFICATION Spec
CONSTANTS
  Reader = {r1}
  Name = {a, b}
  Key = {k}
  Value = {v1, v2}
  Nil = Nil
  NoBucket = NoBucket
  Root = {p1, p2, p3, p4}
  NoEntry = NoEntry
  NoHandle = NoHandle
  EmptyDrops = FALSE
INVARIANTS TypeOK TreesOwned
PROPERTY ImplementsStore
VIEW View
SYMMETRY Symmetry

SPECIFICATION Spec
CONSTANTS
  w1 = w1
  w2 = w2
  x = x
  Writers = {w1, w2}
  Readers = {"reader"}
  MaxKey = 2
  BucketKeys = {1}
  Root = Root
  Values = {x}
  Absent = Absent
  Nested = Nested
  NoTx = NoTx
INVARIANT RangeExact
PROPERTY AtomicSpec
SYMMETRY Symmetric

SPECIFICATION Spec
CONSTANTS
  Clients = {c1, c2}
  Keys = {k1, k2}
  Loaded = {k1}
  Absent = Absent
  Fields = {f1, f2}
  MaxFieldLength = 3
  Bindings = {"rocksdb", "mongodb", "jdbc"}
  MaxOps = 4
SYMMETRY Symmetric
INVARIANT FieldsComplete
INVARIANT CapKept
PROPERTY AtomicUnlessOvertaken
CHECK_DEADLOCK FALSE

SPECIFICATION Spec
CONSTANTS
  Clients = {c1}
  Keys = {k1, k2}
  Loaded = {k1}
  Absent = Absent
  Fields = {f1, f2}
  MaxFieldLength = 3
  Bindings = {"rocksdb"}
  MaxOps = 4
PROPERTY ExtendKeepsLength
CHECK_DEADLOCK FALSE

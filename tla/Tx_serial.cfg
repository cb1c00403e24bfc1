SPECIFICATION TxSpec
CONSTANTS
  Imports = {}
  Task = {a, b}
  None = None
  Keep = Keep
  Store = "sqlite"
  MaxBatch = 0
  Client = {x, y}
  Isolation = "serial"
  Ops = {"add", "edit", "release", "archive", "restore", "delete", "depend"}
  MaxVersion = 4
SYMMETRY TxSymmetry
INVARIANT TxTypeOK
PROPERTY Spec

SPECIFICATION TxSpec
CONSTANTS
  Imports = {}
  Task = {a, b}
  None = None
  Keep = Keep
  Store = "postgres"
  MaxBatch = 0
  Client = {x, y}
  Isolation = "read_committed"
  Ops = {"add", "depend", "delete"}
  MaxVersion = 2
SYMMETRY TxSymmetry
INVARIANT DependencyEndsStored

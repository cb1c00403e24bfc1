SPECIFICATION Spec
CONSTANTS
  Task = {s, t}
  Id = {i, j}
  Name = {m, n}
  Client = {c, d}
  None = None
  Gone = Gone
  Keep = Keep
  Tables = {"tags", "tracks", "matchers", "comments"}
  Files <- SmallFiles
  Isolations = {"serial", "read_committed"}
SYMMETRY RecordSymmetry
INVARIANTS RecordsTypeOK NamesUnique LinksSound
PROPERTIES AssignmentsAllowed ArchivedForGood
CHECK_DEADLOCK FALSE

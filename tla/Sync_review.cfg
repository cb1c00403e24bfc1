SPECIFICATION PeopleSpec
CONSTANTS
  Field = {"title", "external_state"}
  Policy = {1, 2}
  Scope = {ready, unreadable}
  Invalid = {unreadable}
  PolicyForms <- OverlappingForms
  Base <- ExecutionLayer
  Run = {r, s}
  Verdict = {"resolved"}
  Account = {"account"}
  Principal = {"alice", "bob"}
  Role = {"owner", "reviewer"}
  Rule = {1, 2}
  RuleForms <- OverlappingRules
  Worker = {v, w}
  None = None
  NoRow = NoRow
  Absent = Absent
  MaxTime = 1
  MaxEdits = 1
  MaxRequests = 2
SYMMETRY ReviewSymmetry
INVARIANTS ReviewTypeOK ReviewComplete ExplainedBySource PeopleTypeOK ResponsibleWasMapped DelegationsSound
CHECK_DEADLOCK FALSE

SPECIFICATION Spec
CONSTANTS
  Fact <- SurfaceFacts
  Entry <- CachedReads
  Fresh <- FreshReads
  DependsOn <- ReadDependsOn
  InvalidatedBy <- ForgottenBy
  Writes <- ServiceWrites
  Expiring <- TimedReads
  Retried <- TimedReads
  Writer = {v, w}
  Reader = {q, r}
  MaxCommits = 2
SYMMETRY ReadSymmetry
INVARIANTS ReadsTypeOK AnsweredCommitsShow SnapshotCurrent
CHECK_DEADLOCK FALSE

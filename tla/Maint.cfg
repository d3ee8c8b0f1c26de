SPECIFICATION Spec
CONSTANTS
  None = None
  Parts = {"refs", "sign", "config", "fsck", "prune", "summary"}
  Handles = {"h1"}
  Regenerators = {"p", "q"}
INVARIANTS
  SignaturesSound ConfigConsistent SummaryConsistent
PROPERTIES
  RefsConsistent FsckHonest PruneExact

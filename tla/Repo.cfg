SPECIFICATION Spec
CONSTANTS
  None = None
  Parts = {"staging", "write", "mtree", "tree", "checkout", "archive", "apply", "store"}
  FilterChanges = {"g"}
INVARIANTS
  StagingSafe WritesSound ChecksumsCurrent RecordedFaithfully
  CheckoutFaithful ArchivesFaithful DeltaSound
PROPERTIES
  DeltasConsistent

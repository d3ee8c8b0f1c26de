SPECIFICATION Spec
CONSTANTS
  None = None
  Parts = {"loaders"}
INVARIANT AtomicLoaderBoots

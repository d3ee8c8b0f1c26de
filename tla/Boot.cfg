SPECIFICATION Spec
CONSTANTS
  None = None
  Parts = {"etc", "tree", "kargs", "loaders", "entries", "upgrade"}
INVARIANTS
  EtcMerged KargsMatchList LoaderBoots
PROPERTIES
  DeployedWhole EntriesBoot UpgradeSound

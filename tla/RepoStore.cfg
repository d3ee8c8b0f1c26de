SPECIFICATION Spec
CONSTANTS
  p1 = p1  p2 = p2  a = a  b = b
  root_a = root_a  root_b = root_b  file = file  main = main  devel = devel
  NoCommit = NoCommit  NoDir = NoDir
  Procs = {p1, p2}
  Commits = {a, b}
  Content = {root_a, root_b, file}
  Root <- RootOf
  Tree <- SharedFile
  Refs = {main, devel}
  Dirs = {1, 2}
  Workloads <- Everyday
SYMMETRY Perms
INVARIANTS RefsComplete NormalIsComplete
PROPERTIES StagedIsKept RefedIsKept

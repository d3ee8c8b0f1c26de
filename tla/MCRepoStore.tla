---------------------------- MODULE MCRepoStore ----------------------------
(***************************************************************************)
(* Small instances of RepoStore: two processes, two commits whose trees    *)
(* share a file, two branches.                                             *)
(***************************************************************************)
EXTENDS RepoStore, TLC

CONSTANTS p1, p2, a, b, root_a, root_b, file, main, devel

SharedFile == a :> {root_a, file} @@ b :> {root_b, file}
RootOf == a :> root_a @@ b :> root_b
OwnBranch == a :> main @@ b :> devel

Workload(commits, built, branch, ops, interruptible) ==
    [commits |-> commits, built |-> built, branch |-> branch, ops |-> ops,
     interruptible |-> interruptible]

\* Pulls of one commit with every kind of failure; pulls of two commits,
\* some given up before their ref is written, next to prunes; local commits
\* next to prunes with every kind of failure but power loss; refs set and
\* locks leaked next to pulls.
Everyday ==
    {Workload({a}, {}, OwnBranch, {"pull", "pullmeta", "nospace", "powerloss"}, Phases),
     Workload({a, b}, {}, OwnBranch, {"pull", "pullmeta", "prune", "pruneorphans"}, {"ref"}),
     Workload({a}, {a}, OwnBranch, {"commit", "prune", "pruneorphans", "delref", "nospace"}, Phases),
     Workload({a}, {}, OwnBranch, {"pull", "setref", "cancel"}, {"rename", "unmark", "setref"})}

PruneCrash == {Workload({a}, {}, OwnBranch, {"pull", "prune", "delref"}, {"prune"})}
Cancel == {Workload({a}, {a}, OwnBranch, {"commit", "cancel"}, {})}

Perms == Permutations(Procs)
=============================================================================

------------------------------ MODULE MCSysroot ------------------------------
(***************************************************************************)
(* Small instances of Sysroot.                                             *)
(***************************************************************************)
EXTENDS Sysroot, TLC

CONSTANTS c1, c2, c3, c4, k1, k2, k3, quiet, debug

FourCommits == {c1, c2, c3, c4}

ThreeKernels == {k1, k2, k3}

(* Two of the commits share a kernel: a switch between them swaps only the *)
(* symlinks.                                                               *)
SharedKernel == c1 :> k1 @@ c2 :> k1 @@ c3 :> k2 @@ c4 :> k3

TwoKargs == {quiet, debug}

Steady == [flags |-> {{}}, ops |-> 3, kills |-> 0, died |-> FALSE, losses |-> 0, capacity |-> 3,
           direct |-> FALSE, spared |-> {"freeze_again"}, commits |-> {c1, c2, c3}]

(* The power goes once, at any step.                                       *)
Power == [kinds |-> {"deploy", "select", "set_kargs", "cleanup"}, losses |-> 1,
          commits |-> {c2, c3}] @@ Steady

PowerStaged == [kinds |-> {"stage", "deploy", "finalize"}, losses |-> 1,
                commits |-> {c2, c3}] @@ Steady

(* A process is killed once, except right after it renamed /boot/loader.   *)
Killed == [kinds |-> {"deploy", "stage", "select", "cleanup"}, kills |-> 1,
           commits |-> {c1, c3}] @@ Steady

KilledFinalizing == [kinds |-> {"stage", "finalize", "cleanup"}, kills |-> 1, ops |-> 4,
                     commits |-> {c2, c3}] @@ Steady

(* /boot has room for two kernels, or for one.                             *)
SmallBoot == [kinds |-> {"deploy", "stage", "finalize", "select"}, ops |-> 4, capacity |-> 2,
              commits |-> {c3, c4}] @@ Steady

TinyBoot == [kinds |-> {"stage", "finalize", "lock", "deploy"}, capacity |-> 1] @@ Steady

(* The --retain and --not-as-default options.                              *)
Options == [kinds |-> {"deploy", "set_kargs"},
            flags |-> {{"not_default"}, {"retain"}, {"retain_pending"},
                       {"not_default", "retain_rollback"}},
            commits |-> {c2, c3}] @@ Steady

(* Other processes prune the repository, except while the deployment refs  *)
(* are being replaced.                                                     *)
Foreign == [kinds |-> {"deploy", "select"}, ops |-> 2, direct |-> TRUE, spared |-> {"write_refs"}]
           @@ Steady

Everyday == {Foreign, Power, PowerStaged, Killed, KilledFinalizing, SmallBoot, TinyBoot, Options}

(* A staged deployment is kept in front of those that are deployed.        *)
StagedInFront == {[kinds |-> {"deploy", "stage"}, commits |-> {c2, c3},
                   flags |-> {{"not_default"}, {"not_default", "retain_pending"}}] @@ Steady}

StagedPrune == {[kinds |-> {"stage", "select", "deploy", "finalize"}, ops |-> 5, capacity |-> 2,
                 commits |-> {c3, c4}] @@ Steady}

ForeignPrune == {[kinds |-> {"deploy", "cleanup"}, direct |-> TRUE, spared |-> {}] @@ Steady}

KilledSwapping == {[kinds |-> {"deploy", "cleanup"}, kills |-> 1, spared |-> {}] @@ Steady}
=============================================================================

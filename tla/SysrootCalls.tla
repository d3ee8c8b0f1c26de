---------------------------- MODULE SysrootCalls ----------------------------
(***************************************************************************)
(* Every step of the commands, of making and staging a deployment and of   *)
(* the cleanup keeps the invariant of Sysroot and leaves the list alone.   *)
(***************************************************************************)
EXTENDS SysrootInv

(***************************************************************************)
(* The scripts of the commands.                                            *)
(***************************************************************************)

(* The scripts are calls in an order the commands make them in. *)
LEMMA DeployScript ==
    ASSUME NEW s, s = <<"clean", "checkout", "seal", "write", "clean", "prune", "exit">>
    PROVE  Follows("deploy", "pull", s)
<1>1. {"checkout", "clean", "exit", "prune", "seal", "write"} \subseteq Calls
    BY DEF Calls
<1>2. s \in Seq(Calls) /\ Len(s) = 7 /\ s # <<>>
    BY <1>1
<1>3. /\ s[1] = "clean" /\ s[2] = "checkout" /\ s[3] = "seal" /\ s[4] = "write"
      /\ s[5] = "clean" /\ s[6] = "prune" /\ s[7] = "exit"
    OBVIOUS
<1>4. \A i \in 1..6 : Then("deploy", s[i], s[i + 1])
    <2> TAKE i \in 1..6
    <2>1. i \in {1, 2, 3, 4, 5, 6}
        OBVIOUS
    <2> QED
        BY <1>3, <2>1 DEF Then
<1>5. Then("deploy", "pull", s[1]) /\ Len(s) - 1 = 6
    BY <1>2, <1>3 DEF Then
<1> QED
    BY <1>2, <1>3, <1>4, <1>5 DEF Follows

(* A staged deployment, *)
LEMMA StageScript ==
    ASSUME NEW s, s = <<"clean", "checkout", "run", "restage", "reload", "clean", "clean", "exit">>
    PROVE  Follows("stage", "pull", s)
<1>1. {"checkout", "clean", "exit", "reload", "restage", "run"} \subseteq Calls
    BY DEF Calls
<1>2. s \in Seq(Calls) /\ Len(s) = 8 /\ s # <<>>
    BY <1>1
<1>3. /\ s[1] = "clean" /\ s[2] = "checkout" /\ s[3] = "run" /\ s[4] = "restage"
      /\ s[5] = "reload" /\ s[6] = "clean" /\ s[7] = "clean" /\ s[8] = "exit"
    OBVIOUS
<1>4. \A i \in 1..7 : Then("stage", s[i], s[i + 1])
    <2> TAKE i \in 1..7
    <2>1. i \in {1, 2, 3, 4, 5, 6, 7}
        OBVIOUS
    <2> QED
        BY <1>3, <2>1 DEF Then
<1>5. Then("stage", "pull", s[1]) /\ Len(s) - 1 = 7
    BY <1>2, <1>3 DEF Then
<1> QED
    BY <1>2, <1>3, <1>4, <1>5 DEF Follows

(* ... and a locked one *)
LEMMA LockedScript ==
    ASSUME NEW s, s = <<"clean", "touch", "checkout", "run", "restage", "reload", "clean", "clean", "exit">>
    PROVE  Follows("stage", "pull", s)
<1>1. {"checkout", "clean", "exit", "reload", "restage", "run", "touch"} \subseteq Calls
    BY DEF Calls
<1>2. s \in Seq(Calls) /\ Len(s) = 9 /\ s # <<>>
    BY <1>1
<1>3. /\ s[1] = "clean" /\ s[2] = "touch" /\ s[3] = "checkout" /\ s[4] = "run"
      /\ s[5] = "restage" /\ s[6] = "reload" /\ s[7] = "clean" /\ s[8] = "clean"
      /\ s[9] = "exit"
    OBVIOUS
<1>4. \A i \in 1..8 : Then("stage", s[i], s[i + 1])
    <2> TAKE i \in 1..8
    <2>1. i \in {1, 2, 3, 4, 5, 6, 7, 8}
        OBVIOUS
    <2> QED
        BY <1>3, <2>1 DEF Then
<1>5. Then("stage", "pull", s[1]) /\ Len(s) - 1 = 8
    BY <1>2, <1>3 DEF Then
<1> QED
    BY <1>2, <1>3, <1>4, <1>5 DEF Follows

(* A list that is written *)
LEMMA SelectScript ==
    ASSUME NEW s, s = <<"clean", "prune", "exit">>
    PROVE  Follows("select", "write", s)
BY DEF Follows, Then, Calls

(* A list that is written *)
LEMMA KargsScript ==
    ASSUME NEW s, s = <<"clean", "prune", "exit">>
    PROVE  Follows("set_kargs", "write", s)
BY DEF Follows, Then, Calls

(* A cleanup *)
LEMMA CleanupScript ==
    ASSUME NEW s, s = <<"prune", "exit">>
    PROVE  Follows("cleanup", "clean", s)
BY DEF Follows, Then, Calls

(* A finalization, *)
LEMMA FinalizeScript ==
    ASSUME NEW s, s = <<"seal", "write", "clean", "stamp", "shutdown">>
    PROVE  Follows("finalize", "unlink", s)
<1>1. {"clean", "seal", "shutdown", "stamp", "write"} \subseteq Calls
    BY DEF Calls
<1>2. s \in Seq(Calls) /\ Len(s) = 5 /\ s # <<>>
    BY <1>1
<1>3. /\ s[1] = "seal" /\ s[2] = "write" /\ s[3] = "clean" /\ s[4] = "stamp"
      /\ s[5] = "shutdown"
    OBVIOUS
<1>4. \A i \in 1..4 : Then("finalize", s[i], s[i + 1])
    <2> TAKE i \in 1..4
    <2>1. i \in {1, 2, 3, 4}
        OBVIOUS
    <2> QED
        BY <1>3, <2>1 DEF Then
<1>5. Then("finalize", "unlink", s[1]) /\ Len(s) - 1 = 4
    BY <1>2, <1>3 DEF Then
<1> QED
    BY <1>2, <1>3, <1>4, <1>5 DEF Follows

(* ... with nothing to finalize *)
LEMMA NothingScript ==
    ASSUME NEW s, s = <<"shutdown">>
    PROVE  Follows("finalize", "stamp", s)
BY DEF Follows, Then, Calls

(* A deployment is locked *)
LEMMA TouchScript ==
    ASSUME NEW s, s = <<"touch", "exit">>
    PROVE  Follows("lock", "relock", s)
BY DEF Follows, Then, Calls

(* ... or unlocked. *)
LEMMA UntouchScript ==
    ASSUME NEW s, s = <<"untouch", "exit">>
    PROVE  Follows("lock", "relock", s)
BY DEF Follows, Then, Calls

(* A command loads the list that is offered and the staged deployment.     *)
LEMMA BeginStep ==
    ASSUME SysrootInvariant, NEW r, NEW s, Begin(r, s),
           pc' \in {"pull", "write", "clean", "stamp", "unlink", "relock"},
           Follows(r.kind, pc', script'),
           pc' = "write" => /\ r.kind \in {"select", "set_kargs"}
                            /\ Len(script') = 3 /\ script'[3] = "exit",
           r.kind = "deploy" => r.flags \in workload.flags,
           r.kind \in {"deploy", "stage"} => r.commit \in Commits,
           r.kind = "stage" => r.locked \in BOOLEAN,
           pc' = "write" /\ r.kind = "select" =>
              /\ r.order \in SelectOrders
              /\ \A i \in DOMAIN r.order :
                    r.order[i] \in DOMAIN Load(root, boot, staged).deployments
              /\ Orderly(r.order, Load(root, boot, staged).deployments),
           pc' = "write" /\ r.kind = "set_kargs" =>
              /\ r.index \in DOMAIN Load(root, boot, staged).deployments
              /\ ~Load(root, boot, staged).deployments[r.index].staged
              /\ r.kargs \in Kargs,
           pc' \in {"unlink", "relock"} => staged # None
    PROVE  SysrootInvariant' /\ Stands /\ Settled
<1>1. /\ pc = "idle" /\ r.kind \in workload.kinds
      /\ workload' = [workload EXCEPT !.ops = @ - 1]
      /\ req' = r /\ self' = Load(root, boot, staged)
      /\ UNCHANGED <<disks, runstate, booted, new, plan, outer>>
    BY Zenon DEF Begin
<1>2. UNCHANGED <<root, boot, staged, booted, outer>>
    BY <1>1 DEF disks, runstate
<1>3. Stands /\ Settled
    <2>1. Stands
        BY <1>1, MemoryStep, Zenon
    <2> QED
        BY <2>1, <1>1 DEF Settled
<1>4. /\ DiskTypes /\ Boots /\ ListTypes /\ StagedSound /\ Requested /\ WorkSound
    BY Zenon DEF SysrootInvariant, Booting, Process
<1>5. DiskTypes' /\ Boots' /\ SameView
    BY <1>3, <1>4, Zenon DEF Stands
<1>6. /\ staged # None => IsStaged(staged)
      /\ staged # None => staged.dir \in root.deploys \ root.sealed
      /\ "stage" \notin workload.kinds => staged = None
    BY <1>4, Zenon DEF ListTypes, StagedSound
<1>7. /\ InSync' /\ Straight' /\ self'.deployments \in Seq(Deployments)
      /\ DOMAIN self' = {"bootversion", "subbootversion", "deployments"}
    BY <1>1, <1>2, <1>4, <1>5, <1>6, LoadSync, Zenon
<1>8. /\ DOMAIN workload' = WorkFields /\ workload'.kinds = workload.kinds
      /\ workload'.flags = workload.flags /\ workload'.commits = workload.commits
      /\ workload'.spared = workload.spared /\ workload'.kills = workload.kills
    BY <1>1, <1>4 DEF WorkSound, WorkFields
<1>9. WorkSound'
    BY <1>4, <1>8, Zenon DEF WorkSound, Careful
<1>10. pc' \notin Writing /\ pc' \notin Out /\ pc' \notin Cleaning /\ pc' # "untouch"
       /\ pc' \notin {"drop_dir", "drop_lock", "restage"}
    BY DEF Writing, Cleaning, Swapping, Dropping, Deciding, Stale, SubPhases, NewPhases, Out
<1>11. Call' = pc' /\ ~Restaging'
    BY <1>10 DEF Call, Restaging
<1>12. StagedSound'
    BY <1>2, <1>6, <1>7, <1>8, <1>10, <1>11, StraightSound, Zenon
<1>13. Scripted'
    BY <1>1, <1>8, <1>11, Zenon DEF Scripted
<1>14. outer' = None
    <2>1. pc \notin Writing /\ pc # "shutdown"
        BY <1>1, Phases DEF Out
    <2> QED
        BY <2>1, <1>2, <1>4, Zenon DEF Requested
<1>15. Requested'
    BY <1>1, <1>2, <1>8, <1>14, Zenon DEF Requested
<1>16. Made'
    BY <1>1, <1>2 DEF Made
<1>17. Swap'
    BY <1>10, NotWriting, Zenon
<1>18. ListTypes' /\ Knows'
    BY <1>2, <1>6, <1>7, <1>10, Zenon DEF ListTypes, Knows
<1> QED
    BY <1>3, <1>5, <1>9, <1>12, <1>13, <1>15, <1>16, <1>17, <1>18, Zenon
       DEF SysrootInvariant, Booting, Process

(* A command loads the list and starts on its script.                      *)
LEMMA Begun ==
    ASSUME NEW r, NEW s, Begin(r, s)
    PROVE  pc' = Head(s) /\ script' = Tail(s)
BY Zenon DEF Begin, Continue

(* The commands that give a request and the calls it is made of.           *)
LEMMA CommandSteps ==
    ASSUME SysrootInvariant, Command
    PROVE  SysrootInvariant' /\ Stands /\ Settled
<1>0. workload.commits \subseteq Commits
    BY Zenon DEF SysrootInvariant, WorkSound
<1>1. ASSUME NEW c \in workload.commits, NEW flags \in workload.flags, Deploy(c, flags)
      PROVE  SysrootInvariant' /\ Stands /\ Settled
    <2> DEFINE r == [kind |-> "deploy", commit |-> c, flags |-> flags]
               t == <<"clean", "checkout", "seal", "write", "clean", "prune", "exit">>
    <2>0. Begin(r, <<"pull", "clean", "checkout", "seal", "write", "clean", "prune", "exit">>)
        BY <1>1, Zenon DEF Deploy
    <2>1. pc' = "pull" /\ script' = t
        <3> DEFINE s == <<"pull", "clean", "checkout", "seal", "write", "clean", "prune", "exit">>
        <3>1. Head(s) = "pull" /\ Tail(s) = t
            OBVIOUS
        <3> HIDE DEF r, t
        <3>2. pc' = Head(s) /\ script' = Tail(s)
            BY <2>0, Begun, Zenon
        <3> QED
            BY <3>1, <3>2, Zenon
    <2>2. Follows("deploy", "pull", script')
        BY <2>1, DeployScript, Zenon
    <2>3. r.kind = "deploy" /\ r.flags \in workload.flags /\ r.commit \in Commits
        BY <1>0, <1>1
    <2> HIDE DEF r, t
    <2> QED
        BY <2>0, <2>1, <2>2, <2>3, BeginStep
<1>2. ASSUME NEW c \in workload.commits, NEW locked \in BOOLEAN, Stage(c, locked)
      PROVE  SysrootInvariant' /\ Stands /\ Settled
    <2> DEFINE r == [kind |-> "stage", commit |-> c, locked |-> locked]
               t == <<"clean", "checkout", "run", "restage", "reload", "clean", "clean", "exit">>
               u == <<"clean", "touch", "checkout", "run", "restage", "reload", "clean",
                      "clean", "exit">>
               s == IF locked
                    THEN <<"pull", "clean", "touch", "checkout", "run", "restage", "reload",
                           "clean", "clean", "exit">>
                    ELSE <<"pull", "clean", "checkout", "run", "restage", "reload", "clean",
                           "clean", "exit">>
    <2>0. Begin(r, s)
        BY <1>2, Zenon DEF Stage
    <2>a. Head(s) = "pull" /\ (Tail(s) = t \/ Tail(s) = u)
        OBVIOUS
    <2>1. pc' = "pull" /\ (script' = t \/ script' = u)
        <3> HIDE DEF r, s, t, u
        <3> QED
            BY <2>0, <2>a, Begun, Zenon
    <2>2. Follows("stage", "pull", script')
        BY <2>1, StageScript, LockedScript, Zenon
    <2>3. r.kind = "stage" /\ r.commit \in Commits /\ r.locked \in BOOLEAN
        BY <1>0, <1>2
    <2> HIDE DEF r, s, t, u
    <2> QED
        BY <2>0, <2>1, <2>2, <2>3, BeginStep
<1>3. ASSUME NEW order \in SelectOrders, Select(order)
      PROVE  SysrootInvariant' /\ Stands /\ Settled
    <2> DEFINE r == [kind |-> "select", order |-> order]
               t == <<"clean", "prune", "exit">>
    <2>0. Begin(r, <<"write", "clean", "prune", "exit">>)
        BY <1>3, Zenon DEF Select
    <2>1. pc' = "write" /\ script' = t
        <3> DEFINE s == <<"write", "clean", "prune", "exit">>
        <3>1. Head(s) = "write" /\ Tail(s) = t
            OBVIOUS
        <3> HIDE DEF r, t
        <3>2. pc' = Head(s) /\ script' = Tail(s)
            BY <2>0, Begun, Zenon
        <3> QED
            BY <3>1, <3>2, Zenon
    <2>2. Follows("select", "write", script')
        BY <2>1, SelectScript, Zenon
    <2>3. r.kind = "select" /\ r.order = order /\ Len(t) = 3 /\ t[3] = "exit"
        OBVIOUS
    <2>4. /\ \A i \in DOMAIN order : order[i] \in DOMAIN Load(root, boot, staged).deployments
          /\ Orderly(order, Load(root, boot, staged).deployments)
        BY <1>3, Zenon DEF Select
    <2> HIDE DEF r, t
    <2>5. /\ r.order \in SelectOrders
          /\ \A i \in DOMAIN r.order : r.order[i] \in DOMAIN Load(root, boot, staged).deployments
          /\ Orderly(r.order, Load(root, boot, staged).deployments)
        BY <1>3, <2>3, <2>4, Zenon
    <2>6. Len(script') = 3 /\ script'[3] = "exit" /\ r.kind \in {"select", "set_kargs"}
        BY <2>1, <2>3
    <2>7. Follows(r.kind, pc', script') /\ r.kind # "deploy" /\ r.kind \notin {"deploy", "stage"}
          /\ r.kind # "set_kargs" /\ pc' \notin {"unlink", "relock"}
          /\ pc' \in {"pull", "write", "clean", "stamp", "unlink", "relock"}
        BY <2>1, <2>2, <2>3
    <2> QED
        BY <2>0, <2>1, <2>5, <2>6, <2>7, BeginStep, Zenon
<1>4. ASSUME NEW i \in 1..MaxDeployments, NEW k \in Kargs, SetKargs(i, k)
      PROVE  SysrootInvariant' /\ Stands /\ Settled
    <2> DEFINE list == Load(root, boot, staged).deployments
               r == [kind |-> "set_kargs", index |-> i, dir |-> list[i].dir, kargs |-> k]
               t == <<"clean", "prune", "exit">>
    <2>0. i \in DOMAIN list /\ ~list[i].staged /\ Begin(r, <<"write", "clean", "prune", "exit">>)
        BY <1>4, Zenon DEF SetKargs
    <2>r. r.kind = "set_kargs" /\ r.index = i /\ r.kargs = k /\ Len(t) = 3 /\ t[3] = "exit"
        OBVIOUS
    <2> HIDE DEF list, r, t
    <2>1. Begin(r, <<"write", "clean", "prune", "exit">>) /\ pc' = "write" /\ script' = t
        BY <2>0 DEF Begin, Continue, t
    <2>2. Follows("set_kargs", "write", script')
        BY <2>1, KargsScript, Zenon DEF t
    <2>5. /\ r.index \in DOMAIN Load(root, boot, staged).deployments
          /\ ~Load(root, boot, staged).deployments[r.index].staged
          /\ r.kargs \in Kargs
        BY <1>4, <2>0, <2>r, Zenon DEF list
    <2>6. Len(script') = 3 /\ script'[3] = "exit" /\ r.kind \in {"select", "set_kargs"}
        BY <2>1, <2>r
    <2>7. Follows(r.kind, pc', script') /\ r.kind # "deploy" /\ r.kind \notin {"deploy", "stage"}
          /\ r.kind # "select" /\ pc' \notin {"unlink", "relock"}
          /\ pc' \in {"pull", "write", "clean", "stamp", "unlink", "relock"}
        BY <2>1, <2>2, <2>r
    <2> QED
        BY <2>1, <2>5, <2>6, <2>7, BeginStep, Zenon
<1>5. ASSUME Cleanup PROVE SysrootInvariant' /\ Stands /\ Settled
    <2> DEFINE r == [kind |-> "cleanup"]
    <2>0. Begin(r, <<"clean", "prune", "exit">>)
        BY <1>5, Zenon DEF Cleanup
    <2>1. pc' = "clean" /\ script' = <<"prune", "exit">>
        <3> DEFINE s == <<"clean", "prune", "exit">>
        <3>1. Head(s) = "clean" /\ Tail(s) = <<"prune", "exit">>
            OBVIOUS
        <3> HIDE DEF r
        <3>2. pc' = Head(s) /\ script' = Tail(s)
            BY <2>0, Begun, Zenon
        <3> QED
            BY <3>1, <3>2, Zenon
    <2>2. Follows("cleanup", "clean", script')
        BY <2>1, CleanupScript, Zenon
    <2>3. r.kind = "cleanup"
        OBVIOUS
    <2> HIDE DEF r
    <2> QED
        BY <2>0, <2>1, <2>2, <2>3, BeginStep
<1>6. ASSUME Finalize PROVE SysrootInvariant' /\ Stands /\ Settled
    <2> DEFINE r == [kind |-> "finalize", target |-> staged]
               t == <<"seal", "write", "clean", "stamp", "shutdown">>
               none == staged = None \/ (staged # None /\ staged.locked) \/ lockfile
               s == IF none THEN <<"stamp", "shutdown">>
                    ELSE <<"unlink", "seal", "write", "clean", "stamp", "shutdown">>
    <2>0. Begin(r, s)
        BY <1>6, Zenon DEF Finalize
    <2>a. none \/ staged # None
        BY Zenon
    <2>b. \/ Head(s) = "stamp" /\ Tail(s) = <<"shutdown">>
          \/ staged # None /\ Head(s) = "unlink" /\ Tail(s) = t
        <3> HIDE DEF none
        <3> QED
            BY <2>a
    <2>1. \/ pc' = "stamp" /\ script' = <<"shutdown">>
          \/ staged # None /\ pc' = "unlink" /\ script' = t
        <3> HIDE DEF r, s, t
        <3> QED
            BY <2>0, <2>b, Begun, Zenon
    <2>2. Follows("finalize", pc', script')
        BY <2>1, FinalizeScript, NothingScript, Zenon
    <2>3. r.kind = "finalize"
        OBVIOUS
    <2>4. /\ pc' \in {"pull", "write", "clean", "stamp", "unlink", "relock"} /\ pc' # "write"
          /\ pc' \in {"unlink", "relock"} => staged # None
        BY <2>1
    <2> HIDE DEF r, s, t
    <2>5. Follows(r.kind, pc', script') /\ r.kind # "deploy" /\ r.kind \notin {"deploy", "stage"}
        BY <2>2, <2>3
    <2> QED
        BY <2>0, <2>1, <2>4, <2>5, BeginStep, Zenon
<1>7. ASSUME ChangeFinalization PROVE SysrootInvariant' /\ Stands /\ Settled
    <2> DEFINE r == [kind |-> "lock"]
               s == <<"relock", IF staged.locked THEN "untouch" ELSE "touch", "exit">>
    <2>0. staged # None /\ Begin(r, s)
        BY <1>7, Zenon DEF ChangeFinalization
    <2>3. r.kind = "lock"
        OBVIOUS
    <2>a. Head(s) = "relock" /\ Tail(s) \in {<<"touch", "exit">>, <<"untouch", "exit">>}
        OBVIOUS
    <2> HIDE DEF r, s
    <2>1. pc' = "relock" /\ script' \in {<<"touch", "exit">>, <<"untouch", "exit">>}
        BY <2>0, <2>a, Begun, Zenon
    <2>2. Follows("lock", "relock", script')
        BY <2>1, TouchScript, UntouchScript, Zenon
    <2> QED
        BY <2>0, <2>1, <2>2, <2>3, BeginStep
<1> QED
    BY <1>1, <1>2, <1>3, <1>4, <1>5, <1>6, <1>7, ExitStep, Zenon DEF Command

(***************************************************************************)
(* The cleanup and the repository.                                         *)
(***************************************************************************)

(* Calls after which the next one is not about a new deployment.           *)
Chores == {"pull", "touch", "untouch", "write_refs", "prune", "stamp"}

(* The last step of a call of the cleanup.                                 *)
LEMMA ChoreEnds ==
    ASSUME SysrootInvariant, Stands, pc \in Chores, ~Restaging, Continue(script),
           UNCHANGED <<workload, staged, req, self, outer>>,
           root'.deploys = root.deploys, root'.sealed = root.sealed
    PROVE  SysrootInvariant' /\ Settled
<1>1. /\ pc \notin Out /\ pc # "exit" /\ pc \notin {"drop_dir", "drop_lock", "seal"}
      /\ pc # "freeze_again" /\ pc \notin Writing
    BY DEF Chores, Out, Writing, Swapping, Dropping, Deciding, Stale, SubPhases, NewPhases
<1>2. Scripted /\ StagedSound
    BY Zenon DEF SysrootInvariant, Process
<1>3. Then(req.kind, Call, pc')
    BY <1>1, <1>2, ContinueStep, Zenon
<1>4. /\ pc = "pull" => Call = "pull"
      /\ pc = "touch" => Call = "touch"
      /\ pc = "untouch" => Call = "untouch" /\ req.kind # "stage"
      /\ pc = "write_refs" => Call = "clean"
      /\ pc = "prune" => Call = "prune"
      /\ pc = "stamp" => Call = "stamp"
    BY <1>1 DEF Call, Cleaning, Restaging
<1>5. /\ pc' \notin {"seal", "run", "write", "unlink", "relock", "restage"}
      /\ pc' \in {"untouch", "reload"} => req.kind # "stage"
    BY <1>3, <1>4, <1>1 DEF Then, Chores, Call, Cleaning, Restaging
<1>6. ~Restaging'
    BY <1>5 DEF Restaging
<1>7. staged # None => staged.dir \in root'.deploys \ root'.sealed
    BY <1>2, Zenon DEF StagedSound
<1>8. SysrootInvariant'
    BY <1>1, <1>5, <1>6, <1>7, PlainStep, Zenon
<1> QED
    BY <1>1, <1>8, Zenon DEF Settled

(* A step of the cleanup to its next step.                                 *)
LEMMA CleaningGoesOn ==
    ASSUME SysrootInvariant, Stands, pc \in Cleaning \cup {"clean"}, pc' \in Cleaning,
           UNCHANGED <<workload, staged, memory>>,
           staged # None => staged.dir \in root'.deploys \ root'.sealed
    PROVE  SysrootInvariant' /\ Settled
<1>1. /\ pc \notin Out /\ pc # "exit" /\ pc \notin {"drop_dir", "drop_lock", "seal"}
      /\ pc # "freeze_again" /\ pc \notin Writing /\ ~Restaging
      /\ pc' \notin Out /\ pc' \notin Writing /\ ~Restaging'
      /\ pc' \notin {"seal", "run", "write", "unlink", "relock", "restage"}
    BY DEF Cleaning, Out, Writing, Swapping, Dropping, Deciding, Stale, SubPhases, NewPhases,
           Restaging
<1>2. Call = "clean" /\ Call' = "clean"
    BY <1>1 DEF Call
<1>3. UNCHANGED <<staged, req, self, outer, script>>
    BY DEF memory
<1>4. SysrootInvariant'
    BY <1>1, <1>2, <1>3, PlainStep, Zenon
<1> QED
    BY <1>1, <1>4, Zenon DEF Settled

(* The updates of the repository leave the deployments alone.              *)
LEMMA RepoDirs ==
    ASSUME SysrootInvariant, \/ Pull \/ CleanRefs \/ WriteRefs \/ PruneRepo
    PROVE  root'.deploys = root.deploys /\ root'.sealed = root.sealed
<1>1. IsRoot(root)
    BY Zenon DEF SysrootInvariant, Booting, DiskTypes
<1>2. CASE Pull
    <2>1. PICK q : q = [root EXCEPT !.commits = @ \cup {req.commit}]
                   /\ root' = [q EXCEPT !.tip = req.commit]
        BY <1>2, Zenon DEF Pull
    <2>2. IsRoot(q) /\ q.deploys = root.deploys /\ q.sealed = root.sealed
        BY <1>1, <2>1 DEF IsRoot
    <2> QED
        BY <2>1, <2>2 DEF IsRoot
<1>3. CASE CleanRefs \/ WriteRefs
    <2>1. PICK x : root' = [root EXCEPT !.refs = x]
        BY <1>3, Zenon DEF CleanRefs, WriteRefs, WriteRoot
    <2> QED
        BY <1>1, <2>1 DEF IsRoot
<1>4. CASE PruneRepo
    <2>1. PICK x : root' = [root EXCEPT !.commits = x]
        BY <1>4, Zenon DEF PruneRepo, WriteRoot
    <2> QED
        BY <1>1, <2>1 DEF IsRoot
<1> QED
    BY <1>2, <1>3, <1>4, Zenon

(* The steps that neither make nor write a list.                           *)
LEMMA ChoreSteps ==
    ASSUME SysrootInvariant, Pull \/ WriteRefs \/ PruneRepo \/ ClearStamp
    PROVE  SysrootInvariant' /\ Stands /\ Settled
<1>1. CASE Pull \/ WriteRefs \/ PruneRepo
    <2>1. Stands
        BY <1>1, RepoSteps, Zenon
    <2>2. root'.deploys = root.deploys /\ root'.sealed = root.sealed
        BY <1>1, RepoDirs, Zenon
    <2>3. /\ pc \in {"pull", "write_refs", "prune"} /\ Continue(script)
          /\ UNCHANGED <<workload, runstate, req, self, outer>>
        BY <1>1, Zenon DEF Pull, WriteRefs, PruneRepo
    <2>4. pc \in Chores /\ ~Restaging /\ staged' = staged
        BY <2>3 DEF Chores, Restaging, runstate
    <2> QED
        BY <2>1, <2>2, <2>3, <2>4, ChoreEnds, Zenon
<1>2. CASE ClearStamp
    <2>1. Stands
        BY <1>2, StampSteps, Zenon
    <2>3. /\ pc = "stamp" /\ Continue(script)
          /\ UNCHANGED <<workload, runstate, req, self, outer, root>>
        BY <1>2, Zenon DEF ClearStamp
    <2>4. pc \in Chores /\ ~Restaging /\ staged' = staged
        BY <2>3 DEF Chores, Restaging, runstate
    <2> QED
        BY <2>1, <2>3, <2>4, ChoreEnds, Zenon
<1> QED
    BY <1>1, <1>2, Zenon

(* ostree_sysroot_cleanup keeps the invariant at every step.               *)
LEMMA CleanSteps ==
    ASSUME SysrootInvariant,
           CleanLoader \/ CleanLinks \/ CleanDeployment \/ CleanBootfs \/ CleanRefs
    PROVE  SysrootInvariant' /\ Stands /\ Settled
<1>1. /\ pc \in Cleaning \cup {"clean"} /\ pc' \in Cleaning
      /\ UNCHANGED <<workload, runstate, booted, memory>>
    BY DEF CleanLoader, CleanLinks, CleanDeployment, CleanBootfs, CleanRefs, Cleaning
<1>2. staged' = staged /\ pc \notin Out /\ pc \notin Stale /\ pc \notin Writing
    BY <1>1, Phases DEF runstate
<1>3. StagedSound
    BY Zenon DEF SysrootInvariant, Process
<1>4. staged # None => staged.dir \in root.deploys \ root.sealed
    BY <1>3, Zenon DEF StagedSound
<1>5. ASSUME root'.deploys = root.deploys, root'.sealed = root.sealed, Stands
      PROVE  SysrootInvariant' /\ Stands /\ Settled
    <2>1. staged # None => staged.dir \in root'.deploys \ root'.sealed
        BY <1>4, <1>5, Zenon
    <2> QED
        BY <1>1, <1>2, <1>5, <2>1, CleaningGoesOn, Zenon
<1>6. CASE CleanLoader
    <2>1. root' = root
        BY <1>6, Zenon DEF CleanLoader
    <2> QED
        BY <1>5, <1>6, <2>1, ClearSteps, Zenon
<1>7. CASE CleanLinks
    BY <1>5, <1>7, CleanLinksStep, Zenon
<1>8. CASE CleanBootfs
    <2>1. root' = root
        BY <1>8, Zenon DEF CleanBootfs
    <2> QED
        BY <1>5, <1>8, <2>1, KernelSteps, Zenon
<1>9. CASE CleanRefs
    BY <1>5, <1>9, RepoDirs, RepoSteps, Zenon
<1>10. CASE CleanDeployment
    <2>1. PICK d \in Unused : /\ root'.deploys = root.deploys \ {d}
                              /\ root'.sealed = root.sealed \ {d} /\ Stands
        BY <1>10, CleanDeploymentStep, Zenon
    <2>2. pc = "clean_deploys"
        BY <1>10, Zenon DEF CleanDeployment
    <2>3. ~Restaging /\ pc \notin {"drop_dir", "drop_lock"}
          /\ ~(req.kind = "finalize" /\ pc = "seal")
        BY <2>2 DEF Restaging
    <2>4. Straight
        BY <1>2, <1>3, <2>3, StraightNow, Zenon
    <2>5. self.deployments \in Seq(Deployments)
        BY <1>2, AtWork, Zenon
    <2>6. ASSUME staged # None PROVE staged.dir \in DirsOf(self.deployments)
        <3>1. StagedObject /\ self.deployments[1].dir = staged.dir
            BY <2>4, <2>6, Zenon DEF Straight
        <3>2. 1 \in DOMAIN self.deployments
            BY <2>5, <3>1 DEF StagedObject
        <3> QED
            BY <3>1, <3>2, Zenon DEF DirsOf
    <2>7. d \notin DirsOf(self.deployments)
        BY Zenon DEF Unused
    <2>8. staged # None => staged.dir \in root'.deploys \ root'.sealed
        BY <1>4, <2>1, <2>6, <2>7
    <2> QED
        BY <1>1, <1>2, <2>1, <2>8, CleaningGoesOn, Zenon
<1> QED
    BY <1>6, <1>7, <1>8, <1>9, <1>10, Zenon

(***************************************************************************)
(* Staging, making and finishing a deployment.                             *)
(***************************************************************************)

(* While a deployment is staged in the place of another one, the list in   *)
(* memory still has the other one in front.                                *)
LEMMA StagingGoesOn ==
    ASSUME SysrootInvariant, Stands, pc \in {"run", "restage", "untouch"}, req.kind = "stage",
           pc' \in {"restage", "untouch", "reload"}, Scripted',
           UNCHANGED <<workload, req, self, outer>>,
           staged' # None =>
              IsStaged(staged') /\ staged'.dir \in root'.deploys \ root'.sealed,
           root'.sealed = root.sealed,
           pc' = "restage" /\ StagedObject =>
              staged' # None /\ self.deployments[1].dir # staged'.dir
    PROVE  SysrootInvariant' /\ Settled
<1>1. /\ pc \notin Out /\ pc \notin Writing /\ pc \notin Stale /\ pc # "freeze_again"
      /\ pc' \notin Out /\ pc' \notin Writing /\ pc' \notin Stale
      /\ pc' \notin {"seal", "run", "write", "unlink", "relock", "drop_dir", "drop_lock"}
    BY DEF Out, Writing, Swapping, Dropping, Deciding, Stale, SubPhases, NewPhases
<1>2. /\ DiskTypes /\ Boots /\ InSync /\ self.deployments \in Seq(Deployments)
      /\ DOMAIN self = {"bootversion", "subbootversion", "deployments"}
    BY <1>1, AtWork, Zenon
<1>3. StagedSound /\ Scripted /\ Requested
    BY Zenon DEF SysrootInvariant, Process
<1>4. DiskTypes' /\ Boots' /\ SameView /\ Settled
    BY <1>1, <1>2, Zenon DEF Stands, Settled
<1>5. InSync'
    BY <1>2, <1>4, SyncKept, Zenon
<1>6. outer' = None
    BY <1>1, <1>3 DEF Requested, Out
<1>7. Requested'
    BY <1>1, <1>3, <1>6, RequestedKept
<1>8. Made' /\ Swap'
    BY <1>1, NotMaking, NotWriting
<1>9. "stage" \in workload.kinds
    BY <1>1, <1>3, Zenon DEF Scripted
<1>10. Restaging' /\ (StagedObject' <=> StagedObject)
    BY DEF Restaging, StagedObject
<1>11. StagedObject => self.deployments[1].dir \notin root.sealed
    BY <1>1, <1>3, Zenon DEF StagedSound
<1>12. StagedSound'
    BY <1>1, <1>9, <1>10, <1>11, Zenon DEF StagedSound
<1> QED
    BY <1>1, <1>2, <1>4, <1>5, <1>7, <1>8, <1>12, WorkStep, Zenon

(* The calls of which a kind of command has one.                           *)
LEMMA KindOf ==
    ASSUME SysrootInvariant, pc \in {"run", "restage", "reload", "unlink", "relock", "checkout", "seal"}
    PROVE  /\ Call = pc /\ pc \notin Out /\ pc \notin Writing /\ pc # "exit" /\ pc \notin Stale
           /\ pc \in {"run", "restage", "reload"} => req.kind = "stage"
           /\ pc = "unlink" => req.kind = "finalize"
           /\ pc = "relock" => req.kind = "lock"
           /\ pc = "checkout" => req.kind \in {"deploy", "stage"}
           /\ pc = "seal" => req.kind \in {"deploy", "finalize"}
<1>1. pc \notin Out /\ pc \notin Writing /\ pc # "exit" /\ pc \notin Stale /\ Call = pc
    BY DEF Out, Writing, Swapping, Dropping, Deciding, Stale, SubPhases, NewPhases, Call, Cleaning
<1>2. Follows(req.kind, Call, script)
    BY <1>1, Zenon DEF SysrootInvariant, Process, Scripted
<1>3. Then(req.kind, pc, script[1])
    BY <1>1, <1>2 DEF Follows
<1> QED
    BY <1>1, <1>3 DEF Then

(* Writing the staged file keeps the invariant: the directory it names is  *)
(* there and unfinished.                                                   *)
LEMMA WriteStagedStep ==
    ASSUME SysrootInvariant, WriteStaged
    PROVE  SysrootInvariant' /\ Stands /\ Settled
<1>1. /\ pc = "run" /\ Continue(script)
      /\ staged' = [dir |-> new.dir, kargs |-> new.kargs, merge |-> booted, locked |-> req.locked]
      /\ UNCHANGED <<workload, disks, booted, req, self, outer>>
    BY Zenon DEF WriteStaged
<1>2. Call = "run" /\ req.kind = "stage" /\ pc \notin Out /\ pc # "exit" /\ pc \notin Stale
    BY <1>1, KindOf
<1>3. Scripted /\ Requested /\ Made
    BY Zenon DEF SysrootInvariant, Process
<1>4. Then("stage", "run", pc') /\ Scripted'
    BY <1>1, <1>2, <1>3, ContinueStep
<1>5. pc' = "restage"
    BY <1>4 DEF Then
<1>6. booted \in root.sealed /\ IsRoot(root)
    BY <1>2, AtWork, Zenon
<1>7. booted \in Dirs
    BY <1>6, Zenon DEF IsRoot
<1>8. /\ new \in Deployments /\ new.dir \in root.deploys \ root.sealed
      /\ StagedObject => self.deployments[1].dir # new.dir
    BY <1>1, <1>3 DEF Made
<1>9. req.locked \in BOOLEAN
    BY <1>2, <1>3, Zenon DEF Requested
<1>10. new.dir \in Dirs /\ new.kargs \in Kargs \cup {None}
    BY <1>8 DEF Deployments
<1>11. IsStaged(staged') /\ staged'.dir = new.dir
    BY <1>1, <1>7, <1>9, <1>10 DEF IsStaged, StagedFiles
<1>12. staged' # None
    BY <1>11, SysrootConstants, Zenon DEF IsStaged
<1>13. Stands /\ root' = root
    <2>1. Stands
        BY <1>1, MemoryStep, Zenon
    <2> QED
        BY <2>1, <1>1 DEF disks
<1> QED
    BY <1>1, <1>2, <1>4, <1>5, <1>8, <1>11, <1>12, <1>13, StagingGoesOn

(* Deleting the deployment staged before keeps it: the staged file names   *)
(* another one by then.                                                    *)
LEMMA DeleteRestagedStep ==
    ASSUME SysrootInvariant, DeleteRestaged
    PROVE  SysrootInvariant' /\ Stands /\ Settled
<1>1. /\ pc = "restage"
      /\ UNCHANGED <<workload, boot, bootDisk, runstate, booted, req, self, outer>>
    BY Zenon DEF DeleteRestaged
<1>2. Call = "restage" /\ req.kind = "stage" /\ pc \notin Out /\ pc # "exit" /\ pc \notin Stale
    BY <1>1, KindOf
<1>3. Scripted /\ StagedSound /\ ListTypes
    BY Zenon DEF SysrootInvariant, Process
<1>4. /\ staged # None => IsStaged(staged) /\ staged.dir \in root.deploys \ root.sealed
      /\ StagedObject => staged # None /\ self.deployments[1].dir # staged.dir
    BY <1>1, <1>3, Zenon DEF StagedSound, ListTypes
<1>5. staged' = staged
    BY <1>1 DEF runstate
<1>6. CASE StagedObject
    <2>1. /\ Stands /\ root'.sealed = root.sealed
          /\ root'.deploys = root.deploys \ {self.deployments[1].dir}
        BY <1>6, RemoveSteps, Zenon
    <2>2. pc' = "untouch" /\ UNCHANGED script
        BY <1>6, Zenon DEF DeleteRestaged
    <2>3. Call' = "restage"
        BY <1>1, <1>2, <2>2 DEF Call, Writing, Cleaning, Swapping, Dropping, Deciding, Stale, SubPhases, NewPhases
    <2>4. Scripted'
        BY <1>1, <1>2, <1>3, <2>2, <2>3, SameCall, Zenon
    <2>5. staged' # None => IsStaged(staged') /\ staged'.dir \in root'.deploys \ root'.sealed
        BY <1>4, <1>5, <1>6, <2>1
    <2>6. pc \in {"run", "restage", "untouch"} /\ pc' \in {"restage", "untouch", "reload"}
          /\ pc' # "restage"
        BY <1>1, <2>2
    <2> QED
        BY <1>1, <1>2, <2>1, <2>4, <2>5, <2>6, StagingGoesOn, Zenon
<1>7. CASE ~StagedObject
    <2>1. Continue(script) /\ UNCHANGED <<root, rootDisk>>
        BY <1>7, Zenon DEF DeleteRestaged
    <2>2. Then("stage", "restage", pc') /\ Scripted'
        BY <1>1, <1>2, <1>3, <2>1, ContinueStep
    <2>3. pc' = "reload"
        BY <2>2 DEF Then
    <2>4. Stands
        BY <1>1, <2>1, MemoryStep, Zenon DEF disks
    <2>5. staged' # None => IsStaged(staged') /\ staged'.dir \in root'.deploys \ root'.sealed
        BY <1>4, <1>5, <2>1, Zenon
    <2>6. pc \in {"run", "restage", "untouch"} /\ pc' \in {"restage", "untouch", "reload"}
          /\ pc' # "restage"
        BY <1>1, <2>3
    <2> QED
        BY <1>1, <1>2, <2>1, <2>2, <2>4, <2>5, <2>6, StagingGoesOn, Zenon
<1> QED
    BY <1>6, <1>7

(* The lock file has no part in the invariant.                             *)
LEMMA TouchStep ==
    ASSUME SysrootInvariant, TouchLockFile
    PROVE  SysrootInvariant' /\ Stands /\ Settled
<1>1. /\ pc \in {"touch", "untouch"} /\ Continue(script)
      /\ UNCHANGED <<workload, disks, staged, booted, req, self, outer>>
    BY Zenon DEF TouchLockFile
<1>2. Stands /\ root' = root
    <2>1. Stands
        BY <1>1, MemoryStep, Zenon
    <2> QED
        BY <2>1, <1>1 DEF disks
<1>3. CASE ~Restaging
    <2>1. pc \in Chores
        BY <1>1 DEF Chores
    <2> QED
        BY <1>1, <1>2, <1>3, <2>1, ChoreEnds, Zenon
<1>4. CASE Restaging
    <2>1. pc = "untouch" /\ req.kind = "stage"
        BY <1>1, <1>4 DEF Restaging
    <2>2. pc \notin Out /\ pc # "exit" /\ Call = "restage"
        BY <2>1 DEF Call, Out, Writing, Cleaning, Swapping, Dropping, Deciding, Stale, SubPhases, NewPhases
    <2>3. Scripted /\ StagedSound /\ ListTypes
        BY Zenon DEF SysrootInvariant, Process
    <2>4. Then("stage", "restage", pc') /\ Scripted'
        BY <1>1, <2>1, <2>2, <2>3, ContinueStep
    <2>5. pc' = "reload"
        BY <2>4 DEF Then
    <2>6. staged # None => IsStaged(staged) /\ staged.dir \in root.deploys \ root.sealed
        BY <2>3, Zenon DEF StagedSound, ListTypes
    <2>7. pc \in {"run", "restage", "untouch"} /\ pc' \in {"restage", "untouch", "reload"}
          /\ pc' # "restage"
        BY <2>1, <2>5
    <2> QED
        BY <1>1, <1>2, <2>1, <2>4, <2>6, <2>7, StagingGoesOn, Zenon
<1> QED
    BY <1>3, <1>4

(* A step after which the staged deployment that was loaded is in /run.    *)
LEMMA StraightStep ==
    ASSUME SysrootInvariant, Stands, pc \notin Out, pc \notin Writing, UNCHANGED <<workload, req, outer>>,
           pc' \notin Out, pc' \notin Writing, pc' # "restage", ~Restaging',
           pc' = "write" => req.kind \in {"deploy", "finalize"},
           Scripted', Made', Straight', SameView => InSync',
           self'.deployments \in Seq(Deployments),
           DOMAIN self' = {"bootversion", "subbootversion", "deployments"},
           staged' # None => IsStaged(staged') /\ staged'.dir \in root'.deploys \ root'.sealed,
           "stage" \notin workload.kinds => staged' = None
    PROVE  SysrootInvariant' /\ Settled
<1>1. pc # "freeze_again" /\ pc \notin Stale /\ pc # "shutdown"
    BY Phases DEF Stale, Out
<1>2. DiskTypes /\ Boots /\ Requested
    BY Zenon DEF SysrootInvariant, Booting, Process
<1>3. DiskTypes' /\ Boots' /\ SameView /\ Settled
    BY <1>1, <1>2, Zenon DEF Stands, Settled
<1>4. outer' = None
    BY <1>1, <1>2, Zenon DEF Requested
<1>5. Requested'
    BY <1>2, <1>4 DEF Requested
<1>6. Swap'
    BY NotWriting, Zenon
<1>7. pc' \notin {"drop_dir", "drop_lock", "restage"}
    BY Phases DEF Dropping
<1>8. StagedSound'
    BY <1>7, StraightSound, Zenon
<1> QED
    BY <1>3, <1>5, <1>6, <1>8, WorkStep, Zenon

(* A process that found a staged file has the deployment in its list.      *)
LEMMA StagedNow ==
    ASSUME SysrootInvariant
    PROVE  /\ Scripted /\ Requested /\ Made /\ StagedSound
           /\ staged # None => IsStaged(staged) /\ staged.dir \in root.deploys \ root.sealed
           /\ "stage" \notin workload.kinds => staged = None
BY Zenon DEF SysrootInvariant, Process, StagedSound, ListTypes

(* Rewriting the staged file with another lock keeps the invariant.        *)
LEMMA RelockStep ==
    ASSUME SysrootInvariant, Relock
    PROVE  SysrootInvariant' /\ Stands /\ Settled
<1>1. /\ pc = "relock" /\ Continue(script) /\ staged' = [staged EXCEPT !.locked = ~@]
      /\ UNCHANGED <<workload, disks, booted, req, self, outer>>
    BY Zenon DEF Relock
<1>2. /\ Call = "relock" /\ req.kind = "lock" /\ pc \notin Out /\ pc # "exit" /\ pc \notin Stale
      /\ pc \notin Writing
    BY <1>1, KindOf
<1>3. /\ Scripted /\ StagedSound /\ staged # None
      /\ IsStaged(staged) /\ staged.dir \in root.deploys \ root.sealed
    BY <1>1, StagedNow DEF Made
<1>4. Then("lock", "relock", pc') /\ Scripted' /\ pc' \notin Writing
    BY <1>1, <1>2, <1>3, ContinueStep
<1>5. pc' \in {"touch", "untouch"}
    BY <1>4 DEF Then
<1>6. IsStaged(staged') /\ staged'.dir = staged.dir
    BY <1>1, <1>3 DEF IsStaged, StagedFiles
<1>7. staged' # None
    BY <1>6, SysrootConstants, Zenon DEF IsStaged
<1>8. ~Restaging /\ ~Restaging'
    BY <1>1, <1>2 DEF Restaging
<1>9. pc \notin {"drop_dir", "drop_lock"} /\ ~(req.kind = "finalize" /\ pc = "seal")
    BY <1>1
<1>10. Straight
    BY <1>2, <1>3, <1>8, <1>9, StraightNow, Zenon
<1>11. Straight'
    BY <1>1, <1>3, <1>6, <1>7, <1>10, Zenon DEF Straight, StagedObject
<1>12. Stands /\ root' = root
    <2>1. Stands
        BY <1>1, MemoryStep, Zenon
    <2> QED
        BY <2>1, <1>1 DEF disks
<1>13. /\ InSync /\ self.deployments \in Seq(Deployments)
       /\ DOMAIN self = {"bootversion", "subbootversion", "deployments"}
    BY <1>2, AtWork, Zenon
<1>14. SameView => InSync'
    BY <1>1, <1>13, SyncKept, Zenon
<1>15. Made' /\ pc' \notin Out /\ pc' # "restage" /\ pc' # "write"
    BY <1>5, NotMaking DEF Out
<1>16. "stage" \notin workload.kinds => staged' = None
    BY <1>3, StagedNow, Zenon
<1> QED
    BY <1>1, <1>2, <1>3, <1>4, <1>6, <1>8, <1>11, <1>12, <1>13, <1>14, <1>15, <1>16,
       StraightStep, Zenon

(* So does the reload after a deployment was staged.                       *)
LEMMA ReloadStep ==
    ASSUME SysrootInvariant, Reload
    PROVE  SysrootInvariant' /\ Stands /\ Settled
<1>1. /\ pc = "reload" /\ Continue(script) /\ self' = Load(root, boot, staged)
      /\ UNCHANGED <<workload, disks, runstate, booted, req, outer>>
    BY Zenon DEF Reload
<1>2. /\ Call = "reload" /\ req.kind = "stage" /\ pc \notin Out /\ pc # "exit" /\ pc \notin Stale
      /\ pc \notin Writing /\ pc # "freeze_again"
    BY <1>1, KindOf
<1>3. /\ Scripted
      /\ staged # None => IsStaged(staged) /\ staged.dir \in root.deploys \ root.sealed
    BY StagedNow, Zenon
<1>4. Then("stage", "reload", pc') /\ Scripted' /\ pc' \notin Writing
    BY <1>1, <1>2, <1>3, ContinueStep
<1>5. pc' = "clean"
    BY <1>4 DEF Then
<1>6. Stands /\ root' = root /\ staged' = staged
    <2>1. Stands
        BY <1>1, MemoryStep, Zenon
    <2> QED
        BY <2>1, <1>1 DEF disks, runstate
<1>7. DiskTypes /\ Boots
    BY <1>2, AtWork, Zenon
<1>8. SameView
    BY <1>2, <1>6, <1>7, Zenon DEF Stands, Settled
<1>9. /\ InSync' /\ Straight' /\ self'.deployments \in Seq(Deployments)
      /\ DOMAIN self' = {"bootversion", "subbootversion", "deployments"}
    BY <1>1, <1>3, <1>6, <1>7, <1>8, LoadSync, Zenon
<1>10. ~Restaging' /\ Made' /\ pc' \notin Out /\ pc' # "restage" /\ pc' # "write"
    BY <1>5, NotMaking DEF Out, Restaging
<1>11. "stage" \notin workload.kinds => staged' = None
    BY <1>6, StagedNow, Zenon
<1> QED
    BY <1>1, <1>2, <1>3, <1>4, <1>6, <1>9, <1>10, <1>11, StraightStep, Zenon

(* So does the checkout.                                                   *)
LEMMA CheckoutStays ==
    ASSUME Counting, SysrootInvariant, Checkout
    PROVE  SysrootInvariant' /\ Stands /\ Settled
<1>1. /\ pc = "checkout" /\ Continue(script)
      /\ UNCHANGED <<workload, boot, bootDisk, runstate, booted, req, self, outer>>
    BY Zenon DEF Checkout
<1>2. /\ Call = "checkout" /\ pc \notin Out /\ pc # "exit" /\ pc \notin Stale /\ pc \notin Writing
      /\ req.kind \in {"deploy", "stage"}
    BY <1>1, KindOf
<1>3. /\ Scripted /\ StagedSound
      /\ staged # None => IsStaged(staged) /\ staged.dir \in root.deploys \ root.sealed
    BY StagedNow, Zenon
<1>4. Then(req.kind, "checkout", pc') /\ Scripted' /\ pc' \notin Writing
    BY <1>1, <1>2, <1>3, ContinueStep, Zenon
<1>5. \/ pc' = "seal" /\ req.kind = "deploy"
      \/ pc' = "run" /\ req.kind = "stage"
    BY <1>4 DEF Then
<1>6. /\ Stands /\ new' \in Deployments /\ ~new'.staged /\ new'.dir \notin root.deploys
      /\ root'.deploys = root.deploys \cup {new'.dir} /\ root'.sealed = root.sealed
    BY CheckoutStep, Zenon
<1>7. /\ InSync /\ self.deployments \in Seq(Deployments) /\ root.sealed \subseteq root.deploys
      /\ DOMAIN self = {"bootversion", "subbootversion", "deployments"}
    BY <1>2, AtWork, Zenon DEF IsRoot
<1>8. pc \notin {"drop_dir", "drop_lock"} /\ ~(req.kind = "finalize" /\ pc = "seal") /\ ~Restaging
    BY <1>1 DEF Restaging
<1>9. Straight /\ staged' = staged
    <2>1. Straight
        BY <1>2, <1>3, <1>8, StraightNow, Zenon
    <2> QED
        BY <2>1, <1>1 DEF runstate
<1>10. SameView => InSync'
    BY <1>1, <1>7, SyncKept, Zenon
<1>11. staged # None => staged.dir \in root'.deploys \ root'.sealed /\ staged.dir # new'.dir
    BY <1>3, <1>6
<1>12. new'.dir \in root'.deploys \ root'.sealed
    BY <1>6, <1>7
<1>13. StagedObject' => self'.deployments[1].dir # new'.dir
    BY <1>1, <1>9, <1>11, Zenon DEF Straight, StagedObject
<1>14. Made'
    BY <1>1, <1>5, <1>6, <1>9, <1>11, <1>12, <1>13 DEF Made
<1>15. ~Restaging' /\ pc' \notin Out /\ pc' # "restage" /\ pc' # "write"
    BY <1>5 DEF Out, Restaging
<1>16. Straight'
    BY <1>1, <1>9, Zenon DEF Straight, StagedObject
<1>17. "stage" \notin workload.kinds => staged' = None
    BY <1>9, StagedNow, Zenon
<1> QED
    BY <1>1, <1>2, <1>3, <1>4, <1>6, <1>7, <1>9, <1>10, <1>11, <1>14, <1>15, <1>16, <1>17,
       StraightStep, Zenon

(* So does finishing the deployment, new or staged.                        *)
LEMMA SealStays ==
    ASSUME SysrootInvariant, Seal
    PROVE  SysrootInvariant' /\ Stands /\ Settled
<1> DEFINE list == self.deployments
           k == IF new.kargs = None THEN list[CHOOSE i \in DOMAIN list : list[i].dir = booted].kargs
                ELSE new.kargs
<1>1. /\ pc = "seal" /\ Continue(script) /\ new' = [new EXCEPT !.kargs = k]
      /\ self' = IF req.kind = "finalize" THEN [self EXCEPT !.deployments = Tail(@)] ELSE self
      /\ UNCHANGED <<workload, boot, bootDisk, runstate, booted, req, outer>>
    BY DEF Seal
<1>2. /\ Call = "seal" /\ pc \notin Out /\ pc # "exit" /\ pc \notin Stale /\ pc \notin Writing
      /\ req.kind \in {"deploy", "finalize"} /\ pc # "freeze_again"
    BY <1>1, KindOf
<1>3. /\ Scripted /\ StagedSound /\ Made
      /\ staged # None => IsStaged(staged) /\ staged.dir \in root.deploys \ root.sealed
    BY StagedNow, Zenon
<1>4. Then(req.kind, "seal", pc') /\ Scripted' /\ pc' \notin Writing
    BY <1>1, <1>2, <1>3, ContinueStep, Zenon
<1>5. pc' = "write"
    BY <1>4 DEF Then
<1>6. Stands /\ root'.deploys = root.deploys /\ root'.sealed = root.sealed \cup {new.dir}
    BY SealStep, Zenon
<1>7. /\ DiskTypes /\ Boots /\ InSync /\ list \in Seq(Deployments) /\ booted \in DirsOf(list)
      /\ DOMAIN self = {"bootversion", "subbootversion", "deployments"}
    BY <1>2, AtWork, Zenon
<1>8. SameView /\ staged' = staged
    <2>1. SameView
        BY <1>2, <1>6, <1>7, Zenon DEF Stands, Settled
    <2> QED
        BY <2>1, <1>1 DEF runstate
<1>9. new \in Deployments /\ ~new.staged
    BY <1>1, <1>2, <1>3 DEF Made
<1>10. k \in Kargs \cup {None}
    <2> DEFINE j == CHOOSE i \in DOMAIN list : list[i].dir = booted
    <2>1. \E i \in DOMAIN list : list[i].dir = booted
        BY <1>7, Zenon DEF DirsOf
    <2>2. j \in DOMAIN list
        BY <2>1, Zenon
    <2> HIDE DEF j
    <2>3. list[j].kargs \in Kargs \cup {None}
        <3> HIDE DEF list
        <3>1. list[j] \in Deployments
            BY <2>2, <1>7
        <3> QED
            BY <3>1 DEF Deployments
    <2> QED
        BY <2>3, <1>9 DEF j, Deployments
<1>11. new' \in Deployments /\ ~new'.staged /\ new'.dir = new.dir
    <2> HIDE DEF k
    <2> QED
        BY <1>1, <1>9, <1>10 DEF Deployments
<1>12. Made'
    BY <1>5, <1>6, <1>11 DEF Made
<1>13. ~Restaging' /\ pc' \notin Out /\ pc' # "restage"
    BY <1>5 DEF Out, Restaging
<1>14. ASSUME req.kind = "deploy"
       PROVE  /\ Straight' /\ InSync' /\ self' = self
              /\ staged' # None => staged'.dir \in root'.deploys \ root'.sealed
    <2>0. self' = self
        BY <1>1, <1>14
    <2>1. ~Restaging /\ pc \notin {"drop_dir", "drop_lock"}
          /\ ~(req.kind = "finalize" /\ pc = "seal")
        BY <1>1, <1>14 DEF Restaging
    <2>2. Straight
        BY <1>2, <1>3, <2>1, StraightNow, Zenon
    <2>3. Straight'
        BY <2>2, <2>0, <1>8, Zenon DEF Straight, StagedObject
    <2>4. InSync'
        BY <1>7, <1>8, <2>0, SyncKept, Zenon
    <2>5. staged # None => new.dir # staged.dir
        BY <1>1, <1>3, <1>14 DEF Made
    <2>6. staged' # None => staged'.dir \in root'.deploys \ root'.sealed
        BY <1>3, <1>6, <1>8, <2>5
    <2> QED
        BY <2>0, <2>3, <2>4, <2>6
<1>15. ASSUME req.kind = "finalize"
       PROVE  /\ Straight' /\ InSync' /\ self'.deployments \in Seq(Deployments)
              /\ DOMAIN self' = {"bootversion", "subbootversion", "deployments"}
              /\ staged' = None
    <2>1. StagedObject /\ staged = None
        BY <1>1, <1>3, <1>15 DEF Made
    <2>2. self' = [self EXCEPT !.deployments = Tail(@)]
        BY <1>1, <1>15, Zenon
    <2>3. /\ InSync' /\ ~StagedObject' /\ self'.deployments \in Seq(Deployments)
          /\ DOMAIN self' = {"bootversion", "subbootversion", "deployments"}
        BY <2>1, <2>2, <1>7, <1>8, TailSync, Zenon
    <2>4. Straight'
        BY <2>1, <2>3, <1>8, Zenon DEF Straight
    <2> QED
        BY <2>1, <2>3, <2>4, <1>8, Zenon
<1>16. /\ Straight' /\ InSync' /\ self'.deployments \in Seq(Deployments)
       /\ DOMAIN self' = {"bootversion", "subbootversion", "deployments"}
       /\ staged' # None => IsStaged(staged') /\ staged'.dir \in root'.deploys \ root'.sealed
    <2>1. CASE req.kind = "deploy"
        BY <2>1, <1>3, <1>7, <1>8, <1>14, Zenon
    <2>2. CASE req.kind = "finalize"
        BY <2>2, <1>15, Zenon
    <2> QED
        BY <2>1, <2>2, <1>2
<1>17. "stage" \notin workload.kinds => staged' = None
    BY <1>8, StagedNow, Zenon
<1>18. UNCHANGED <<workload, req, outer>>
    BY <1>1
<1> HIDE DEF list, k
<1> QED
    BY <1>2, <1>4, <1>6, <1>12, <1>13, <1>16, <1>17, <1>18, StraightStep, Zenon

(* So does the removal of the staged file when finalization starts.        *)
LEMMA UnlinkStep ==
    ASSUME SysrootInvariant, UnlinkStaged
    PROVE  SysrootInvariant' /\ Stands /\ Settled
<1>1. pc = "unlink" /\ UNCHANGED <<workload, root, rootDisk, booted>>
    BY Zenon DEF UnlinkStaged
<1>2. /\ Call = "unlink" /\ pc \notin Out /\ pc # "exit" /\ pc \notin Stale /\ pc \notin Writing
      /\ req.kind = "finalize" /\ pc # "freeze_again" /\ pc # "shutdown"
    BY <1>1, KindOf DEF Out
<1>3. CASE staged.merge \notin DirsOf(self.deployments)
    BY <1>1, <1>3, FailStep, Zenon DEF UnlinkStaged
<1>4. CASE staged.merge \in DirsOf(self.deployments)
    <2>1. /\ staged' = None /\ Continue(script)
          /\ new' = [self.deployments[1] EXCEPT !.staged = FALSE, !.same = FALSE]
          /\ UNCHANGED <<boot, bootDisk, req, self, outer>>
        BY <1>4, Zenon DEF UnlinkStaged
    <2>2. Stands
        BY <1>1, <2>1, MemoryStep, Zenon DEF disks
    <2>3. /\ Scripted /\ StagedSound /\ staged # None /\ Requested
          /\ staged.dir \in root.deploys \ root.sealed
        BY <1>1, StagedNow DEF Made
    <2>4. Then("finalize", "unlink", pc') /\ Scripted' /\ pc' \notin Writing
        BY <1>1, <1>2, <2>1, <2>3, ContinueStep
    <2>5. pc' = "seal"
        BY <2>4 DEF Then
    <2>6. /\ DiskTypes /\ Boots /\ InSync /\ self.deployments \in Seq(Deployments)
          /\ DOMAIN self = {"bootversion", "subbootversion", "deployments"}
        BY <1>2, AtWork, Zenon
    <2>7. DiskTypes' /\ Boots' /\ SameView /\ Settled
        BY <1>2, <2>2, <2>6, Zenon DEF Stands, Settled
    <2>8. ~Restaging /\ ~Restaging' /\ pc \notin {"drop_dir", "drop_lock"}
          /\ ~(req.kind = "finalize" /\ pc = "seal")
        BY <1>1, <2>5 DEF Restaging
    <2>9. StagedObject /\ self.deployments[1].dir = staged.dir
        BY <1>2, <2>3, <2>8, StraightNow, Zenon DEF Straight
    <2>10. self.deployments[1] \in Deployments
        BY <2>6, <2>9 DEF StagedObject
    <2>11. new' \in Deployments /\ ~new'.staged /\ new'.dir = self.deployments[1].dir
        BY <2>1, <2>10 DEF Deployments
    <2>12. StagedObject'
        BY <2>1, <2>9, Zenon DEF StagedObject
    <2>13. Made'
        BY <1>1, <1>2, <2>1, <2>3, <2>5, <2>9, <2>11, <2>12 DEF Made
    <2>14. StagedSound'
        BY <1>1, <1>2, <2>1, <2>3, <2>5, <2>9 DEF StagedSound
    <2>15. outer' = None
        BY <1>2, <2>1, <2>3, Zenon DEF Requested
    <2>16. Requested' /\ Swap'
        BY <1>1, <1>2, <2>1, <2>3, <2>4, <2>5, <2>15, RequestedKept, NotWriting
    <2>17. InSync'
        BY <2>1, <2>6, <2>7, SyncKept, Zenon
    <2>18. pc' \notin Out /\ UNCHANGED workload
        BY <1>1, <2>5 DEF Out
    <2> QED
        BY <2>1, <2>2, <2>4, <2>6, <2>7, <2>13, <2>14, <2>16, <2>17, <2>18, WorkStep, Zenon
<1> QED
    BY <1>3, <1>4

(* Everything a command does before and after it writes a list.            *)
LEMMA MakeSteps ==
    ASSUME Counting, SysrootInvariant, Make \/ Clean
    PROVE  SysrootInvariant' /\ Stands /\ Settled
BY ChoreSteps, CleanSteps, CheckoutStays, SealStays, WriteStagedStep, DeleteRestagedStep,
   ReloadStep, UnlinkStep, RelockStep, TouchStep, Zenon DEF Make, Clean
=============================================================================

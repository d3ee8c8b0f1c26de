------------------------------- MODULE MCPull -------------------------------
(***************************************************************************)
(* Instance for TLC of the modules about pulling: the fetch loop           *)
(* (PullEngine), what is around it (PullSetup), the search for remotes     *)
(* (FindRemotes), downloads (Fetcher) and progress reports (AsyncProgress).*)
(* `part`, fixed in the initial state, says which one runs; the variables  *)
(* of the others are None.                                                 *)
(***************************************************************************)
EXTENDS Integers, Sequences, FiniteSets, TLC

CONSTANTS None, Pullers, MaxVersion, MaxPulls, Parts, ConcurrentSetups

VARIABLES part,
          work, pull, stored, partial, phase,
          server, cache, mirrored, refs, puller,
          search, find, registry, transfer,
          fjob, reqs, outstanding, mainctx, timer, fpc, answering,
          values, idle, dead, ctxpc, finish, seen, sets, late

engineVars == <<work, pull, stored, partial, phase>>
setupVars == <<server, cache, mirrored, refs, puller>>
findVars == <<search, find, registry, transfer>>
fetchVars == <<fjob, reqs, outstanding, mainctx, timer, fpc, answering>>
progressVars == <<values, idle, dead, ctxpc, finish, seen, sets, late>>
vars == <<part, engineVars, setupVars, findVars, fetchVars, progressVars>>

-----------------------------------------------------------------------------
(* Two commits c1 <- c2; c2's tree t2 has a file f1 and a directory d that *)
(* is c1's tree t1, with a file f2.                                        *)

Commits == {"c1", "c2"}
Trees == {"t1", "t2"}
Metas == {"m"}
Files == {"f1", "f2"}
Parent == [c \in Commits |-> IF c = "c2" THEN "c1" ELSE None]
Root == [c \in Commits |-> IF c = "c2" THEN <<"t2", "m">> ELSE <<"t1", "m">>]
TreeFiles == [t \in Trees |-> IF t = "t2" THEN <<<<"a", "f1">>>> ELSE <<<<"b", "f2">>>>]
TreeDirs == [t \in Trees |-> IF t = "t2" THEN <<<<"d", "t1", "m">>>> ELSE <<>>]
Deltas == {[from |-> None, to |-> "c2", parts |-> {"p1", "p2"}, fallbacks |-> {"f2"}],
           [from |-> "c1", to |-> "c2", parts |-> {"p1"}, fallbacks |-> {}]}
PartObjects == [p \in {"p1", "p2"} |-> IF p = "p1" THEN {"t2", "f1"} ELSE {"t1", "m"}]
Timestamp == [c \in Commits |-> IF c = "c2" THEN 2 ELSE 1]

Plain == [ requests |-> <<<<"r1", "c2">>>>, dirs |-> {}, commitOnly |-> FALSE, depth |-> 0,
           dryRun |-> FALSE, disableDeltas |-> TRUE, requireDeltas |-> FALSE, indexed |-> FALSE,
           summaryDeltas |-> {}, localRefs |-> [r \in {"r1", "r2"} |-> None],
           localcache |-> {}, remoteIsLocal |-> FALSE, tombstones |-> FALSE,
           remote |-> {"c1", "c2", "t1", "t2", "m", "f1", "f2"},
           stored |-> {}, partial |-> {} ]
WithDeltas == [Plain EXCEPT !.disableDeltas = FALSE]

\* A plain pull; a dangling parent; a resumed pull with a local cache; a local
\* remote; a subdirectory; deltas named by a ref, an index or the summary; a
\* dry run; a delta that is required and missing.
EngineWorkloads == {
  Plain,
  [Plain EXCEPT !.depth = -1, !.remote = @ \ {"c1"}, !.tombstones = TRUE],
  [Plain EXCEPT !.depth = 1, !.stored = {"c2"}, !.partial = {"c2"}, !.localcache = {"t2", "f1", "c1"}],
  [Plain EXCEPT !.depth = 1, !.remoteIsLocal = TRUE],
  [Plain EXCEPT !.dirs = {<<"d">>}],
  WithDeltas,
  [WithDeltas EXCEPT !.indexed = TRUE, !.stored = {"c1", "t1", "m", "f2"},
                     !.localRefs = [r \in {"r1", "r2"} |-> "c1"]],
  [WithDeltas EXCEPT !.summaryDeltas = {<<None, "c2">>}, !.requests = <<<<"r1", "c2">>, <<"r2", "c1">>>>],
  [WithDeltas EXCEPT !.requireDeltas = TRUE, !.dryRun = TRUE, !.summaryDeltas = {<<None, "c2">>}],
  [WithDeltas EXCEPT !.requireDeltas = TRUE, !.summaryDeltas = {<<None, "c2">>},
                     !.requests = <<<<"r1", "c2">>, <<"r2", "c1">>>>] }

E == INSTANCE PullEngine WITH InlineParts <- {"p2"}, Trusted <- {"c1", "c2"},
       Workloads <- EngineWorkloads, MaxFetches <- 2, MaxDeltaparts <- 1, MaxWrites <- 2, Retries <- 1

-----------------------------------------------------------------------------
Verified == [op |-> "pull", isFile |-> FALSE, remoteNamed |-> FALSE, gpgOpt |-> None, gpgCfg |-> TRUE,
             signCfg |-> None, signTypes |-> {"ed25519"}, keys |-> {"ed25519"}, signedWith |-> {"ed25519"},
             noSign |-> FALSE, noSignSummary |-> FALSE, mirror |-> FALSE, archive |-> FALSE,
             requireDeltas |-> FALSE, disableDeltas |-> TRUE, commitOnly |-> FALSE, refsGiven |-> TRUE,
             branches |-> FALSE, commitsGiven |-> FALSE, optBytes |-> None, indexedDeltas |-> FALSE]

\* GPG or signapi verification or none, a mirror, a summary fetch, a local
\* remote, a summary given by the caller.
AllSetups == {Verified, [Verified EXCEPT !.gpgCfg = FALSE],
              [Verified EXCEPT !.gpgOpt = FALSE, !.signCfg = "list"],
              [Verified EXCEPT !.mirror = TRUE, !.refsGiven = FALSE, !.archive = TRUE],
              [Verified EXCEPT !.op = "fetch"],
              [Verified EXCEPT !.isFile = TRUE],
              [Verified EXCEPT !.optBytes = 1]}

S == INSTANCE PullSetup WITH Setups <- IF ConcurrentSetups THEN {Verified} ELSE AllSetups

-----------------------------------------------------------------------------
Entry(r, c, t) == [ref |-> r, commit |-> c, ts |-> t, size |-> 1, map |-> FALSE, ours |-> TRUE]

\* Two finders that name three remotes; two of them have nothing but their
\* names to order them.
Search == [answers |-> [f1 |-> <<"A">>, f2 |-> <<"B", "C">>], configured |-> {"A"}, stored |-> {},
           priority |-> [A |-> 1, B |-> 2, C |-> 2], name |-> [A |-> 1, B |-> 2, C |-> 3],
           mod |-> [A |-> 0, B |-> 0, C |-> 0], dynamic |-> {"B", "C"}, override |-> None,
           summary |-> [A |-> <<Entry("r1", "c1", 1)>>,
                        B |-> <<Entry("r1", "c2", 2), Entry("r2", "d1", 0)>>,
                        C |-> <<Entry("r2", "d1", 1)>>]]

Searches == {Search,
             [Search EXCEPT !.stored = {"d1"},
                            !.summary["C"] = <<Entry("r1", "c2", 2), Entry("r2", "d1", 2)>>],
             [Search EXCEPT !.mod = [A |-> 1, B |-> 3, C |-> 2],
                            !.summary["B"] = <<Entry("r1", "c2", 2),
                                               [Entry("r2", "d1", 2) EXCEPT !.map = TRUE, !.ours = FALSE]>>],
             [Search EXCEPT !.override = [r1 |-> "c1", r2 |-> "d1"]]}

F == INSTANCE FindRemotes WITH Refs <- {"r1", "r2"}, CommitTime <- [c1 |-> 1, c2 |-> 2, d1 |-> 1]

-----------------------------------------------------------------------------
(* A request of its own context, as for a summary; two of another context, *)
(* and one that the callback of the second makes.  Mirrors have the        *)
(* content, no such file (with an error page or without), fail, or hang.   *)

Asked(ctx, ms, limit, after) == [ctx |-> ctx, mirrors |-> ms, limit |-> limit, after |-> after]
Answer == {"content", "page", "none", "reset", "dead"}
FetchWorkloads ==
  {("s" :> Asked("x", <<"content">>, 1, None)) @@ ("t" :> Asked("y", <<b, c>>, l, None))
     @@ ("u" :> Asked("y", <<"dead">>, 0, None)) @@ ("v" :> Asked("y", <<"content">>, 0, "u")) :
     b \in Answer, c \in {"content", "none"}, l \in 0 .. 1}

D == INSTANCE Fetcher WITH FetchJobs <- FetchWorkloads

P == INSTANCE AsyncProgress WITH Keys <- {"k1", "k2"}, MaxSets <- 3

-----------------------------------------------------------------------------
NoEngine == work = None /\ pull = None /\ stored = None /\ partial = None /\ phase = None
NoSetup == server = None /\ cache = None /\ mirrored = None /\ refs = None /\ puller = None
NoFind == search = None /\ find = None /\ registry = None /\ transfer = None
NoFetch == /\ fjob = None /\ reqs = None /\ outstanding = None /\ mainctx = None /\ timer = None
           /\ fpc = None /\ answering = None
NoProgress == /\ values = None /\ idle = None /\ dead = None /\ ctxpc = None /\ finish = None
              /\ seen = None /\ sets = None /\ late = None

Init == /\ part \in Parts
        /\ IF part = "engine" THEN E!PullInit ELSE NoEngine
        /\ IF part = "setup" THEN S!SetupInit ELSE NoSetup
        /\ IF part = "find" THEN F!FindInit ELSE NoFind
        /\ IF part = "fetch" THEN D!FetcherInit ELSE NoFetch
        /\ IF part = "progress" THEN P!ProgressInit ELSE NoProgress

EngineNext == /\ part = "engine" /\ E!PullNext
              /\ UNCHANGED <<part, setupVars, findVars, fetchVars, progressVars>>
SetupNext == /\ part = "setup" /\ S!SetupNext
             /\ UNCHANGED <<part, engineVars, findVars, fetchVars, progressVars>>
FindNext == /\ part = "find" /\ F!FindNext
            /\ UNCHANGED <<part, engineVars, setupVars, fetchVars, progressVars>>
OnlyFetch(A) == part = "fetch" /\ A /\ UNCHANGED <<part, engineVars, setupVars, findVars, progressVars>>
FetchNext == OnlyFetch(D!FetcherNext)
ProgressNext == /\ part = "progress" /\ P!ProgressNext
                /\ UNCHANGED <<part, engineVars, setupVars, findVars, fetchVars>>

Next == EngineNext \/ SetupNext \/ FindNext \/ FetchNext \/ ProgressNext

\* The callbacks of a pull run on a main context that the pull itself iterates,
\* and every request it starts completes with an answer, an error or a timeout.
\* A caller of the fetcher iterates its context, which dispatches the sources that
\* are ready in turn, and a server that hangs is given up by the timeouts set for
\* libcurl.  The context of a progress object is iterated.
Spec == /\ Init /\ [][Next]_vars
        /\ WF_vars(/\ part = "engine" /\ E!PullStep
                   /\ UNCHANGED <<part, setupVars, findVars, fetchVars, progressVars>>)
        /\ WF_vars(OnlyFetch(D!FetcherStep))
        /\ SF_vars(OnlyFetch(\E r \in {"s", "t", "u", "v"} : D!event_cb(r) \/ D!RunCallback(r)))
        /\ WF_vars(/\ part = "progress" /\ P!ProgressStep
                   /\ UNCHANGED <<part, engineVars, setupVars, findVars, fetchVars>>)

-----------------------------------------------------------------------------
(* The counters of the fetch loop are exact and within their limits,       *)
(* nothing is pending when it ends, and what is stored was verified first  *)
(* and is complete or marked (PullSoundStep of PullEngine).                *)
PullSound == [][part = "engine" => E!PullSoundStep]_vars
(* Every pull ends.                                                        *)
PullTerminates == part = "engine" => <>(phase \in {"failed", "done"})
(* "If we're in error state, we wait for any pending operations to         *)
(* complete".                                                              *)
ErrorWaitsForOutstanding == part = "engine" => E!ErrorWaitsForOutstanding
(* Refs only move forward, by a summary that its signature covers and that *)
(* is as new as the signature offered at the start (SummarySoundStep of    *)
(* PullSetup).                                                             *)
SummarySound == [][part = "setup" => S!SummarySoundStep]_vars
(* A search offers the latest commits, each ref is pulled once, and no     *)
(* temporary remote stays (FindSound of FindRemotes).                      *)
FindSound == part = "find" => F!FindSound
(* Of results otherwise alike the one with more refs comes first.          *)
MostUsefulFirst == part = "find" => F!MostUsefulFirst
(* Every request is answered, whatever the servers do, and within limits   *)
(* (AllAnswered of Fetcher).                                               *)
RequestsAnswered == <>[](part = "fetch" => D!AllAnswered)
(* What is delivered is what one mirror sent.                              *)
DeliveredFromOneMirror == part = "fetch" => D!DeliveredFromOneMirror
(* The values of a progress object that are set last get shown, and        *)
(* nothing is shown after finish (LastValuesShown of AsyncProgress).       *)
ProgressShown == <>[](part = "progress" => P!LastValuesShown)
(* After finish in any thread the signal is not emitted.                   *)
QuietAfterAnyFinish == part = "progress" => P!QuietAfterAnyFinish
=============================================================================

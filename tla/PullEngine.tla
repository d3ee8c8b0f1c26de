----------------------------- MODULE PullEngine -----------------------------
(***************************************************************************)
(* The object phase of ostree_repo_pull_with_options (ostree-repo-pull.c): *)
(* from initiate_request to the end of the main loop.  `pull` is the       *)
(* OtPullData structure: the scan queue, the tables of pending requests,   *)
(* the six outstanding counters and the tables that keep an object from    *)
(* being requested or scanned twice.  pull.flight and pull.writes are the  *)
(* fetches and the repository writes that are really under way; the code   *)
(* only has the counters.  Every main-loop callback is one action.         *)
(*                                                                         *)
(* Objects are model values; what a commit or a dirtree refers to is given *)
(* by the functions below.  A path is a sequence of names.  The checks a   *)
(* commit has to pass (signatures, bindings, timestamps) are one predicate,*)
(* membership of Trusted.                                                  *)
(***************************************************************************)
EXTENDS Integers, Sequences, FiniteSets, SequencesExt

CONSTANTS
  Commits, Trees, Metas, Files,  \* the objects, by type
  Parent,        \* Parent[c]: the parent commit or None
  Root,          \* Root[c] = <<dirtree, dirmeta>>
  TreeFiles,     \* TreeFiles[t]: sequence of <<name, file>>
  TreeDirs,      \* TreeDirs[t]: sequence of <<name, dirtree, dirmeta>>
  Deltas,        \* the remote's deltas: [from, to, parts, fallbacks]
  PartObjects,   \* PartObjects[part]: the objects it carries
  InlineParts,   \* the parts included in their superblock
  Timestamp,     \* Timestamp[c]
  Trusted,       \* the commits that pass verification
  Workloads,     \* what is asked of the pull, see Init
  MaxFetches,    \* max_outstanding_fetcher_requests
  MaxDeltaparts, \* _OSTREE_MAX_OUTSTANDING_DELTAPART_REQUESTS
  MaxWrites,     \* _OSTREE_MAX_OUTSTANDING_WRITE_REQUESTS
  Retries,       \* n_network_retries
  None

VARIABLES
  work,    \* the workload: request, options, and what the remote holds
  pull,    \* OtPullData
  stored,  \* the objects of the local repository
  partial, \* the commits with a .commitpartial file
  phase    \* "initiate", "loop", "failed", "done"

pullVars == <<work, pull, stored, partial, phase>>

MetaKinds == {"meta", "detached", "tombstone", "index", "super"}

(* FetchObjectData, FetchDeltaIndexData, FetchDeltaSuperData and            *)
(* FetchStaticDeltaData.  arg is the path of an object, the from revision   *)
(* of a delta; have is object_is_stored.                                    *)
Request(kind, obj, arg, ref, have) ==
  [kind |-> kind, obj |-> obj, arg |-> arg, ref |-> ref, have |-> have, n |-> Retries]

Write(kind, obj, arg, ref) == [kind |-> kind, obj |-> obj, arg |-> arg, ref |-> ref]

Fetches(p) == p.metaFetches + p.contentFetches + p.partFetches
WriteReqs(p) == p.metaWrites + p.contentWrites + p.partWrites

fetcher_queue_is_full(p) ==
  \/ Fetches(p) = MaxFetches
  \/ p.partFetches = MaxDeltaparts
  \/ WriteReqs(p) >= MaxWrites

ensure_idle_queued(p) ==
  IF p.idle \/ fetcher_queue_is_full(p) THEN p ELSE [p EXCEPT !.idle = TRUE]

queue_scan(p, obj, path, ref) ==
  ensure_idle_queued([p EXCEPT !.scan = Append(@, [obj |-> obj, path |-> path, ref |-> ref])])

start_fetch(p, r) ==
  LET q == [p EXCEPT !.flight = @ \cup {r}]
  IN  CASE r.kind \in MetaKinds -> [q EXCEPT !.metaFetches = @ + 1]
        [] r.kind = "content"   -> [q EXCEPT !.contentFetches = @ + 1]
        [] r.kind = "part"      -> [q EXCEPT !.partFetches = @ + 1]

(* The pending table a request waits in; the object tables are keyed by     *)
(* object name, so a second request for the same name replaces the first.   *)
PendingTable(r) ==
  CASE r.kind \in {"meta", "detached", "tombstone"} -> "meta"
    [] r.kind = "index" -> "index"
    [] r.kind = "super" -> "super"
    [] r.kind = "part" -> "part"
    [] r.kind = "content" -> "content"

SameKey(r, s) == /\ r.obj = s.obj
                 /\ (r.kind = "tombstone") = (s.kind = "tombstone")

enqueue_one_request(p, r) ==
  IF ~fetcher_queue_is_full(p) THEN start_fetch(p, r)
  ELSE LET t == PendingTable(r)
       IN  [p EXCEPT !.pending[t] =
              {s \in @ : t \in {"meta", "content"} => ~SameKey(r, s)} \cup {r}]

StartWrite(p, wr) ==
  LET q == [p EXCEPT !.writes = @ \cup {wr}]
  IN  CASE wr.kind = "meta" -> [q EXCEPT !.metaWrites = @ + 1]
        [] wr.kind \in {"content", "import"} -> [q EXCEPT !.contentWrites = @ + 1]
        [] wr.kind = "part" -> [q EXCEPT !.partWrites = @ + 1]

-----------------------------------------------------------------------------
(* check_outstanding_requests_handle_error: the end of most callbacks.      *)

(* Looks at the limits once, before the loop.                               *)
MutFillFrom(p, table) ==
  IF fetcher_queue_is_full(p) THEN {p}
  ELSE {FoldLeft(start_fetch, [p EXCEPT !.pending[table] = {}], SetToSeq(p.pending[table]))}

(* One of the while loops: start requests of one table until it is empty or *)
(* the queue is full.  The order of a hash table is arbitrary, so any       *)
(* subset of the right size may be the one that starts.                     *)
FillFrom(p, table) ==
  LET room == IF fetcher_queue_is_full(p) THEN 0
              ELSE IF table = "part"
                   THEN IF MaxFetches - Fetches(p) < MaxDeltaparts - p.partFetches
                        THEN MaxFetches - Fetches(p) ELSE MaxDeltaparts - p.partFetches
                   ELSE MaxFetches - Fetches(p)
      n == IF Cardinality(p.pending[table]) < room
           THEN Cardinality(p.pending[table]) ELSE room
  IN  {FoldLeft(start_fetch, [p EXCEPT !.pending[table] = @ \ S], SetToSeq(S)) :
         S \in {T \in SUBSET p.pending[table] : Cardinality(T) = n}}

NoPending == [t \in {"meta", "index", "super", "part", "content"} |-> {}]

(* Forgets the delta parts.                                                 *)
MutCheckOutstanding(p, failed) ==
  IF failed \/ p.caughtError
  THEN {[p EXCEPT !.caughtError = TRUE, !.scan = <<>>, !.pending = NoPending]}
  ELSE {IF q.scan = <<>> THEN q ELSE ensure_idle_queued(q) :
          q \in UNION {FillFrom(q1, "content") : q1 \in FillFrom(p, "meta")}}

check_outstanding_requests_handle_error(p, failed) ==
  IF failed \/ p.caughtError
  THEN {[p EXCEPT !.caughtError = TRUE, !.scan = <<>>, !.pending = NoPending]}
  ELSE LET filled == UNION {UNION {UNION {UNION {
                       FillFrom(q4, "content") : q4 \in FillFrom(q3, "part")}
                                               : q3 \in FillFrom(q2, "super")}
                                               : q2 \in FillFrom(q1, "index")}
                                               : q1 \in FillFrom(p, "meta")}
       IN  {IF q.scan = <<>> THEN q ELSE ensure_idle_queued(q) : q \in filled}

(* The count of retries starts again instead of running out.               *)
MutFinishFetch(p, r, outcome) ==
  LET q == CASE r.kind \in MetaKinds -> [p EXCEPT !.metaFetches = @ - 1]
             [] r.kind = "content"   -> [p EXCEPT !.contentFetches = @ - 1]
             [] r.kind = "part"      -> [p EXCEPT !.partFetches = @ - 1]
  IN  IF outcome = "transient"
      THEN {enqueue_one_request(q, [r EXCEPT !.n = IF @ > 0 THEN @ - 1 ELSE Retries])}
      ELSE check_outstanding_requests_handle_error(q, outcome # "ok")

(* The end of a fetch callback: a transient error with retries left puts    *)
(* the request back, anything else goes through the check above.            *)
FinishFetch(p, r, outcome) ==
  LET q == CASE r.kind \in MetaKinds -> [p EXCEPT !.metaFetches = @ - 1]
             [] r.kind = "content"   -> [p EXCEPT !.contentFetches = @ - 1]
             [] r.kind = "part"      -> [p EXCEPT !.partFetches = @ - 1]
  IN  IF outcome = "transient" /\ r.n > 0
      THEN {enqueue_one_request(q, [r EXCEPT !.n = @ - 1])}
      ELSE check_outstanding_requests_handle_error(q, outcome # "ok")

pull_termination_condition(p) ==
  IF work.dryRun THEN p.progressEmitted
  ELSE Fetches(p) = 0 /\ WriteReqs(p) = 0 /\ p.scan = <<>>

-----------------------------------------------------------------------------
(* Scanning.                                                                *)

IsParentCommit(p, c) == c \in DOMAIN p.depthOf

(* matches_pull_dir: the path is the requested directory, leads to it (only *)
(* as a directory), or lies below it.                                       *)
matches_pull_dir(path, dir, isDir) ==
  \/ path = dir
  \/ IsStrictPrefix(path, dir) /\ isDir
  \/ IsStrictPrefix(dir, path)

pull_matches_subdir(path, name, isDir) ==
  \/ work.dirs = {}
  \/ \E d \in work.dirs : matches_pull_dir(Append(path, name), d, isDir)

(* One file of a dirtree: skipped if stored or already requested, imported  *)
(* from a local repository that has it, else requested over HTTP.           *)
ScanFile(p, f, path) ==
  IF f \in stored \/ f \in p.requestedContent THEN p
  ELSE LET q == [p EXCEPT !.requestedContent = @ \cup {f}]
       IN  IF f \in work.localcache
           THEN StartWrite(q, Write("import", f, path, None))
           ELSE enqueue_one_request(q, Request("content", f, path, None, FALSE))

scan_dirtree_object(p, t, path) ==
  LET file(q, e) == IF pull_matches_subdir(path, e[1], FALSE) THEN ScanFile(q, e[2], path) ELSE q
      dir(q, e) == IF pull_matches_subdir(path, e[1], TRUE)
                   THEN LET sub == Append(path, e[1])
                        IN  queue_scan(queue_scan(q, e[2], sub, None), e[3], sub, None)
                   ELSE q
  IN  FoldLeft(dir, FoldLeft(file, p, TreeFiles[t]), TreeDirs[t])

(* The checks at the head of scan_commit_object, skipped for what           *)
(* _verify_unwritten_commit has verified; they add c to the table.          *)
VerifyCommit(p, c) == [p EXCEPT !.verified = @ \cup {c}]
CommitVerifies(p, c) == c \in p.verified \/ c \in Trusted

(* The rest of scan_commit_object: queue the parent while the depth allows, *)
(* and the root of a partial commit that no delta is bringing.              *)
scan_commit_object(p, c, isPartial) ==
  LET depth == IF c \in DOMAIN p.depthOf THEN p.depthOf[c] ELSE work.depth
      parentDepth == IF depth > 0 THEN depth - 1 ELSE -1
      p1 == IF (work.depth = -1 \/ depth > 0) /\ Parent[c] # None
            THEN queue_scan([p EXCEPT !.depthOf =
                   [x \in DOMAIN @ \cup {Parent[c]} |-> IF x = Parent[c] THEN parentDepth ELSE @[x]]],
                   Parent[c], <<>>, None)
            ELSE p
  IN  IF isPartial /\ ~work.commitOnly /\ c \notin p.deltaTargets
      THEN queue_scan(queue_scan(p1, Root[c][1], <<>>, None), Root[c][2], <<>>, None)
      ELSE p1

(* When following parents a missing commit is not an error: the remote may  *)
(* end in a dangling parent.                                                *)
MayBeMissing(p, o) == o \in Commits /\ work.depth # 0 /\ IsParentCommit(p, o)

(* The import part of scan_one_metadata_object: from the remote itself when *)
(* it is a local repository, else from a localcache repository.             *)
ImportsObject(o) == /\ o \notin stored
                    /\ o \in IF work.remoteIsLocal THEN work.remote ELSE work.localcache
ImportFails(p, o) == /\ work.remoteIsLocal /\ o \notin stored
                     /\ o \notin work.remote /\ ~MayBeMissing(p, o)

(* scan_one_metadata_object: the new OtPullData, and whether it failed.     *)
scan_one_metadata_object(p, item) ==
  LET o == item.obj
      imports == ImportsObject(o)
      p0 == IF imports /\ o \in Commits THEN [p EXCEPT !.detachedDone = @ \cup {o}] ELSE p
      isStored == o \in stored \/ imports
      ok(q) == [p |-> q, failed |-> FALSE]
      done(q) == ok([q EXCEPT !.scanned = @ \cup {o}])
  IN  CASE o \in p.scanned -> ok(p)
        [] o \notin p.scanned /\ ~isStored /\ work.remoteIsLocal ->
             [p |-> p, failed |-> ImportFails(p, o)]
        [] o \notin p.scanned /\ ~isStored /\ ~work.remoteIsLocal ->
             IF o \in p.requestedMeta THEN ok(p)
             ELSE ok(enqueue_one_request([p EXCEPT !.requestedMeta = @ \cup {o}],
                       Request(IF o \in Commits THEN "detached" ELSE "meta",
                               o, item.path, item.ref, FALSE)))
        [] o \notin p.scanned /\ isStored /\ o \in Commits ->
             IF o \notin p0.detachedDone
             THEN ok(enqueue_one_request(p0, Request("detached", o, item.path, item.ref, TRUE)))
             ELSE IF ~CommitVerifies(p0, o) THEN [p |-> p0, failed |-> TRUE]
             ELSE done(scan_commit_object(VerifyCommit(p0, o), o, o \in partial \/ imports))
        [] o \notin p.scanned /\ isStored /\ o \in Trees ->
             done(scan_dirtree_object(p0, o, item.path))
        [] o \notin p.scanned /\ isStored /\ o \in Metas -> ok(p0)

InLoop == phase = "loop" /\ ~pull_termination_condition(pull)

(* idle_worker: pops one object, scans it and lets more work start; when    *)
(* the queue is empty it removes itself.  A commit is marked partial before *)
(* it is imported, so that the scan recurses into it.                       *)
idle_worker ==
  /\ InLoop /\ pull.idle
  /\ \/ /\ pull.scan = <<>>
        /\ pull' = [pull EXCEPT !.idle = FALSE]
        /\ UNCHANGED <<stored, partial>>
     \/ /\ pull.scan # <<>>
        /\ LET o == Head(pull.scan).obj
               r == scan_one_metadata_object([pull EXCEPT !.scan = Tail(@)], Head(pull.scan))
               imports == ImportsObject(o) /\ o \notin pull.scanned
           IN  /\ pull' \in check_outstanding_requests_handle_error(r.p, r.failed)
               /\ stored' = IF imports THEN stored \cup {o} ELSE stored
               /\ partial' = IF imports /\ o \in Commits THEN partial \cup {o} ELSE partial
  /\ UNCHANGED <<work, phase>>

-----------------------------------------------------------------------------
(* Fetch and write callbacks.                                               *)

(* How a fetch of something the remote has, or has not, may end.            *)
Outcomes(has) == {"transient", "fatal"} \cup IF has THEN {"ok"} ELSE {"missing"}

Landed(r) == [pull EXCEPT !.flight = @ \ {r}]

(* content_fetch_on_complete *)
content_fetch_on_complete(r) ==
  /\ InLoop /\ r \in pull.flight /\ r.kind = "content"
  /\ \E outcome \in Outcomes(r.obj \in work.remote) :
       pull' \in FinishFetch(IF outcome = "ok"
                             THEN StartWrite(Landed(r), Write("content", r.obj, r.arg, None))
                             ELSE Landed(r), r, outcome)
  /\ UNCHANGED <<work, stored, partial, phase>>

(* meta_fetch_on_complete, the detached metadata of a commit: found or not, *)
(* the commit itself is requested next, or scanned if it is stored.         *)
detached_fetch_on_complete(r) ==
  /\ InLoop /\ r \in pull.flight /\ r.kind = "detached"
  /\ \E outcome \in {"transient", "fatal", "ok"} :
       LET q == [Landed(r) EXCEPT !.detachedDone = @ \cup {r.obj}]
           next == IF r.have THEN queue_scan(q, r.obj, r.arg, r.ref)
                   ELSE enqueue_one_request(q, Request("meta", r.obj, r.arg, r.ref, FALSE))
       IN  pull' \in FinishFetch(IF outcome = "ok" THEN next ELSE Landed(r), r, outcome)
  /\ UNCHANGED <<work, stored, partial, phase>>

(* meta_fetch_on_complete, a metadata object or a tombstone.  A commit is   *)
(* verified and marked partial before its write starts.                     *)
meta_fetch_on_complete(r) ==
  /\ InLoop /\ r \in pull.flight /\ r.kind = "meta"
  /\ \E outcome \in Outcomes(r.obj \in work.remote) :
       LET isCommit == r.obj \in Commits
           verifies == isCommit => CommitVerifies(pull, r.obj)
           forgiven == outcome = "missing" /\ MayBeMissing(pull, r.obj)
           q == IF outcome = "ok" /\ verifies
                THEN StartWrite(IF isCommit THEN VerifyCommit(Landed(r), r.obj) ELSE Landed(r),
                                Write("meta", r.obj, r.arg, r.ref))
                ELSE IF forgiven /\ work.tombstones
                THEN enqueue_one_request(Landed(r), Request("tombstone", r.obj, r.arg, None, FALSE))
                ELSE Landed(r)
           result == IF forgiven \/ (outcome = "ok" /\ verifies) THEN "ok"
                     ELSE IF outcome = "transient" THEN "transient" ELSE "fatal"
       IN  /\ pull' \in FinishFetch(q, r, result)
           /\ partial' = IF isCommit /\ outcome = "ok" /\ verifies
                         THEN partial \cup {r.obj} ELSE partial
  /\ UNCHANGED <<work, stored, phase>>

(* A tombstone is empty: nothing is written.                                *)
tombstone_fetch_on_complete(r) ==
  /\ InLoop /\ r \in pull.flight /\ r.kind = "tombstone"
  /\ \E outcome \in Outcomes(work.tombstones) : pull' \in FinishFetch(Landed(r), r, outcome)
  /\ UNCHANGED <<work, stored, partial, phase>>

(* An imported object is not counted down.                                  *)
MutFinishWrite(wr) ==
  LET q == [pull EXCEPT !.writes = @ \ {wr}]
  IN  CASE wr.kind = "meta" -> [q EXCEPT !.metaWrites = @ - 1]
        [] wr.kind = "content" -> [q EXCEPT !.contentWrites = @ - 1]
        [] wr.kind = "import" -> q
        [] wr.kind = "part" -> [q EXCEPT !.partWrites = @ - 1]

FinishWrite(wr) ==
  LET q == [pull EXCEPT !.writes = @ \ {wr}]
  IN  CASE wr.kind = "meta" -> [q EXCEPT !.metaWrites = @ - 1]
        [] wr.kind \in {"content", "import"} -> [q EXCEPT !.contentWrites = @ - 1]
        [] wr.kind = "part" -> [q EXCEPT !.partWrites = @ - 1]

(* on_metadata_written: the object is stored, so it can be scanned.         *)
on_metadata_written(wr) ==
  /\ InLoop /\ wr \in pull.writes /\ wr.kind = "meta"
  /\ \/ /\ stored' = stored \cup {wr.obj}
        /\ LET q == queue_scan(pull, wr.obj, wr.arg, wr.ref)
           IN  pull' \in check_outstanding_requests_handle_error(
                 [q EXCEPT !.writes = @ \ {wr}, !.metaWrites = @ - 1], FALSE)
     \/ /\ pull' \in check_outstanding_requests_handle_error(FinishWrite(wr), TRUE)
        /\ UNCHANGED stored
  /\ UNCHANGED <<work, partial, phase>>

(* content_fetch_on_write_complete, on_local_object_imported                *)
content_written(wr) ==
  /\ InLoop /\ wr \in pull.writes /\ wr.kind \in {"content", "import"}
  /\ \E ok \in BOOLEAN :
       /\ stored' = IF ok THEN stored \cup {wr.obj} ELSE stored
       /\ pull' \in check_outstanding_requests_handle_error(FinishWrite(wr), ~ok)
  /\ UNCHANGED <<work, partial, phase>>

-----------------------------------------------------------------------------
(* Static deltas.                                                           *)

(* process_one_static_delta_fallback *)
process_one_static_delta_fallback(p, f) ==
  IF work.dryRun \/ f \in stored \/ f \in p.requestedContent THEN p
  ELSE enqueue_one_request([p EXCEPT !.requestedContent = @ \cup {f}],
                           Request("content", f, <<>>, None, FALSE))

(* One part header: skipped when its objects are there, executed at once    *)
(* when it is inline, else fetched.                                         *)
ProcessPart(p, part) ==
  IF work.dryRun \/ PartObjects[part] \subseteq stored THEN p
  ELSE IF part \in InlineParts THEN StartWrite(p, Write("part", part, <<>>, None))
  ELSE enqueue_one_request(p, Request("part", part, None, None, FALSE))

WritesCommit(d) == ~work.dryRun /\ d.to \notin stored

(* The commit of a superblock is written unverified.                        *)
MutProcessDelta(p, d, ref) ==
  LET p1 == FoldLeft(process_one_static_delta_fallback, p, SetToSeq(d.fallbacks))
      p2 == IF WritesCommit(d) THEN StartWrite(p1, Write("meta", d.to, <<>>, ref)) ELSE p1
  IN  FoldLeft(ProcessPart, p2, SetToSeq(d.parts))

(* process_one_static_delta: fallbacks, then the commit if it is not        *)
(* stored and verifies, then the parts.                                     *)
process_one_static_delta(p, d, ref) ==
  LET p1 == FoldLeft(process_one_static_delta_fallback, p, SetToSeq(d.fallbacks))
      p2 == IF WritesCommit(d)
            THEN StartWrite(VerifyCommit(p1, d.to), Write("meta", d.to, <<>>, ref)) ELSE p1
  IN  IF WritesCommit(d) /\ ~CommitVerifies(p1, d.to) THEN p1
      ELSE FoldLeft(ProcessPart, p2, SetToSeq(d.parts))

DeltaNamed(from, to) == CHOOSE d \in Deltas : d.from = from /\ d.to = to
HasDelta(from, to) == \E d \in Deltas : d.from = from /\ d.to = to

(* on_superblock_fetched: a missing superblock falls back to the objects    *)
(* unless deltas are required; the free space check may fail at the end.    *)
on_superblock_fetched(r) ==
  /\ InLoop /\ r \in pull.flight /\ r.kind = "super"
  /\ \E outcome \in Outcomes(HasDelta(r.arg, r.obj)), space \in BOOLEAN :
       LET d == DeltaNamed(r.arg, r.obj)
           verifies == WritesCommit(d) => CommitVerifies(pull, d.to)
           got == outcome = "ok"
           target == [Landed(r) EXCEPT !.deltaTargets = @ \cup {r.obj}]
           q == IF got
                THEN process_one_static_delta(target, d, r.ref)
                ELSE IF outcome = "missing" /\ ~work.requireDeltas
                THEN queue_scan(Landed(r), r.obj, <<>>, r.ref)
                ELSE Landed(r)
           result == IF got THEN IF verifies /\ space THEN "ok" ELSE "fatal"
                     ELSE IF outcome = "missing"
                     THEN IF work.requireDeltas THEN "fatal" ELSE "ok"
                     ELSE outcome
       IN  /\ ~got => space
           /\ pull' \in FinishFetch(q, r, result)
           /\ partial' = IF got /\ WritesCommit(d) /\ verifies
                         THEN partial \cup {d.to} ELSE partial
  /\ UNCHANGED <<work, stored, phase>>

(* static_deltapart_fetch_on_complete *)
static_deltapart_fetch_on_complete(r) ==
  /\ InLoop /\ r \in pull.flight /\ r.kind = "part"
  /\ \E outcome \in Outcomes(TRUE) :
       pull' \in FinishFetch(IF outcome = "ok"
                             THEN StartWrite(Landed(r), Write("part", r.obj, <<>>, None))
                             ELSE Landed(r), r, outcome)
  /\ UNCHANGED <<work, stored, partial, phase>>

(* on_static_delta_written: executing the part has written its objects.     *)
on_static_delta_written(wr) ==
  /\ InLoop /\ wr \in pull.writes /\ wr.kind = "part"
  /\ \E ok \in BOOLEAN :
       /\ stored' = IF ok THEN stored \cup PartObjects[wr.obj] ELSE stored
       /\ pull' \in check_outstanding_requests_handle_error(FinishWrite(wr), ~ok)
  /\ UNCHANGED <<work, partial, phase>>

(* get_best_static_delta_start_for: "unchanged", "none", "scratch", or the  *)
(* newest complete commit of the repository that a known delta starts from. *)
Candidates(p, to) == {c \in (stored \cap Commits) \ partial : <<c, to>> \in p.knownDeltas}

get_best_static_delta_start_for(p, to) ==
  IF to \in stored /\ to \notin partial THEN "unchanged"
  ELSE IF Candidates(p, to) # {}
  THEN CHOOSE c \in Candidates(p, to) :
         \A d \in Candidates(p, to) : Timestamp[d] <= Timestamp[c]
  ELSE IF <<None, to>> \in p.knownDeltas THEN "scratch" ELSE "none"

(* initiate_delta_request: the new OtPullData, and whether it failed.       *)
initiate_delta_request(p, ref, to, from) ==
  LET best == get_best_static_delta_start_for(p, to)
      objects == [p |-> queue_scan(p, to, <<>>, ref), failed |-> FALSE]
      super(f) == [p |-> enqueue_one_request(p, Request("super", to, f, ref, FALSE)),
                   failed |-> FALSE]
  IN  CASE best = "none"      -> IF work.requireDeltas THEN [p |-> p, failed |-> TRUE] ELSE objects
        [] best = "scratch"   -> IF from # None THEN objects ELSE super(None)
        [] best = "unchanged" -> IF work.requireDeltas THEN [p |-> p, failed |-> FALSE] ELSE objects
        [] OTHER              -> super(best)

(* on_delta_index_fetched: the deltas of the index join the known ones; a   *)
(* missing index leaves them as they are.                                   *)
on_delta_index_fetched(r) ==
  /\ InLoop /\ r \in pull.flight /\ r.kind = "index"
  /\ \E outcome \in Outcomes(TRUE) \cup {"missing"} :
       LET q == [Landed(r) EXCEPT !.knownDeltas =
                   IF outcome = "ok"
                   THEN @ \cup {<<d.from, d.to>> : d \in {e \in Deltas : e.to = r.obj}} ELSE @]
           next == initiate_delta_request(q, r.ref, r.obj, r.arg)
           got == outcome \in {"ok", "missing"}
       IN  pull' \in FinishFetch(IF got THEN next.p ELSE q, r,
                       IF ~got THEN outcome ELSE IF next.failed THEN "fatal" ELSE "ok")
  /\ UNCHANGED <<work, stored, partial, phase>>

(* initiate_request for one ref (or a bare commit, ref = None).             *)
initiate_request(p, ref, to) ==
  LET tip == IF ref = None THEN None ELSE work.localRefs[ref]
      from == IF tip \in partial THEN None ELSE tip
      ok(q) == [p |-> q, failed |-> FALSE]
  IN  IF work.disableDeltas THEN ok(queue_scan(p, to, <<>>, ref))
      ELSE IF work.indexed THEN ok(enqueue_one_request(p, Request("index", to, tip, ref, FALSE)))
      ELSE IF work.summaryDeltas # {} THEN initiate_delta_request(p, ref, to, tip)
      ELSE IF ref # None /\ from = to THEN ok(queue_scan(p, to, <<>>, ref))
      ELSE ok(enqueue_one_request(p, Request("super", to, from, ref, FALSE)))

-----------------------------------------------------------------------------
(* ostree_repo_pull_with_options around the main loop.                      *)

PullInit ==
  /\ work \in Workloads
  /\ stored = work.stored
  /\ partial = work.partial
  /\ phase = "initiate"
  /\ pull = [ todo |-> work.requests, scan |-> <<>>, idle |-> FALSE,
              pending |-> NoPending, flight |-> {}, writes |-> {},
              metaFetches |-> 0, contentFetches |-> 0, partFetches |-> 0,
              metaWrites |-> 0, contentWrites |-> 0, partWrites |-> 0,
              scanned |-> {}, requestedMeta |-> {}, requestedContent |-> {},
              detachedDone |-> {}, verified |-> {}, deltaTargets |-> {},
              knownDeltas |-> work.summaryDeltas,
              depthOf |-> [c \in {} |-> 0],
              caughtError |-> FALSE, progressEmitted |-> FALSE ]

(* One round of the two loops that call initiate_request; an error leaves   *)
(* the function without entering the main loop.                             *)
Initiate ==
  /\ phase = "initiate" /\ pull.todo # <<>>
  /\ LET r == initiate_request(pull, Head(pull.todo)[1], Head(pull.todo)[2])
     IN  /\ pull' = [r.p EXCEPT !.todo = Tail(@)]
         /\ phase' = IF r.failed THEN "failed" ELSE phase
  /\ UNCHANGED <<work, stored, partial>>

EnterLoop ==
  /\ phase = "initiate" /\ pull.todo = <<>>
  /\ phase' = "loop"
  /\ UNCHANGED <<work, pull, stored, partial>>

(* update_progress; only in a dry run does the loop depend on it.           *)
update_progress ==
  /\ InLoop /\ work.dryRun /\ pull.metaFetches = 0
  /\ pull' = [pull EXCEPT !.progressEmitted = TRUE]
  /\ UNCHANGED <<work, stored, partial, phase>>

Requested == {work.requests[i][2] : i \in DOMAIN work.requests}

(* Also a pull of subdirectories removes the marks.                         *)
MutLeaveLoop ==
  /\ phase = "loop" /\ pull_termination_condition(pull)
  /\ phase' = IF pull.caughtError THEN "failed" ELSE "done"
  /\ partial' = IF ~pull.caughtError /\ ~work.dryRun
                THEN partial \ (Requested \cup DOMAIN pull.depthOf) ELSE partial
  /\ UNCHANGED <<work, pull, stored>>

(* The main loop ends; a full pull that succeeded removes the .commitpartial *)
(* files of what was requested and of every parent that was followed.        *)
LeaveLoop ==
  /\ phase = "loop" /\ pull_termination_condition(pull)
  /\ phase' = IF pull.caughtError THEN "failed" ELSE "done"
  /\ partial' = IF ~pull.caughtError /\ ~work.dryRun /\ work.dirs = {} /\ ~work.commitOnly
                THEN partial \ (Requested \cup DOMAIN pull.depthOf) ELSE partial
  /\ UNCHANGED <<work, pull, stored>>

Callbacks ==
  \/ idle_worker
  \/ update_progress
  \/ \E r \in pull.flight :
       \/ content_fetch_on_complete(r)
       \/ detached_fetch_on_complete(r)
       \/ meta_fetch_on_complete(r)
       \/ tombstone_fetch_on_complete(r)
       \/ on_superblock_fetched(r)
       \/ static_deltapart_fetch_on_complete(r)
       \/ on_delta_index_fetched(r)
  \/ \E wr \in pull.writes :
       \/ on_metadata_written(wr)
       \/ content_written(wr)
       \/ on_static_delta_written(wr)

PullFinished == phase \in {"failed", "done"} /\ UNCHANGED pullVars

PullStep == Initiate \/ EnterLoop \/ Callbacks \/ LeaveLoop
PullNext == PullStep \/ PullFinished

-----------------------------------------------------------------------------
(* Properties.                                                              *)

OfKind(set, kinds) == Cardinality({x \in set : x.kind \in kinds})

(* The six outstanding counters are the numbers of requests and writes that *)
(* are really under way: no callback decrements twice or not at all, on     *)
(* success, error, retry or fallback.  The main loop ends on the counters.  *)
CountersMatchRequests ==
  /\ pull.metaFetches = OfKind(pull.flight, MetaKinds)
  /\ pull.contentFetches = OfKind(pull.flight, {"content"})
  /\ pull.partFetches = OfKind(pull.flight, {"part"})
  /\ pull.metaWrites = OfKind(pull.writes, {"meta"})
  /\ pull.contentWrites = OfKind(pull.writes, {"content", "import"})
  /\ pull.partWrites = OfKind(pull.writes, {"part"})

(* fetcher_queue_is_full compares with ==, so the limits hold only if no    *)
(* request ever starts past them (start_fetch_deltapart asserts the second).*)
FetchLimits == Fetches(pull) <= MaxFetches /\ pull.partFetches <= MaxDeltaparts

(* pull_termination_condition does not look at the pending tables: whenever *)
(* it holds, nothing waits in them.                                         *)
NothingPendingAtExit ==
  phase = "loop" /\ ~work.dryRun /\ pull_termination_condition(pull) => pull.pending = NoPending

Below(S) == S \cup UNION {{TreeFiles[t][i][2] : i \in DOMAIN TreeFiles[t]}
                          \cup {TreeDirs[t][i][2] : i \in DOMAIN TreeDirs[t]}
                          \cup {TreeDirs[t][i][3] : i \in DOMAIN TreeDirs[t]} : t \in S \cap Trees}
\* the objects of a commit whose tree is at most two levels deep
Closure(c) == Below(Below({Root[c][1], Root[c][2]}))

(* A commit without a .commitpartial file has all its objects: whatever the *)
(* order of callbacks, retries, fallbacks from a delta to loose objects and *)
(* imports, the mark is only removed when the commit is complete.           *)
CompleteUnlessPartial ==
  \A c \in (stored \cap Commits) \ partial : Closure(c) \subseteq stored

(* A commit enters the repository by download only after verification.      *)
VerifiedBeforeStoredStep ==
  \A c \in (stored' \ stored) \cap Commits :
    c \in pull'.verified \/ c \in work.localcache \/ work.remoteIsLocal

(* The main loop ends, with the pull done or failed.                        *)
PullTerminates == <>(phase \in {"failed", "done"})

(* "If we're in error state, we wait for any pending operations to          *)
(* complete": when the pull returns an error, nothing is under way.         *)
ErrorWaitsForOutstanding == phase = "failed" => pull.flight = {} /\ pull.writes = {}

(* The counters on which the loop ends are exact and within their limits,  *)
(* so nothing is pending when it ends; what it has stored was verified     *)
(* first, and is complete or marked.                                       *)
PullSoundStep ==
  /\ CountersMatchRequests'
  /\ FetchLimits'
  /\ NothingPendingAtExit'
  /\ CompleteUnlessPartial'
  /\ VerifiedBeforeStoredStep
=============================================================================

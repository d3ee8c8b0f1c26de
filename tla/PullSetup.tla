------------------------------ MODULE PullSetup ------------------------------
(***************************************************************************)
(* The part of ostree_repo_pull_with_options around its fetch loop, and    *)
(* ostree_repo_remote_fetch_summary_with_options: options and remote       *)
(* configuration, the summary and its signature with their on-disk cache,  *)
(* the resolution of the refs, and the end of the pull (mirrored summary,  *)
(* transaction).  The fetch loop itself is module PullEngine.              *)
(*                                                                         *)
(* A summary, a signature and the commit a ref points to are all named by  *)
(* the version of the remote repository they belong to; the signature of   *)
(* version v verifies exactly the summary of version v.  Pullers are       *)
(* processes that share the repository and its cache directory without a   *)
(* lock.  The HTTP server is external: it publishes refs, then a summary,  *)
(* then its signature, and answers conditional requests by their ETag.     *)
(***************************************************************************)
EXTENDS Integers, FiniteSets

CONSTANTS Pullers,     \* processes that pull from the remote
          Setups,      \* what they may be asked to do: option records
          MaxVersion,  \* how often the remote repository is updated, at most
          MaxPulls,    \* how many operations a process starts, at most
          None

VARIABLES server,     \* [head, sum, sig]: versions the server offers
          cache,      \* cache dir: [sum, sig], each None or [data, etag]
          mirrored,   \* summary and summary.sig of the local repository
          refs,       \* the version the local refs of the remote are at
          puller      \* what every process is doing

setupVars == <<server, cache, mirrored, refs, puller>>

Idle == [pc |-> "idle", opts |-> None, gpg |-> FALSE, verifiers |-> {}, deltas |-> FALSE,
         sig |-> None, sum |-> None, sumTag |-> None, sigTag |-> None, fromCache |-> FALSE,
         asked |-> None, want |-> None, runs |-> 0]

SetupInit ==
  /\ server \in {[head |-> 1, sum |-> 1, sig |-> 1], [head |-> 1, sum |-> None, sig |-> None]}
  /\ cache = [sum |-> None, sig |-> None]
  /\ mirrored = [sum |-> None, sig |-> None]
  /\ refs = 0
  /\ puller = [p \in Pullers |-> Idle]

-----------------------------------------------------------------------------
(* The remote: updates of the repository are published file by file.       *)

PublishRefs == /\ server.head < MaxVersion
               /\ server.sum \in {None, server.head} /\ server.sig = server.sum
               /\ server' = [server EXCEPT !.head = @ + 1]
               /\ UNCHANGED <<cache, mirrored, refs, puller>>

PublishSummary == /\ server.sum # None /\ server.sum < server.head
                  /\ server' = [server EXCEPT !.sum = server.head]
                  /\ UNCHANGED <<cache, mirrored, refs, puller>>

PublishSignature == /\ server.sig # None /\ server.sig < server.sum
                    /\ server' = [server EXCEPT !.sig = server.sum]
                    /\ UNCHANGED <<cache, mirrored, refs, puller>>

-----------------------------------------------------------------------------
(* Verification of a summary.                                              *)

\* ostree_repo_verify_summary + require_valid_signature.
GpgVerifies(sum, sig) == sum # None /\ sum = sig

\* A key file or an inline key is configured for the type, and loads.
_signapi_load_public_keys(o, t) == t \in o.keys

\* The signature types in use; "error" when a listed type has no key.
verifiers_from_config(o) ==
  CASE o.signCfg = None     -> {}
    [] o.signCfg = "truthy" -> {t \in o.signTypes : _signapi_load_public_keys(o, t)}
    [] o.signCfg = "list"   -> IF \A t \in o.signTypes : _signapi_load_public_keys(o, t)
                               THEN o.signTypes ELSE {"error"}

\* _sign_verify_for_remote: one valid signature of one configured type.
_sign_verify_for_remote(p, sum, sig) ==
  \E t \in puller[p].verifiers : t \in puller[p].opts.signedWith /\ GpgVerifies(sum, sig)

Step(p, r) == /\ puller' = [puller EXCEPT ![p] = r]
Local(p, r) == Step(p, r) /\ UNCHANGED <<server, cache, mirrored, refs>>
Fail(p) == Local(p, [Idle EXCEPT !.runs = puller[p].runs])

-----------------------------------------------------------------------------
(* Options and remote configuration, up to the decision whether the        *)
(* summary is needed.                                                      *)

Start(p) ==
  /\ puller[p].pc = "idle" /\ puller[p].runs < MaxPulls
  /\ \E o \in Setups : Local(p, [Idle EXCEPT !.pc = "setup", !.opts = o, !.runs = puller[p].runs + 1,
                                             !.asked = server.sig])

\* The remote settings apply unless the caller set the option; a repository
\* given by path verifies only what the caller asks for.
GpgVerifySummary(o) == IF o.gpgOpt # None THEN o.gpgOpt ELSE ~o.isFile /\ o.gpgCfg

\* Static deltas are off for local remotes (unless required), for archive
\* repositories and for pulls of commit metadata only.
StaticDeltas(o) == ~o.disableDeltas /\ (o.isFile => o.requireDeltas) /\ ~o.archive /\ ~o.commitOnly

\* All refs of the remote were asked for: they are known only from its summary.
RequireSummaryForMirror(o) == o.mirror /\ ~o.refsGiven /\ ~o.branches

NeedSummary(o) == \/ RequireSummaryForMirror(o)
                  \/ ~o.commitsGiven
                  \/ o.optBytes # None
                  \/ StaticDeltas(o) /\ ~o.indexedDeltas

SetupFails(o) == \/ o.isFile /\ o.gpgOpt = TRUE /\ ~o.remoteNamed
                 \/ o.archive /\ o.requireDeltas
                 \/ ~o.mirror /\ ~o.refsGiven /\ ~o.branches
                 \/ verifiers_from_config(o) = {"error"} /\ ~(o.noSign /\ o.noSignSummary)

SetUp(p) ==
  LET o == puller[p].opts
      r == [puller[p] EXCEPT !.gpg = GpgVerifySummary(o),
                             !.verifiers = IF (o.isFile /\ ~o.remoteNamed) \/ (o.noSign /\ o.noSignSummary)
                                           THEN {} ELSE verifiers_from_config(o),
                             !.deltas = StaticDeltas(o)]
  IN /\ puller[p].pc = "setup" /\ o.op = "pull"
     /\ \/ SetupFails(o) /\ Fail(p)
        \/ /\ ~SetupFails(o)
           /\ Local(p, [r EXCEPT !.pc = IF ~NeedSummary(o) THEN "resolve"
                                        ELSE IF o.optBytes # None THEN "verify" ELSE "sig",
                                 !.sig = o.optBytes, !.sum = o.optBytes])

\* ostree_repo_remote_fetch_summary_with_options has the remote's settings only.
SetUpFetch(p) ==
  LET o == puller[p].opts
  IN /\ puller[p].pc = "setup" /\ o.op = "fetch"
     /\ IF verifiers_from_config(o) = {"error"} THEN Fail(p)
        ELSE Local(p, [puller[p] EXCEPT !.pc = "sig", !.gpg = o.gpgCfg, !.verifiers = verifiers_from_config(o)])

-----------------------------------------------------------------------------
(* The summary and its signature: the network, then the cache.             *)

Etag(file) == IF file = None THEN None ELSE file.etag
Data(file) == IF file = None THEN None ELSE file.data

\* summary.sig, with the ETag of the cached one; "304" loads from the cache.
FetchSignature(p) ==
  /\ puller[p].pc = "sig"
  /\ \/ Fail(p)
     \/ IF server.sig # None /\ Etag(cache.sig) = server.sig
        THEN Local(p, [puller[p] EXCEPT !.pc = "cachedsig", !.sigTag = server.sig])
        ELSE Local(p, [puller[p] EXCEPT !.pc = IF server.sig # None /\ ~puller[p].opts.isFile
                                               THEN "samesig" ELSE "sum",
                                        !.sig = server.sig, !.sigTag = server.sig])

LoadCachedSignature(p) ==
  /\ puller[p].pc = "cachedsig"
  /\ Local(p, [puller[p] EXCEPT !.sig = Data(cache.sig),
                                !.pc = IF puller[p].opts.isFile THEN "sum" ELSE "cachedsum"])

LoadCachedSummary(p) ==
  /\ puller[p].pc = "cachedsum"
  /\ Local(p, [puller[p] EXCEPT !.sum = Data(cache.sum), !.fromCache = Data(cache.sum) # None,
                                !.pc = IF Data(cache.sum) # None THEN "verify"
                                       ELSE IF puller[p].sig # None THEN "samesig" ELSE "sum"])

\* Any cached signature will do.
MutSameSig(p) ==
  /\ puller[p].pc = "samesig"
  /\ Local(p, IF cache.sig # None /\ cache.sum # None
              THEN [puller[p] EXCEPT !.sum = Data(cache.sum), !.fromCache = TRUE, !.pc = "verify"]
              ELSE [puller[p] EXCEPT !.pc = "sum"])

\* A cached signature without its summary is removed.
_ostree_repo_load_cache_summary_if_same_sig(p) ==
  LET same == Data(cache.sig) = puller[p].sig
  IN /\ puller[p].pc = "samesig"
     /\ cache' = IF same /\ cache.sum = None THEN [cache EXCEPT !.sig = None] ELSE cache
     /\ Step(p, IF same /\ cache.sum # None
                THEN [puller[p] EXCEPT !.sum = Data(cache.sum), !.fromCache = TRUE, !.pc = "verify"]
                ELSE [puller[p] EXCEPT !.pc = "sum"])
     /\ UNCHANGED <<server, mirrored, refs>>

FetchSummary(p) ==
  /\ puller[p].pc = "sum"
  /\ \/ Fail(p)
     \/ IF server.sum # None /\ Etag(cache.sum) = server.sum
        THEN Local(p, [puller[p] EXCEPT !.pc = "notmodified", !.sumTag = server.sum])
        ELSE Local(p, [puller[p] EXCEPT !.pc = "verify", !.sum = server.sum, !.sumTag = server.sum])

\* This summary does not count as one from the cache: the server vouched for it.
LoadUnmodifiedSummary(p) ==
  /\ puller[p].pc = "notmodified"
  /\ Local(p, [puller[p] EXCEPT !.pc = "verify", !.sum = Data(cache.sum)])

\* Verify: what has to be there, then GPG, then signapi; a pull replaces a
\* cached summary that does not verify by a fresh one, a plain summary fetch
\* reports the error.
Missing(p) ==
  LET r == puller[p]
  IN \/ (r.sum = None \/ r.sig = None) /\ r.gpg
     \/ r.sum = None /\ r.opts.op = "pull" /\ RequireSummaryForMirror(r.opts)
     \/ r.sig = None /\ r.verifiers # {}
     \/ r.sum = None /\ r.verifiers # {} /\ r.opts.op = "fetch"

Verifies(p, sum) ==
  /\ puller[p].gpg => GpgVerifies(sum, puller[p].sig)
  /\ puller[p].verifiers # {} /\ sum # None => _sign_verify_for_remote(p, sum, puller[p].sig)

Verify(p) ==
  /\ puller[p].pc = "verify"
  /\ \/ Missing(p) /\ Fail(p)
     \/ /\ ~Missing(p)
        /\ IF Verifies(p, puller[p].sum)
           THEN Local(p, [puller[p] EXCEPT !.pc = "store"])
           ELSE IF puller[p].fromCache /\ puller[p].opts.op = "pull"
           THEN Local(p, [puller[p] EXCEPT !.pc = "refetch"]) ELSE Fail(p)

\* The fresh summary is used as it is.
MutRefetch(p) ==
  /\ puller[p].pc = "refetch"
  /\ Local(p, [puller[p] EXCEPT !.pc = "store", !.sum = server.sum, !.sumTag = server.sum,
                                !.fromCache = FALSE])

\* Without cache headers; verified again, and no second chance.
Refetch(p) ==
  /\ puller[p].pc = "refetch"
  /\ \/ Fail(p)
     \/ /\ server.sum # None /\ Verifies(p, server.sum)
        /\ Local(p, [puller[p] EXCEPT !.pc = "store", !.sum = server.sum, !.sumTag = server.sum,
                                      !.fromCache = FALSE])

\* _ostree_repo_cache_summary: the summary, then the signature; each file is
\* replaced, and its ETag is set on whatever file then has the name.
CachesSummary(r) == /\ ~r.fromCache /\ r.sum # None /\ r.sig # None
                    /\ r.opts.optBytes = None /\ ~r.opts.isFile

AfterStore(r) == IF r.opts.op = "fetch" THEN "idle" ELSE "resolve"

\* Leaves a file that is already there as it is.
MutStoreCache(p) ==
  LET r == puller[p]
      Put(f, d, next) == /\ cache' = IF cache[f] # None THEN cache ELSE [cache EXCEPT ![f] = [data |-> d, etag |-> None]]
                         /\ Step(p, [r EXCEPT !.pc = next])
                         /\ UNCHANGED <<server, mirrored, refs>>
      store_file_cache_properties(f, tag, next) ==
        /\ cache' = IF cache[f] = None THEN cache ELSE [cache EXCEPT ![f].etag = tag]
        /\ Step(p, [r EXCEPT !.pc = next])
        /\ UNCHANGED <<server, mirrored, refs>>
  IN \/ /\ r.pc = "store" /\ ~CachesSummary(r) /\ Local(p, [r EXCEPT !.pc = AfterStore(r)])
     \/ /\ r.pc = "store" /\ CachesSummary(r) /\ Put("sum", r.sum, "sumprops")
     \/ r.pc = "sumprops" /\ store_file_cache_properties("sum", r.sumTag, "storesig")
     \/ r.pc = "storesig" /\ Put("sig", r.sig, "sigprops")
     \/ r.pc = "sigprops" /\ store_file_cache_properties("sig", r.sigTag, AfterStore(r))

StoreCache(p) ==
  LET r == puller[p]
      Put(f, d, next) == /\ cache' = [cache EXCEPT ![f] = [data |-> d, etag |-> None]]
                         /\ Step(p, [r EXCEPT !.pc = next])
                         /\ UNCHANGED <<server, mirrored, refs>>
      store_file_cache_properties(f, tag, next) ==
        /\ cache' = IF cache[f] = None THEN cache ELSE [cache EXCEPT ![f].etag = tag]
        /\ Step(p, [r EXCEPT !.pc = next])
        /\ UNCHANGED <<server, mirrored, refs>>
  IN \/ /\ r.pc = "store" /\ ~CachesSummary(r) /\ Local(p, [r EXCEPT !.pc = AfterStore(r)])
     \/ /\ r.pc = "store" /\ CachesSummary(r) /\ Put("sum", r.sum, "sumprops")
     \/ r.pc = "sumprops" /\ store_file_cache_properties("sum", r.sumTag, "storesig")
     \/ r.pc = "storesig" /\ Put("sig", r.sig, "sigprops")
     \/ r.pc = "sigprops" /\ store_file_cache_properties("sig", r.sigTag, AfterStore(r))

-----------------------------------------------------------------------------
(* Refs, transaction and the end of the pull.                              *)

\* Every ref to an override, to what the summary says, or to the content of
\* the ref file on the server.
ResolveRefs(p) ==
  LET o == puller[p].opts
      v == IF o.commitsGiven THEN 1 ELSE IF puller[p].sum # None THEN puller[p].sum ELSE server.head
  IN /\ puller[p].pc = "resolve"
     /\ \/ Fail(p)
        \/ /\ o.requireDeltas => o.indexedDeltas \/ puller[p].sum # None
           /\ Local(p, [puller[p] EXCEPT !.pc = "loop", !.want = v])

\* The fetch loop: module PullEngine.  Failure aborts the transaction.
FetchLoop(p) ==
  /\ puller[p].pc = "loop"
  /\ \/ Fail(p)
     \/ LET o == puller[p].opts IN
        Local(p, [puller[p] EXCEPT
                  !.pc = IF RequireSummaryForMirror(o) /\ puller[p].sum # None THEN "mirrorsum" ELSE "commit"])

MirrorSummary(p) ==
  LET r == puller[p]
  IN \/ /\ r.pc = "mirrorsum"
        /\ mirrored' = [mirrored EXCEPT !.sum = r.sum]
        /\ Step(p, [r EXCEPT !.pc = IF r.sig # None THEN "mirrorsig" ELSE "commit"])
        /\ UNCHANGED <<server, cache, refs>>
     \/ /\ r.pc = "mirrorsig"
        /\ mirrored' = [mirrored EXCEPT !.sig = r.sig]
        /\ Step(p, [r EXCEPT !.pc = "commit"])
        /\ UNCHANGED <<server, cache, refs>>

\* A repository given by path is another remote, with refs of its own.
CommitTransaction(p) ==
  /\ puller[p].pc = "commit"
  /\ \/ Fail(p)
     \/ /\ refs' = IF puller[p].opts.isFile THEN refs ELSE puller[p].want
        /\ Step(p, [Idle EXCEPT !.runs = puller[p].runs])
        /\ UNCHANGED <<server, cache, mirrored>>

\* The process is killed: files already replaced stay, the transaction is lost.
Kill(p) == puller[p].pc # "idle" /\ Fail(p)

SetupStep(p) == \/ Start(p) \/ SetUp(p) \/ SetUpFetch(p) \/ FetchSignature(p) \/ LoadCachedSignature(p)
                \/ LoadCachedSummary(p) \/ _ostree_repo_load_cache_summary_if_same_sig(p)
                \/ FetchSummary(p) \/ LoadUnmodifiedSummary(p) \/ Verify(p) \/ Refetch(p)
                \/ StoreCache(p) \/ ResolveRefs(p) \/ FetchLoop(p) \/ MirrorSummary(p)
                \/ CommitTransaction(p) \/ Kill(p)

SetupFinished == \A p \in Pullers : puller[p].pc = "idle" /\ puller[p].runs = MaxPulls

SetupNext == \/ PublishRefs \/ PublishSummary \/ PublishSignature
             \/ \E p \in Pullers : SetupStep(p)
             \/ SetupFinished /\ UNCHANGED setupVars

-----------------------------------------------------------------------------
\* The states in which the pull already trusts its summary.
Trusting == {"store", "sumprops", "storesig", "sigprops", "resolve", "loop",
             "mirrorsum", "mirrorsig", "commit"}

(* A pull that verifies summaries resolves refs from a summary its         *)
(* signature covers, whether the two came from the network, the cache, the *)
(* options or a second download after the cached one did not verify.       *)
SummaryVerified ==
  \A p \in Pullers : LET r == puller[p] IN
    r.pc \in Trusting /\ (r.gpg \/ (r.verifiers # {} /\ r.sum # None)) /\ NeedSummary(r.opts) =>
      r.sum = r.sig /\ r.sum # None

(* The cache never pins an old version: the summary an operation ends up   *)
(* using is at least as new as the signature the server offered when the   *)
(* operation began.                                                        *)
SummaryCurrent ==
  \A p \in Pullers : LET r == puller[p] IN
    r.pc \in Trusting /\ r.sum # None /\ r.opts.optBytes = None /\ r.asked # None => r.sum >= r.asked

(* A ref moves only forward while the remote's own refs do and no caller   *)
(* names a commit or brings a summary.                                     *)
RefsForwardStep ==
  \A p \in Pullers :
    puller[p].pc = "commit" /\ ~puller[p].opts.commitsGiven /\ puller[p].opts.optBytes = None
      => refs' >= refs

(* Refs move forward, by a summary that its signature covers and that is   *)
(* as new as the server's was.                                             *)
SummarySoundStep ==
  /\ RefsForwardStep
  /\ SummaryVerified'
  /\ SummaryCurrent'
=============================================================================

------------------------------ MODULE Summary -------------------------------
(***************************************************************************)
(* The summary file and its signature (ostree-repo.c, regenerate_metadata):*)
(* `ostree summary -u`, and the regeneration after a ref has changed when  *)
(* core/auto-update-summary is set.                                        *)
(*                                                                         *)
(* Regenerating takes the shared lock only, so processes interleave        *)
(* between its steps, and any of them may die there.  A summary is the refs and deltas that it lists; a   *)
(* signature is the summary that it was made for.  The pages of metadata   *)
(* that do not change, and the modification time, are left out.            *)
(***************************************************************************)
EXTENDS Integers, FiniteSets

CONSTANTS Procs,         \* processes
          AutoUpdate,    \* core/auto-update-summary
          Refs, Revs,    \* refs other than ostree-metadata, and revisions
          RemoteRefs,    \* the refs that are refs of remotes, which have no collection-id
          Deltas,        \* static deltas
          MaxOps, MaxMeta, \* bounds on the operations, on the metadata commits
          None

VARIABLES scoll,  \* the repository has a collection-id
          sref,   \* ref -> revision; "ostree-metadata" -> number of the commit, 0 if there is none
          sdelta, \* the deltas there are
          pub,    \* [summary, sig]: the published files, with two ghosts.  `behind`: who published
                  \* last had been overtaken, or a change of refs ended without publishing; `torn`: a
                  \* summary got no signature of its own, and the other one is still there
          reg,    \* process -> what it does
          sops

summaryVars == <<scoll, sref, sdelta, pub, reg, sops>>

Meta == "ostree-metadata"
Resting == [pc |-> "rest"]
NoFile == <<>>

SummaryInit ==
  /\ scoll \in BOOLEAN
  /\ sref \in {[r \in Refs |-> v] : v \in Revs} /\ sdelta = Deltas
  /\ pub = [summary |-> NoFile, sig |-> NoFile, behind |-> TRUE, torn |-> FALSE]
  /\ reg = [p \in Procs |-> Resting] /\ sops = 0

metaNow == IF Meta \in DOMAIN sref THEN sref[Meta] ELSE 0

At(p, pc) == reg[p].pc = pc
Go(p, pc) == [reg EXCEPT ![p].pc = pc]
Stop(p) == reg' = [reg EXCEPT ![p] = Resting]

\* summary_add_ref_entry: refs of remotes are left out.
summary_add_ref_entry(r) == r \notin RemoteRefs
Entries(f) == [r \in {x \in DOMAIN f : summary_add_ref_entry(x)} |-> f[r]]
Lagging(summary) == summary = NoFile \/ summary.refs # Entries(sref)

\* A process ends on an error, before it has published anything.
GivesUp(p) == Stop(p) /\ pub' = [pub EXCEPT !.behind = @ \/ Lagging(pub.summary)]
Idle(p) == At(p, "rest") /\ sops < MaxOps /\ sops' = sops + 1

\* What a process does once it regenerates.
Regenerating(meta, sign) ==
  [pc |-> IF meta /\ scoll THEN "meta" ELSE IF scoll THEN "deltas" ELSE "refs",
   sign |-> sign, meta |-> 0, refs |-> NoFile, deltas |-> {}, todo |-> {}]

-----------------------------------------------------------------------------
(* What leads to a regeneration.                                           *)

\* ostree_repo_regenerate_metadata for --update, with or without keys.
ostree_builtin_summary(p, sign) ==
  /\ Idle(p) /\ metaNow < MaxMeta
  /\ reg' = [reg EXCEPT ![p] = Regenerating(TRUE, sign)]
  /\ UNCHANGED <<scoll, sref, sdelta, pub>>

\* _ostree_repo_maybe_regenerate_summary, after a ref was written.
_ostree_repo_maybe_regenerate_summary == IF AutoUpdate THEN Regenerating(FALSE, FALSE) ELSE Resting

\* A ref written outside of a transaction: _ostree_repo_write_ref.
_ostree_repo_write_ref(p, r, v) ==
  /\ Idle(p)
  /\ sref' = [sref EXCEPT ![r] = v]
  /\ reg' = [reg EXCEPT ![p] = _ostree_repo_maybe_regenerate_summary]
  /\ UNCHANGED <<scoll, sdelta, pub>>

\* A transaction with a revision for every ref: its commit writes them in some
\* order, and regenerates at the end.
ostree_repo_commit_transaction(p, v) ==
  /\ Idle(p)
  /\ reg' = [reg EXCEPT ![p] = [pc |-> "txn", todo |-> Refs, v |-> v]]
  /\ UNCHANGED <<scoll, sref, sdelta, pub>>

_ostree_repo_update_refs(p, r) ==
  /\ At(p, "txn") /\ r \in reg[p].todo
  /\ sref' = [sref EXCEPT ![r] = reg[p].v]
  /\ reg' = [reg EXCEPT ![p].todo = @ \ {r}]
  /\ UNCHANGED <<scoll, sdelta, pub, sops>>

\* The end of a transaction leaves the summary alone.
MutEndTxn(p) ==
  /\ At(p, "txn") /\ reg[p].todo = {}
  /\ reg' = [reg EXCEPT ![p] = Resting]
  /\ UNCHANGED <<scoll, sref, sdelta, pub, sops>>

EndTxn(p) ==
  /\ At(p, "txn") /\ reg[p].todo = {}
  /\ reg' = [reg EXCEPT ![p] = _ostree_repo_maybe_regenerate_summary]
  /\ UNCHANGED <<scoll, sref, sdelta, pub, sops>>

-----------------------------------------------------------------------------
(* regenerate_metadata.                                                    *)

\* The commit of ostree-metadata is written, and its ref set when all is done.
MutWriteMetadata(p) ==
  /\ At(p, "meta")
  /\ reg' = [Go(p, "deltas") EXCEPT ![p].meta = metaNow + 1]
  /\ UNCHANGED <<scoll, sref, sdelta, pub, sops>>

\* A commit of ostree-metadata in a transaction of its own, signed, which does not
\* update the summary: _ostree_repo_transaction_write_repo_metadata.
WriteMetadata(p) ==
  /\ At(p, "meta")
  /\ \/ /\ sref' = [r \in DOMAIN sref \cup {Meta} |-> IF r = Meta THEN metaNow + 1 ELSE sref[r]]
        /\ reg' = [Go(p, "deltas") EXCEPT ![p].meta = metaNow + 1]
        /\ UNCHANGED pub
     \/ GivesUp(p) /\ UNCHANGED sref
  /\ UNCHANGED <<scoll, sdelta, sops>>

\* The refs, of a repository without a collection-id.
ListRefs(p) ==
  /\ At(p, "refs") /\ ~scoll
  /\ reg' = [Go(p, "deltas") EXCEPT ![p].refs = Entries(sref)]
  /\ UNCHANGED <<scoll, sref, sdelta, pub, sops>>

\* The refs that belong to collections, after the deltas.
ListCollectionRefs(p) ==
  /\ At(p, "refs") /\ scoll
  /\ reg' = [Go(p, "write") EXCEPT ![p].refs = Entries(sref)]
  /\ UNCHANGED <<scoll, sref, sdelta, pub, sops>>

\* ostree_repo_list_static_delta_names.
ListDeltas(p) ==
  /\ At(p, "deltas")
  /\ reg' = [Go(p, "digest") EXCEPT ![p].todo = sdelta]
  /\ UNCHANGED <<scoll, sref, sdelta, pub, sops>>

\* _ostree_repo_static_delta_superblock_digest: an error if the delta has gone.
Digest(p, d) ==
  /\ At(p, "digest") /\ d \in reg[p].todo
  /\ IF d \in sdelta THEN reg' = [reg EXCEPT ![p].todo = @ \ {d}, ![p].deltas = @ \cup {d}] /\ UNCHANGED pub
                      ELSE GivesUp(p)
  /\ UNCHANGED <<scoll, sref, sdelta, sops>>

EndDigests(p) ==
  /\ At(p, "digest") /\ reg[p].todo = {}
  /\ reg' = Go(p, IF scoll THEN "refs" ELSE "write")
  /\ UNCHANGED <<scoll, sref, sdelta, pub, sops>>

\* The deltas are indexed, summary and signature made in a directory of their own;
\* any of it may fail.
WriteSummary(p) ==
  /\ At(p, "write")
  /\ \/ reg' = Go(p, "publish") /\ UNCHANGED pub
     \/ GivesUp(p)
  /\ UNCHANGED <<scoll, sref, sdelta, sops>>

Made(p) == [refs |-> reg[p].refs, deltas |-> reg[p].deltas]

\* The first rename.
Publish(p) ==
  /\ At(p, "publish")
  /\ pub' = [pub EXCEPT !.summary = Made(p), !.behind = Lagging(Made(p))]
  /\ reg' = Go(p, "sig")
  /\ UNCHANGED <<scoll, sref, sdelta, sops>>

\* A summary without keys leaves the signature of the one before.
MutPublishSig(p) ==
  /\ At(p, "sig")
  /\ pub' = [pub EXCEPT !.sig = IF reg[p].sign THEN Made(p) ELSE @, !.torn = reg[p].sign /\ pub.summary # Made(p)]
  /\ Stop(p)
  /\ UNCHANGED <<scoll, sref, sdelta, sops>>

\* The second rename, or the removal of a signature of something else: when there is
\* no new one, and when the rename fails.  The removal may fail too.
PublishSig(p) ==
  /\ At(p, "sig")
  /\ \/ reg[p].sign /\ pub' = [pub EXCEPT !.sig = Made(p), !.torn = pub.summary # Made(p)]
     \/ pub' = [pub EXCEPT !.sig = NoFile, !.torn = FALSE]
     \/ pub' = [pub EXCEPT !.torn = TRUE]
  /\ Stop(p)
  /\ UNCHANGED <<scoll, sref, sdelta, sops>>

\* A process dies, in a transaction or while it regenerates.
Dies(p) ==
  /\ ~At(p, "rest") /\ Stop(p)
  /\ pub' = [pub EXCEPT !.behind = @ \/ Lagging(pub.summary),
                        !.torn = @ \/ (At(p, "sig") /\ pub.summary = Made(p))]
  /\ UNCHANGED <<scoll, sref, sdelta, sops>>

\* Another process makes a delta, which is there once its superblock is, or deletes
\* one.  DeltaStore has their steps.
ostree_repo_static_delta_generate(d) ==
  /\ d \notin sdelta /\ sops < MaxOps
  /\ sdelta' = sdelta \cup {d} /\ sops' = sops + 1
  /\ UNCHANGED <<scoll, sref, pub, reg>>

_ostree_repo_static_delta_delete(d) ==
  /\ d \in sdelta /\ sops < MaxOps
  /\ sdelta' = sdelta \ {d} /\ sops' = sops + 1
  /\ UNCHANGED <<scoll, sref, pub, reg>>

SummaryNext ==
  \/ \E p \in Procs : \/ \E s \in BOOLEAN : ostree_builtin_summary(p, s)
                      \/ \E r \in Refs, v \in Revs : _ostree_repo_write_ref(p, r, v)
                      \/ \E v \in Revs : ostree_repo_commit_transaction(p, v)
                      \/ \E r \in Refs : _ostree_repo_update_refs(p, r)
                      \/ \E d \in Deltas : Digest(p, d)
                      \/ EndTxn(p) \/ WriteMetadata(p) \/ ListRefs(p) \/ ListCollectionRefs(p) \/ ListDeltas(p) \/ EndDigests(p)
                      \/ WriteSummary(p) \/ Publish(p) \/ PublishSig(p) \/ Dies(p)
  \/ \E d \in Deltas : ostree_repo_static_delta_generate(d) \/ _ostree_repo_static_delta_delete(d)

-----------------------------------------------------------------------------
AllRest == \A p \in Procs : At(p, "rest")

\* When nobody regenerates, a published signature is that of the published summary,
\* unless whoever published it last died or failed before the signature followed, or
\* published its signature over the summary of another (ostree-repo.c 6241-6264).
\* The next regeneration that completes alone repairs it.
SignatureMatches == (AllRest /\ ~pub.torn /\ pub.sig # NoFile) => pub.sig = pub.summary

\* "so that the summary isn't published without a matching signature" (ostree-repo.c
\* 6200-6202), when nobody regenerates.
SignatureAlwaysMatches == (AllRest /\ pub.sig # NoFile) => pub.sig = pub.summary

\* With core/auto-update-summary, when nobody is at work the summary lists the refs as
\* they are, unless the last change ended before its summary was published, or a
\* process that had been overtaken by another published last (ostree-repo.c 6340-6365).
SummaryCurrent == (AutoUpdate /\ AllRest /\ ~pub.behind) => ~Lagging(pub.summary)

\* A summary that `ostree summary -u` publishes in a repository with a collection-id
\* lists the commit of ostree-metadata that it has written, or a later one
\* (ostree-repo.c 5960-6008).
MetadataListed ==
  \A p \in Procs : (reg[p].pc = "sig" /\ reg[p].meta > 0 /\ pub.summary = Made(p))
    => /\ Meta \in DOMAIN pub.summary.refs /\ pub.summary.refs[Meta] >= reg[p].meta

(* A published summary lists the refs as they are when its writer is done, *)
(* with the metadata commit, and its signature is its own.                 *)
SummaryConsistent == SignatureMatches /\ SummaryCurrent /\ MetadataListed
=============================================================================

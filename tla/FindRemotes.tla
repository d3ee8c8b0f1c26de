----------------------------- MODULE FindRemotes -----------------------------
(***************************************************************************)
(* ostree_repo_finder_resolve_all_async, ostree_repo_find_remotes_async    *)
(* and ostree_repo_pull_from_remotes_async: finders are asked in parallel, *)
(* the summaries of the remotes they name decide which remote offers the   *)
(* latest commit of which ref, and the refs are pulled remote by remote.   *)
(*                                                                         *)
(* A search is a record: what each finder answers, what the summary of     *)
(* each remote lists, in order, as [ref, commit, ts, size, map, ours] (map:*)
(* listed in the collection map; ours: its collection is the one of the    *)
(* remote a dynamic remote inherits from), and so on.  Timestamp 0 means   *)
(* unknown.  An array element cleared to NULL is None.                     *)
(***************************************************************************)
EXTENDS Integers, Sequences, FiniteSets, SequencesExt

CONSTANTS Searches,     \* the searches to explore
          Refs,         \* collection-refs that can be asked for
          CommitTime,   \* the timestamp in each commit
          None

VARIABLES search,       \* the search under way
          find,         \* FindRemotesData and the locals of find_remotes_cb
          registry,     \* the remotes the repository object knows
          transfer      \* the locals of ostree_repo_pull_from_remotes_async

findVars == <<search, find, registry, transfer>>

Commits == DOMAIN CommitTime

FindInit ==
  /\ search \in Searches
  /\ find = [pc |-> "resolve", pending |-> DOMAIN search.answers, results |-> <<>>, i |-> 1,
             table |-> [x \in {} |-> None], meta |-> [c \in {} |-> 0], sizes |-> [c \in {} |-> 0],
             added |-> {}, latest |-> [r \in Refs |-> None], dropped |-> FALSE,
             error |-> FALSE, final |-> <<>>]
  /\ registry = search.configured
  /\ transfer = [pc |-> "none", i |-> 1, pulled |-> [r \in {} |-> FALSE], inTxn |-> FALSE, from |-> {}]

-----------------------------------------------------------------------------
(* Results, and the order of two of them.                                  *)

\* [remote, sums: the ref_to_checksum map, mod: summary_last_modified]
NRefs(res) == Cardinality({r \in DOMAIN res.sums : res.sums[r] # None})

\* ostree_repo_finder_result_compare: a is ordered before b.
Before(a, b) ==
  LET pa == search.priority[a.remote]  pb == search.priority[b.remote]
  IN IF pa # pb THEN pa < pb
     ELSE IF a.mod # 0 /\ b.mod # 0 /\ a.mod # b.mod THEN a.mod < b.mod
     ELSE IF NRefs(a) # NRefs(b) THEN NRefs(a) < NRefs(b)
     ELSE search.name[a.remote] < search.name[b.remote]

Sorted(results) == SortSeq(results, Before)

-----------------------------------------------------------------------------
(* Resolving: every finder answers once, in any order.                     *)

\* resolve_all_cb, array_concatenate_steal, resolve_all_finished_one.  A finder
\* that fails contributes nothing.
resolve_all_cb(f) ==
  LET more(s) == find.results \o [k \in DOMAIN s |->
                   [remote |-> s[k], sums |-> [r \in Refs |-> "listed"], mod |-> 0]]
      left == find.pending \ {f}
  IN /\ find.pc = "resolve" /\ f \in find.pending
     /\ \E answer \in {search.answers[f], <<>>} :
          find' = [find EXCEPT !.pending = left,
                               !.results = IF left = {} THEN Sorted(more(answer)) ELSE more(answer),
                               !.pc = IF left # {} THEN "resolve"
                                      ELSE IF more(answer) = <<>> THEN "done" ELSE "summaries"]
     /\ UNCHANGED <<search, registry, transfer>>

-----------------------------------------------------------------------------
(* find_remotes_cb: the summary of each result in turn.                    *)

\* One line of a summary: find_remotes_process_refs.  The state carries the
\* table, the commit metadata and whether the result is still valid.
ProcessRef(st, e, i) ==
  LET known == IF e.commit \in DOMAIN st.meta THEN st.meta[e.commit]
               ELSE IF e.commit \in search.stored THEN CommitTime[e.commit] ELSE 0
      size == IF e.commit \in DOMAIN st.sizes THEN st.sizes[e.commit] ELSE e.size
      meta == [c \in DOMAIN st.meta \cup {e.commit} |->
                 IF c # e.commit THEN st.meta[c] ELSE IF known = 0 THEN e.ts ELSE known]
      sizes == [c \in DOMAIN st.sizes \cup {e.commit} |-> IF c = e.commit THEN size ELSE st.sizes[c]]
      bad == (known # 0 /\ e.ts # 0 /\ e.ts # known) \/ size # e.size
  IN IF ~st.ok \/ e.ref \notin Refs THEN st
     ELSE [ok |-> ~bad, meta |-> meta, sizes |-> sizes,
           table |-> IF bad THEN st.table
                     ELSE [x \in DOMAIN st.table \cup {<<e.ref, i>>} |->
                             IF x = <<e.ref, i>> THEN e.commit ELSE st.table[x]]]

\* Refs of the collection map that belong to another keyring are left out.
Considered(remote) ==
  SelectSeq(search.summary[remote], LAMBDA e : ~e.map \/ e.ours \/ remote \notin search.dynamic)

find_remotes_process_refs(i) ==
  FoldLeft(LAMBDA st, e : ProcessRef(st, e, i),
           [ok |-> TRUE, meta |-> find.meta, sizes |-> find.sizes, table |-> find.table],
           Considered(find.results[i].remote))

\* Leaves the remotes behind on the way out.
MutRemoveAdded == registry' = registry
RemoveAdded == registry' = registry \ find.added

FetchSummaries ==
  LET i == find.i
      res == find.results[i]
      st == find_remotes_process_refs(i)
      added == IF res.remote \in registry THEN find.added ELSE find.added \cup {res.remote}
      step == [find EXCEPT !.added = added, !.i = i + 1,
                           !.pc = IF i = Len(find.results) THEN "metadata" ELSE "summaries"]
  IN /\ find.pc = "summaries"
     /\ \/ \* the download fails, or there is no summary: ignored
           /\ find' = [step EXCEPT !.results[i] = None, !.dropped = TRUE]
           /\ registry' = registry \cup {res.remote}
        \/ \* cancelled
           /\ find' = [find EXCEPT !.pc = "done", !.error = TRUE, !.added = added]
           /\ registry' = (registry \cup {res.remote}) \ added
        \/ \* an invalid summary clears the result, not what it put into the table
           /\ find' = [step EXCEPT !.table = st.table, !.meta = st.meta, !.sizes = st.sizes,
                                   !.dropped = @ \/ ~st.ok,
                                   !.results[i] = IF st.ok THEN [res EXCEPT !.mod = search.mod[res.remote]]
                                                  ELSE None]
           /\ registry' = registry \cup {res.remote}
     /\ UNCHANGED <<search, transfer>>

\* Commits whose timestamp is still unknown are fetched from a remote that
\* lists them; any failure fails the search.
Listing(c) == {i \in DOMAIN find.results :
                 find.results[i] # None /\ \E r \in Refs : <<r, i>> \in DOMAIN find.table /\ find.table[<<r, i>>] = c}

FetchCommitMetadata ==
  /\ find.pc = "metadata"
  /\ LET unknown == {c \in DOMAIN find.meta : find.meta[c] = 0}
     IN IF unknown = {}
        THEN find' = [find EXCEPT !.pc = "combine"] /\ UNCHANGED registry
        ELSE LET c == CHOOSE x \in unknown : TRUE
             IN \/ /\ Listing(c) # {}
                   /\ find' = [find EXCEPT !.meta[c] = CommitTime[c]] /\ UNCHANGED registry
                \/ find' = [find EXCEPT !.pc = "done", !.error = TRUE] /\ RemoveAdded
  /\ UNCHANGED <<search, transfer>>

\* Takes the first remote in priority order that has the ref.
MutLatestCommit(r) ==
  LET rows == {i \in DOMAIN find.results : <<r, i>> \in DOMAIN find.table}
  IN IF rows = {} THEN None
     ELSE find.table[<<r, CHOOSE i \in rows : \A j \in rows : i <= j>>]

\* The first of the most recent commits any row of the table has for the ref.
LatestCommit(r) ==
  LET rows == {i \in DOMAIN find.results : <<r, i>> \in DOMAIN find.table}
      time(i) == find.meta[find.table[<<r, i>>]]
      best == {i \in rows : \A j \in rows : time(j) < time(i) \/ (time(j) = time(i) /\ i <= j)}
  IN IF rows = {} THEN None ELSE find.table[<<r, CHOOSE i \in best : TRUE>>]

Provided(i, latest) ==
  IF search.override # None THEN search.override
  ELSE [r \in Refs |-> IF <<r, i>> \in DOMAIN find.table /\ find.table[<<r, i>>] = latest[r]
                       THEN latest[r] ELSE None]

CombineResults ==
  LET latest == [r \in Refs |-> IF search.override # None THEN None ELSE LatestCommit(r)]
      updated == [i \in DOMAIN find.results |->
                    IF find.results[i] = None THEN None
                    ELSE [find.results[i] EXCEPT !.sums = Provided(i, latest)]]
      kept == SelectSeq(updated, LAMBDA x : x # None /\ (search.override # None \/ NRefs(x) # 0))
  IN /\ find.pc = "combine"
     /\ find' = [find EXCEPT !.pc = "done", !.latest = latest, !.final = Sorted(kept)]
     /\ RemoveAdded
     /\ UNCHANGED <<search, transfer>>

-----------------------------------------------------------------------------
(* ostree_repo_pull_from_remotes_async, on the results of the search.      *)

BeginTransfer ==
  /\ find.pc = "done" /\ ~find.error /\ transfer.pc = "none"
  /\ transfer' = [transfer EXCEPT !.pc = "pull", !.inTxn = TRUE]
  /\ UNCHANGED <<search, find, registry>>

\* Every remote that offers the ref pulls it.
MutRefsToPull(res) == {r \in DOMAIN res.sums : res.sums[r] # None}

RefsToPull(res) ==
  {r \in DOMAIN res.sums : res.sums[r] # None /\ (r \notin DOMAIN transfer.pulled \/ ~transfer.pulled[r])}

\* One result: ostree_repo_pull_with_options of the refs not pulled yet, with
\* the remote registered for the time of the pull.
PullFromRemote ==
  LET res == find.final[transfer.i]
      todo == RefsToPull(res)
      Mark(ok) == [r \in DOMAIN transfer.pulled \cup todo |-> IF r \in todo THEN ok ELSE transfer.pulled[r]]
  IN /\ transfer.pc = "pull" /\ transfer.i <= Len(find.final)
     /\ IF todo = {} THEN transfer' = [transfer EXCEPT !.i = @ + 1]
        ELSE \/ transfer' = [transfer EXCEPT !.i = @ + 1, !.pulled = Mark(TRUE),
                                             !.from = @ \cup {<<r, res.remote, res.sums[r]>> : r \in todo}]
             \/ transfer' = [transfer EXCEPT !.i = @ + 1, !.pulled = Mark(FALSE)]
             \/ transfer' = [transfer EXCEPT !.pc = "cancelled", !.inTxn = FALSE]
     /\ UNCHANGED <<search, find, registry>>

\* The transaction is committed even if refs are missing: what was downloaded
\* stays.  A commit that fails returns at once.
FinishTransfer ==
  /\ transfer.pc = "pull" /\ transfer.i > Len(find.final)
  /\ \/ transfer' = [transfer EXCEPT !.pc = IF \A r \in DOMAIN transfer.pulled : transfer.pulled[r]
                                            THEN "success" ELSE "failed", !.inTxn = FALSE]
     \/ transfer' = [transfer EXCEPT !.pc = "uncommitted"]
  /\ UNCHANGED <<search, find, registry>>

FindFinished == (find.pc = "done" /\ find.error) \/ transfer.pc \notin {"none", "pull"}

FindStep == \/ \E f \in find.pending : resolve_all_cb(f)
            \/ FetchSummaries \/ FetchCommitMetadata \/ CombineResults
            \/ BeginTransfer \/ PullFromRemote \/ FinishTransfer
FindNext == FindStep \/ (FindFinished /\ UNCHANGED findVars)

-----------------------------------------------------------------------------
\* The commits the summaries of the remotes that are still results list for r.
Offered(r) == {find.table[<<r, i>>] : i \in {j \in DOMAIN find.results :
                                               <<r, j>> \in DOMAIN find.table /\ find.results[j] # None}}

(* No result of a search offers a commit of a ref older than one another   *)
(* remote offers, and if no remote was discarded each ref that some remote *)
(* lists is offered by a result.                                           *)
LatestOffered ==
  find.pc = "done" /\ ~find.error /\ search.override = None =>
    /\ \A k \in DOMAIN find.final : \A r \in Refs :
         LET c == find.final[k].sums[r] IN
         c # None => \A d \in Offered(r) : find.meta[d] <= find.meta[c]
    /\ ~find.dropped =>
         \A r \in Refs : Offered(r) # {} => \E k \in DOMAIN find.final : find.final[k].sums[r] # None

(* Remotes registered for the duration of a search are gone again when it  *)
(* ends, on the error paths as well, and configured ones are still there.  *)
RegistryRestored == find.pc = "done" => registry = search.configured

(* A ref is pulled from one remote only, later results being there for    *)
(* what earlier ones failed to deliver, and the operation succeeds only if *)
(* every ref some result offers was pulled.                                *)
TransferExactlyOnce ==
  /\ \A x, y \in transfer.from : x[1] = y[1] => x = y
  /\ transfer.pc = "success" =>
       \A k \in DOMAIN find.final : \A r \in DOMAIN find.final[k].sums :
         find.final[k].sums[r] # None => \E x \in transfer.from : x[1] = r

(* "The returned results will be sorted with the most useful first - this  *)
(* is typically the remote which claims to provide the most of @refs":     *)
(* among results of one priority and no known age, more refs come first.   *)
MostUsefulFirst ==
  \A j, k \in DOMAIN find.final :
    LET a == find.final[j]  b == find.final[k] IN
    j < k /\ search.priority[a.remote] = search.priority[b.remote] /\ a.mod = 0 /\ b.mod = 0
      => NRefs(a) >= NRefs(b)

(* A search offers the latest commits, each ref is pulled once, and no     *)
(* temporary remote stays.                                                 *)
FindSound ==
  /\ LatestOffered
  /\ TransferExactlyOnce
  /\ RegistryRestored
=============================================================================

----------------------------- MODULE DeltaApply -----------------------------
(***************************************************************************)
(* Applying a static delta: ostree-repo-static-delta-processing.c, and     *)
(* ostree_repo_static_delta_execute_offline of -core.c.  The delta is the  *)
(* one that DeltaCompile made.                                             *)
(*                                                                         *)
(* A pull runs each part in a thread of its own, in any order; offline the *)
(* parts run one after the other.  An object is named by its content and   *)
(* mode, so a name stands for what the checksum of an object would show.   *)
(***************************************************************************)
EXTENDS DeltaCompile

CONSTANTS Targets(_)  \* the repositories that a delta is applied to: see ApplyInit

VARIABLES tgt,  \* the repository: [bare, how, skip, pc, has]
          exe   \* part -> the state of its execution

applyVars == <<job, plan, bld, tgt, exe>>

Unset == "-"
NotStarted == [pc |-> "wait", pos |-> 1, index |-> 0, opened |-> FALSE, have |-> FALSE, out |-> <<>>,
               init |-> FALSE, src |-> Unset, size |-> 0, mode |-> Unset, xattrs |-> Unset]

\* A target holds the old commit whole, but for the objects it is `missing`.
ApplyInit ==
  /\ CompileInit
  /\ \E t \in Targets(job) : tgt = [bare |-> t.bare, how |-> t.how, skip |-> t.skip, pc |-> "idle",
                               has |-> (job.from \ t.missing) \cup (job.to \cap t.extra)]
  /\ exe = <<>>

-----------------------------------------------------------------------------
(* Starting.                                                               *)

Part(i) == bld.parts[i]
\* _ostree_repo_static_delta_part_have_all_objects
HaveAll(i) == ToSet(Part(i).objs) \subseteq tgt.has

\* The old commit must be there.  The commit that the superblock carries is written
\* first; then the parts are set up.  A delta with fallback objects is refused, but
\* after that commit was written.
ostree_repo_static_delta_execute_offline_with_signature ==
  /\ bld.pc = "made" /\ tgt.pc = "idle" /\ tgt.how = "offline"
  /\ tgt' = IF job.from # {} /\ job.fromCommit \notin tgt.has THEN [tgt EXCEPT !.pc = "refused"]
             ELSE [tgt EXCEPT !.has = @ \cup {job.commit}, !.pc = IF bld.fallback # {} THEN "refused" ELSE "run"]
  /\ exe' = [i \in DOMAIN bld.parts |-> NotStarted]
  /\ UNCHANGED compileVars

\* The same in a pull: fallback objects are fetched one by one.
StartPull ==
  /\ bld.pc = "made" /\ tgt.pc = "idle" /\ tgt.how = "pull"
  /\ tgt' = [tgt EXCEPT !.has = @ \cup {job.commit} \cup bld.fallback, !.pc = "run"]
  /\ exe' = [i \in DOMAIN bld.parts |-> NotStarted]
  /\ UNCHANGED compileVars

\* A part whose objects are all there is skipped; offline, a part waits for the one
\* before it.
StartPart(i) ==
  /\ tgt.pc = "run" /\ exe[i].pc = "wait"
  /\ tgt.how = "offline" => \A j \in 1..(i - 1) : exe[j].pc = "done"
  /\ exe' = [exe EXCEPT ![i].pc = IF HaveAll(i) THEN "done" ELSE "run"]
  /\ UNCHANGED <<job, plan, bld, tgt>>

-----------------------------------------------------------------------------
(* The operations of a part.                                               *)

Code(i) == Part(i).ops[exe[i].pos]

\* The n operands of the current operation, and the position after them.
Operands(i, n) ==
  LET step(a, k) == LET r == _ostree_read_varuint64(Part(i).ops, a.pos)
                    IN [vals |-> Append(a.vals, r.value), pos |-> r.next]
  IN FoldLeft(step, [vals |-> <<>>, pos |-> exe[i].pos + 1], [k \in 1..n |-> k])

validate_ofs(i, ofs, len) == ofs + len <= Len(Part(i).payload)
Cells(i, ofs, len) == SubSeq(Part(i).payload, ofs + 1, ofs + len)

\* skip_validation is handed on as stats_only: nothing is written.
StatsOnly == tgt.skip

Ready(i, code) == tgt.pc = "run" /\ exe[i].pc = "run" /\ exe[i].pos <= Len(Part(i).ops) /\ Code(i) = code
Fail(i) == exe' = [exe EXCEPT ![i].pc = "error"] /\ UNCHANGED tgt
To(i, st) == exe' = [exe EXCEPT ![i] = st]

\* open_output_target: the object of the part that is built next.
Target(i) == Part(i).objs[exe[i].index + 1]

\* do_content_open_generic: mode and xattrs from the tables.
do_content_open_generic(i, st, m, x) == [st EXCEPT !.mode = Part(i).modes[m + 1], !.xattrs = Part(i).xattrs[x + 1]]

\* What the checksum of a written object shows: its cells, its mode and xattrs.
Right(o, cells, st) ==
  Obj[o].data = cells /\ (IsMeta(o) \/ (Obj[o].mode = st.mode /\ Obj[o].xattrs = st.xattrs))

\* The end of an object: the next one is built from now on.
Closed(st) == [st EXCEPT !.index = @ + 1, !.opened = FALSE, !.init = FALSE, !.out = <<>>, !.src = Unset,
                         !.mode = Unset, !.xattrs = Unset]

\* A metadata object, or a content object that needs no old one.
dispatch_open_splice_and_close(i) ==
  /\ Ready(i, OpOpenSplice)
  /\ LET o == Target(i)
         a == Operands(i, IF IsMeta(o) THEN 2 ELSE 4)
         len == a.vals[IF IsMeta(o) THEN 1 ELSE 3]
         ofs == a.vals[IF IsMeta(o) THEN 2 ELSE 4]
         st == [exe[i] EXCEPT !.pos = a.pos]
         full == IF IsMeta(o) THEN st ELSE do_content_open_generic(i, st, a.vals[1], a.vals[2])
     IN IF ~validate_ofs(i, ofs, len) THEN Fail(i) ELSE
        \/ StatsOnly /\ To(i, Closed(st)) /\ UNCHANGED tgt
        \/ /\ ~StatsOnly
           /\ IF o \in tgt.has \/ Right(o, Cells(i, ofs, len), full)
              THEN To(i, Closed(full)) /\ tgt' = [tgt EXCEPT !.has = @ \cup {o}]
              ELSE Fail(i)
  /\ UNCHANGED compileVars

\* Only for bare repositories: for any other the process ends here.
dispatch_open(i) ==
  /\ Ready(i, OpOpen)
  /\ LET a == Operands(i, 3)
         st == do_content_open_generic(i, [exe[i] EXCEPT !.pos = a.pos, !.size = a.vals[3], !.opened = TRUE],
                                       a.vals[1], a.vals[2])
     IN \/ /\ ~StatsOnly /\ ~tgt.bare /\ tgt' = [tgt EXCEPT !.pc = "aborted"] /\ UNCHANGED exe
        \/ /\ ~StatsOnly /\ tgt.bare
           /\ To(i, [st EXCEPT !.have = Target(i) \in tgt.has, !.init = Target(i) \notin tgt.has])
           /\ UNCHANGED tgt
        \/ StatsOnly /\ To(i, st) /\ UNCHANGED tgt
  /\ UNCHANGED compileVars

\* Cells of the old object that is read from, or of the payload.
dispatch_write(i) ==
  /\ Ready(i, OpWrite)
  /\ LET a == Operands(i, 2)
         len == a.vals[1]
         ofs == a.vals[2]
         st == [exe[i] EXCEPT !.pos = a.pos]
         src == st.src
     IN \/ (StatsOnly \/ st.have) /\ To(i, st) /\ UNCHANGED tgt
        \/ /\ ~StatsOnly /\ ~st.have /\ src # Unset
           /\ IF ofs + len > Size(src) THEN Fail(i)
              ELSE To(i, [st EXCEPT !.out = @ \o SubSeq(Obj[src].data, ofs + 1, ofs + len)]) /\ UNCHANGED tgt
        \/ /\ ~StatsOnly /\ ~st.have /\ src = Unset
           /\ IF ~validate_ofs(i, ofs, len) THEN Fail(i)
              ELSE To(i, [st EXCEPT !.out = @ \o Cells(i, ofs, len)]) /\ UNCHANGED tgt
  /\ UNCHANGED compileVars

\* The old object is opened, which fails when it is not in the repository.
dispatch_set_read_source(i) ==
  /\ Ready(i, OpSetRead)
  /\ LET a == Operands(i, 1)
         ofs == a.vals[1]
         st == [exe[i] EXCEPT !.pos = a.pos, !.src = Unset]
     IN IF ~validate_ofs(i, ofs, 1) THEN Fail(i) ELSE
        \/ StatsOnly /\ To(i, st) /\ UNCHANGED tgt
        \/ /\ ~StatsOnly
           /\ LET from == Part(i).payload[ofs + 1] IN
              IF from \in tgt.has THEN To(i, [st EXCEPT !.src = from]) /\ UNCHANGED tgt ELSE Fail(i)
  /\ UNCHANGED compileVars

dispatch_unset_read_source(i) ==
  /\ Ready(i, OpUnsetRead)
  /\ To(i, [exe[i] EXCEPT !.pos = @ + 1, !.src = IF StatsOnly THEN @ ELSE Unset])
  /\ UNCHANGED <<job, plan, bld, tgt>>

\* bspatch: the new content, when the patch was made for this old content.
bspatch(old, patch, newsize) ==
  IF SubSeq(patch, 1, Len(old)) = old /\ Len(patch) = Len(old) + newsize
  THEN SubSeq(patch, Len(old) + 1, Len(patch)) ELSE <<"garbled">>

dispatch_bspatch(i) ==
  /\ Ready(i, OpBspatch)
  /\ LET a == Operands(i, 2)
         ofs == a.vals[1]
         len == a.vals[2]
         st == [exe[i] EXCEPT !.pos = a.pos]
     IN IF ~validate_ofs(i, ofs, len) THEN Fail(i) ELSE
        \/ (StatsOnly \/ st.have) /\ To(i, st) /\ UNCHANGED tgt
        \/ /\ ~StatsOnly /\ ~st.have
           /\ IF st.src = Unset THEN Fail(i)
              ELSE /\ To(i, [st EXCEPT !.out = @ \o bspatch(Obj[st.src].data, Cells(i, ofs, len), st.size)])
                   /\ UNCHANGED tgt
  /\ UNCHANGED compileVars

\* What was built is checked against the name it is stored under.
dispatch_close(i) ==
  /\ Ready(i, OpClose)
  /\ LET o == Target(i)
         st == [exe[i] EXCEPT !.pos = @ + 1]
     IN IF ~st.init THEN To(i, Closed(st)) /\ UNCHANGED tgt
        ELSE IF Right(o, st.out, st) THEN To(i, Closed(st)) /\ tgt' = [tgt EXCEPT !.has = @ \cup {o}]
        ELSE Fail(i)
  /\ UNCHANGED compileVars

\* The end of _ostree_static_delta_part_execute.
EndPart(i) ==
  /\ tgt.pc = "run" /\ exe[i].pc = "run" /\ exe[i].pos > Len(Part(i).ops)
  /\ exe' = [exe EXCEPT ![i].pc = "done"]
  /\ UNCHANGED <<job, plan, bld, tgt>>

\* The first part that fails ends the whole: a thread that runs on is left out.
EndApply ==
  /\ tgt.pc = "run"
  /\ \/ /\ \A i \in DOMAIN exe : exe[i].pc = "done"
        /\ tgt' = [tgt EXCEPT !.pc = "applied"]
     \/ /\ \E i \in DOMAIN exe : exe[i].pc = "error"
        /\ tgt' = [tgt EXCEPT !.pc = "failed"]
  /\ UNCHANGED <<job, plan, bld, exe>>

\* _ostree_static_delta_part_execute
PartStep(i) ==
  \/ dispatch_open_splice_and_close(i) \/ dispatch_open(i) \/ dispatch_write(i)
  \/ dispatch_set_read_source(i) \/ dispatch_unset_read_source(i)
  \/ dispatch_bspatch(i) \/ dispatch_close(i) \/ EndPart(i)

ApplyNext ==
  \/ CompileNext /\ UNCHANGED <<tgt, exe>>
  \/ ostree_repo_static_delta_execute_offline_with_signature
  \/ StartPull
  \/ \E i \in DOMAIN exe : StartPart(i) \/ PartStep(i)
  \/ EndApply

-----------------------------------------------------------------------------
(* What the compiler writes, the executor understands: in a repository with *)
(* the objects of the old commit no part fails, whatever is there already  *)
(* of the new one and in whatever order the parts run.  The assertion of   *)
(* dispatch_open ("FIXME - lift this restriction") ends the process only   *)
(* for an archive repository and a delta that builds on an old commit.     *)
NeverFails ==
  job.from \subseteq tgt.has =>
    /\ tgt.pc # "failed"
    /\ tgt.bare \/ job.from = {} => tgt.pc # "aborted"

(* A delta that was applied leaves every object of the new commit in the   *)
(* repository.                                                             *)
AppliedComplete == (tgt.pc = "applied" /\ ~tgt.skip /\ job.from \subseteq tgt.has) => job.to \subseteq tgt.has

(* "Given a directory representing an already-downloaded static delta on   *)
(* disk, apply it, generating a new commit", with skip_validation, "assume *)
(* data integrity".                                                        *)
AppliedUnvalidated == (tgt.pc = "applied" /\ job.from \subseteq tgt.has) => job.to \subseteq tgt.has

(* A delta compiled within the limits of its parts, from the similar files *)
(* there are, runs to its end on a bare repository with the old commit, or *)
(* on any repository when it starts from nothing, and leaves the new one   *)
(* complete.                                                               *)
DeltaSound ==
  /\ NeverFails
  /\ AppliedComplete
  /\ SimilarFound
  /\ PayloadWithinChunk
=============================================================================

-------------------------- MODULE DeltaStoreProofs --------------------------
(***************************************************************************)
(* Proofs about the static deltas on disk, for any processes, deltas and   *)
(* numbers of parts: a delta that has a superblock has its parts unless    *)
(* generators overlapped or a deletion is under way, an execution reads one*)
(* generation, and indexes are never there unadvertised.                   *)
(***************************************************************************)
EXTENDS DeltaStore, TLAPS

\* How a delta may be generated (ot_static_delta_builtin_generate).
StyleConstants == Styles \subseteq [n : Nat, inline : BOOLEAN, sign : SUBSET STRING]

\* The states of the processes, and the fields of the variables.
Generating == [pc : {"parts"}, d : Deltas, gen : Nat, next : Nat, ino : Nat,
               n : Nat, inline : BOOLEAN, sign : SUBSET STRING]
Deleting == [pc : {"rm"}, d : Deltas, ino : Nat]
Pasts == {"overlap", "gone", "deleted", "changed", "failed", "read"}

Shape ==
    /\ DOMAIN dirs = Deltas
    /\ \A d \in Deltas : DOMAIN dirs[d] = {"ino", "parts", "sup"} /\ dirs[d].ino \in Nat
    /\ DOMAIN dproc = Procs
    /\ dclock \in [ops : Nat, gen : Nat, ino : Nat]
    /\ DOMAIN dpast = Pasts
    /\ \A p \in Procs :
          /\ dproc[p].pc \in {"free", "parts", "rm", "index", "read"}
          /\ At(p, "parts") => dproc[p] \in Generating
          /\ At(p, "rm") => dproc[p] \in Deleting
          /\ At(p, "index") => DOMAIN dproc[p] = {"pc", "c", "todo", "froms", "listed"}
          /\ At(p, "read") => DOMAIN dproc[p] = {"pc", "d", "ino", "sup", "next", "got", "check"}

USE DEF At, Begin, Move, EndOp

\* The initial state.
LEMMA InitShape == StoreInit => Shape
BY DEF StoreInit, Shape, NoDir, NoSup, Free, Pasts

\* Every step keeps the shape.
ShapeKept == Shape'

LEMMA NextShape ==
    ASSUME StyleConstants, Shape, [StoreNext]_storeVars
    PROVE  ShapeKept
<1>1. ASSUME NEW p \in Procs, NEW d \in Deltas, NEW style \in Styles, NEW ifnot \in BOOLEAN,
             ot_static_delta_builtin_generate(p, d, style, ifnot)
      PROVE  ShapeKept
  <2> SUFFICES Shape' BY DEF ShapeKept
  <2> QED BY <1>1 DEF Shape, ot_static_delta_builtin_generate, StyleConstants, Generating, NoDir, Pasts
<1>2. ASSUME NEW p \in Procs, LinkPart(p) PROVE ShapeKept
  <2> SUFFICES Shape' BY DEF ShapeKept
  <2> QED BY <1>2 DEF Shape, LinkPart, Generating, Free, Pasts
<1>3. ASSUME NEW p \in Procs, LinkSuperblock(p) PROVE ShapeKept
  <2> SUFFICES Shape' BY DEF ShapeKept
  <2> QED BY <1>3 DEF Shape, LinkSuperblock, Generating, Free, Pasts
<1>4. ASSUME NEW p \in Procs, NEW d \in Deltas, _ostree_repo_static_delta_delete(p, d) PROVE ShapeKept
  <2> SUFFICES Shape' BY DEF ShapeKept
  <2> QED BY <1>4 DEF Shape, _ostree_repo_static_delta_delete, Deleting, Pasts
<1>5. ASSUME NEW p \in Procs, NEW e, RemoveEntry(p, e) PROVE ShapeKept
  <2> SUFFICES Shape' BY DEF ShapeKept
  <2> QED BY <1>5 DEF Shape, RemoveEntry, Deleting, Pasts
<1>6. ASSUME NEW p \in Procs, RemoveDir(p) PROVE ShapeKept
  <2> SUFFICES Shape' BY DEF ShapeKept
  <2>1. dproc[p] \in Deleting /\ dproc' = [dproc EXCEPT ![p] = Free] /\ dclock' = dclock
    BY <1>6 DEF Shape, RemoveDir
  <2>2. \/ UNCHANGED <<dirs, dpast>>
        \/ dirs' = [dirs EXCEPT ![dproc[p].d] = NoDir] /\ DOMAIN dpast' = DOMAIN dpast
    BY <1>6, Zenon DEF RemoveDir
  <2> QED BY <2>1, <2>2 DEF Shape, Deleting, NoDir, Free
<1>7. ASSUME NEW p \in Procs, NEW c, ostree_repo_static_delta_reindex(p, c) PROVE ShapeKept
  <2> SUFFICES Shape' BY DEF ShapeKept
  <2> QED BY <1>7 DEF Shape, ostree_repo_static_delta_reindex, Pasts
<1>8. ASSUME NEW p \in Procs, IndexCommits(p) PROVE ShapeKept
  <2> SUFFICES Shape' BY DEF ShapeKept
  <2>1. At(p, "index") /\ UNCHANGED <<dirs, dclock, dpast>> BY <1>8, Zenon DEF IndexCommits
  <2>2. PICK st : /\ dproc' = [dproc EXCEPT ![p] = st]
                  /\ st.pc = "index" /\ DOMAIN st = DOMAIN dproc[p]
    <3>1. ASSUME NEW x, NEW y PROVE LET r == [dproc[p] EXCEPT !.listed = TRUE, !.todo = x, !.froms = y] IN
                                    r.pc = "index" /\ DOMAIN r = DOMAIN dproc[p]
      BY <2>1 DEF Shape
    <3>2. PICK x, y : dproc' = [dproc EXCEPT ![p] = [dproc[p] EXCEPT !.listed = TRUE, !.todo = x, !.froms = y]]
      BY <1>8, Zenon DEF IndexCommits
    <3> DEFINE st == [dproc[p] EXCEPT !.listed = TRUE, !.todo = x, !.froms = y]
    <3>3. st.pc = "index" /\ DOMAIN st = DOMAIN dproc[p] /\ dproc' = [dproc EXCEPT ![p] = st]
      BY <3>1, <3>2
    <3> QED BY <3>3, Zenon
  <2> QED BY <2>1, <2>2 DEF Shape
<1>9. ASSUME NEW p \in Procs, NEW c, IndexOne(p, c) PROVE ShapeKept
  <2> SUFFICES Shape' BY DEF ShapeKept
  <2> QED BY <1>9 DEF Shape, IndexOne, Free, Pasts
<1>10. ASSUME NEW p \in Procs, EndIndex(p) \/ Crash(p) PROVE ShapeKept
  <2> SUFFICES Shape' BY DEF ShapeKept
  <2> QED BY <1>10 DEF Shape, EndIndex, Crash, Free
<1>11. ASSUME NEW p \in Procs, NEW d \in Deltas, NEW k, NEW mn, OpenSuperblock(p, d, k, mn) PROVE ShapeKept
  <2> SUFFICES Shape' BY DEF ShapeKept
  <2> QED BY <1>11 DEF Shape, OpenSuperblock
<1>12. ASSUME NEW p \in Procs, NEW d \in Deltas, _ostree_repo_static_delta_dump(p, d) PROVE ShapeKept
  <2> SUFFICES Shape' BY DEF ShapeKept
  <2> QED BY <1>12 DEF Shape, _ostree_repo_static_delta_dump
<1>13. ASSUME NEW p \in Procs, ReadPart(p) PROVE ShapeKept
  <2> SUFFICES Shape' BY DEF ShapeKept
  <2>1. At(p, "read") /\ UNCHANGED <<dirs, dclock, dpast>> BY <1>13, Zenon DEF ReadPart
  <2>2. PICK st : /\ dproc' = [dproc EXCEPT ![p] = st]
                  /\ st = Free \/ (st.pc = "read" /\ DOMAIN st = DOMAIN dproc[p])
    <3>1. ASSUME NEW x PROVE LET r == [dproc[p] EXCEPT !.next = @ + 1, !.got = @ \cup {x}] IN
                             r.pc = "read" /\ DOMAIN r = DOMAIN dproc[p]
      BY <2>1 DEF Shape
    <3> QED BY <1>13, <3>1, Zenon DEF ReadPart
  <2> QED BY <2>1, <2>2 DEF Shape, Free
<1>14. ASSUME NEW p \in Procs, EndRead(p) PROVE ShapeKept
  <2> SUFFICES Shape' BY DEF ShapeKept
  <2> QED BY <1>14 DEF Shape, EndRead, Free, Pasts
<1>15. CASE UNCHANGED storeVars
  <2> SUFFICES Shape' BY DEF ShapeKept
  <2> QED BY <1>15 DEF Shape, storeVars
<1> QED
  BY <1>1, <1>2, <1>3, <1>4, <1>5, <1>6, <1>7, <1>8, <1>9, <1>10, <1>11, <1>12, <1>13, <1>14, <1>15
     DEF StoreNext

-----------------------------------------------------------------------------
(* Generating and deleting *)

\* Inode numbers are handed out in order, and a process that generates or
\* deletes has one.
Inodes ==
    /\ \A d \in Deltas : dirs[d].ino <= dclock.ino /\ (dirs[d].ino = 0 => dirs[d].sup.gen = 0)
    /\ \A p \in Procs : dproc[p].pc \in {"parts", "rm"} => 0 < dproc[p].ino /\ dproc[p].ino <= dclock.ino

\* Where no generators overlapped, one that writes into the directory is alone
\* there and finds no superblock.
Alone ==
    \A p \in Procs : At(p, "parts") /\ InDir(p) /\ dproc[p].d \notin dpast.overlap =>
        /\ dirs[dproc[p].d].sup.gen = 0
        /\ \A q \in Procs : At(q, "parts") /\ dproc[q].d = dproc[p].d /\ InDir(q) => q = p

\* What it has linked is there.
Linked ==
    \A p \in Procs :
        At(p, "parts") /\ InDir(p) /\ dproc[p].d \notin dpast.overlap \cup dpast.gone /\ ~dproc[p].inline =>
            \A i \in 0..(dproc[p].next - 1) :
                i \in DOMAIN dirs[dproc[p].d].parts /\ dirs[dproc[p].d].parts[i] = dproc[p].gen

\* A directory that a process removes entries from is known to go.
Going == \A p \in Procs : At(p, "rm") /\ InDir(p) => dproc[p].d \in dpast.gone

Sound == Inodes /\ Alone /\ Linked /\ Going /\ PublishedComplete

\* The inductive invariant of generating and deleting.
GenInv == Shape /\ Sound

LEMMA InitSound == StoreInit => Sound
BY DEF StoreInit, Sound, Inodes, Alone, Linked, Going, PublishedComplete, NoDir, NoSup, Free

\* A step that leaves the deltas alone, and starts no generation or deletion.
LEMMA QuietSound ==
    ASSUME Sound, dirs' = dirs, dclock'.ino = dclock.ino,
           dpast'.overlap = dpast.overlap, dpast'.gone = dpast.gone,
           \A p \in Procs : dproc'[p] = dproc[p] \/ dproc'[p].pc \notin {"parts", "rm"}
    PROVE  Sound'
BY DEF Sound, Inodes, Alone, Linked, Going, PublishedComplete, InDir

\* Generators start next to no other one, or leave their mark in the history.
LEMMA GenerateSound ==
    ASSUME StyleConstants, GenInv, NEW p \in Procs, NEW d \in Deltas, NEW style \in Styles,
           NEW ifnot \in BOOLEAN, ot_static_delta_builtin_generate(p, d, style, ifnot)
    PROVE  Sound'
<1>i. Shape /\ Sound /\ Inodes /\ Alone /\ Linked /\ Going /\ PublishedComplete BY DEF GenInv, Sound
<1> DEFINE fresh == dirs[d].ino = 0
           ino == IF fresh THEN dclock.ino + 1 ELSE dirs[d].ino
<1>1. /\ dproc'[p].pc = "parts" /\ dproc'[p].d = d /\ dproc'[p].ino = ino /\ dproc'[p].next = 0
      /\ \A q \in Procs \ {p} : dproc'[q] = dproc[q]
  BY <1>i DEF ot_static_delta_builtin_generate, Shape
<1>2. /\ \A e \in Deltas \ {d} : dirs'[e] = dirs[e]
      /\ dirs'[d].ino = ino /\ dirs'[d].sup.gen = dirs[d].sup.gen
      /\ ~fresh => dirs'[d] = dirs[d]
  BY <1>i DEF ot_static_delta_builtin_generate, Shape, Inodes, NoDir, NoSup
<1>3. /\ dclock'.ino = IF fresh THEN ino ELSE dclock.ino
      /\ dpast'.gone = dpast.gone
      /\ dpast'.overlap = IF Busy(d) \/ dirs[d].sup.gen # 0 THEN dpast.overlap \cup {d} ELSE dpast.overlap
  BY <1>i DEF ot_static_delta_builtin_generate, Shape, Pasts
<1>4. dclock.ino \in Nat /\ \A e \in Deltas : dirs[e].ino \in Nat BY <1>i DEF Shape
<1>5. \A q \in Procs : dproc[q].pc \in {"parts", "rm"} => dproc[q].ino \in Nat /\ dproc[q].d \in Deltas
  BY <1>i DEF Shape, Generating, Deleting
<1>6. \A q \in Procs \ {p} : /\ At(q, "parts")' = At(q, "parts") /\ At(q, "rm")' = At(q, "rm")
                             /\ dproc[q].pc \in {"parts", "rm"} => (InDir(q)' => InDir(q))
  BY <1>1, <1>2, <1>3, <1>4, <1>5, <1>i DEF InDir, Inodes
<1>7. Inodes' BY <1>1, <1>2, <1>3, <1>4, <1>5, <1>i DEF Inodes
<1>8. d \notin dpast'.overlap => /\ dirs[d].sup.gen = 0
                                /\ \A q \in Procs : dproc[q].pc \in {"parts", "rm"} => dproc[q].d # d
  BY <1>3 DEF Busy
<1>9. dpast.overlap \subseteq dpast'.overlap BY <1>3
<1> HIDE DEF fresh, ino
<1>10. Alone' BY <1>1, <1>2, <1>5, <1>6, <1>8, <1>9, <1>i DEF Alone
<1>11. Linked'
  <2> SUFFICES ASSUME NEW q \in Procs, At(q, "parts")', InDir(q)', ~dproc'[q].inline,
                      dproc'[q].d \notin dpast'.overlap \cup dpast'.gone,
                      NEW i \in 0..(dproc'[q].next - 1)
               PROVE  i \in DOMAIN dirs'[dproc'[q].d].parts
                      /\ dirs'[dproc'[q].d].parts[i] = dproc'[q].gen
    BY <1>i DEF Linked
  <2>1. q # p BY <1>1
  <2>2. dproc'[q] = dproc[q] /\ dproc[q].d \in Deltas \ {d} BY <1>1, <1>5, <1>8, <2>1
  <2> QED BY <1>2, <1>3, <1>6, <1>9, <2>1, <2>2, <1>i DEF Linked
<1>12. Going' BY <1>1, <1>3, <1>6, <1>i DEF Going
<1>13. PublishedComplete' BY <1>2, <1>3, <1>8, <1>9, <1>i DEF PublishedComplete
<1> QED BY <1>7, <1>10, <1>11, <1>12, <1>13 DEF Sound

\* A part is linked next to the others of its generation.
LEMMA LinkPartSound ==
    ASSUME GenInv, NEW p \in Procs, LinkPart(p) PROVE Sound'
<1>i. Shape /\ Sound /\ Inodes /\ Alone /\ Linked /\ Going /\ PublishedComplete BY DEF GenInv, Sound
<1> DEFINE g == dproc[p]
<1>1. g \in Generating BY <1>i DEF LinkPart, Shape
<1>2. CASE InDir(p)
  <2>1. /\ dproc'[p] = [g EXCEPT !.next = @ + 1] /\ dpast' = dpast /\ dclock' = dclock
        /\ \A q \in Procs \ {p} : dproc'[q] = dproc[q]
    BY <1>2, <1>i DEF LinkPart, Shape
  <2>2. dirs' = [dirs EXCEPT ![g.d].parts = [i \in DOMAIN @ \cup {g.next} |-> IF i = g.next THEN g.gen ELSE @[i]]]
    BY <1>2 DEF LinkPart
  <2>3. /\ \A e \in Deltas : dirs'[e].ino = dirs[e].ino /\ dirs'[e].sup = dirs[e].sup
        /\ \A e \in Deltas \ {g.d} : dirs'[e] = dirs[e]
        /\ dirs'[g.d].parts = [i \in DOMAIN dirs[g.d].parts \cup {g.next} |->
                                 IF i = g.next THEN g.gen ELSE dirs[g.d].parts[i]]
    BY <1>1, <2>2, <1>i DEF Shape, Generating
  <2>4. /\ dproc'[p].pc = "parts" /\ dproc'[p].d = g.d /\ dproc'[p].ino = g.ino /\ dproc'[p].gen = g.gen
        /\ dproc'[p].next = g.next + 1 /\ dproc'[p].inline = g.inline
    BY <1>1, <2>1 DEF Generating
  <2>5. \A q \in Procs : dproc[q].pc \in {"parts", "rm"} => dproc[q].d \in Deltas
    BY <1>i DEF Shape, Generating, Deleting
  <2>6. \A q \in Procs : /\ dproc'[q].pc = dproc[q].pc
                         /\ dproc[q].pc \in {"parts", "rm"} =>
                              InDir(q)' = InDir(q) /\ dproc'[q].d = dproc[q].d /\ dproc'[q].ino = dproc[q].ino
    BY <1>1, <2>1, <2>3, <2>4, <2>5 DEF InDir, Generating
  <2>7. g.pc = "parts" /\ g.d \in Deltas /\ g.next \in Nat BY <1>1 DEF Generating
  <2>8. Inodes' BY <2>1, <2>3, <2>6, <1>i DEF Inodes
  <2>9. Alone' BY <2>1, <2>3, <2>5, <2>6, <1>i DEF Alone
  <2>10. Going' BY <2>1, <2>6, <1>i DEF Going
  <2>11. PublishedComplete'
    BY <1>2, <2>1, <2>3, <2>7, <1>i DEF Alone, PublishedComplete
  <2>12. Linked'
    <3> SUFFICES ASSUME NEW q \in Procs, At(q, "parts")', InDir(q)', ~dproc'[q].inline,
                        dproc'[q].d \notin dpast'.overlap \cup dpast'.gone,
                        NEW i \in 0..(dproc'[q].next - 1)
                 PROVE  i \in DOMAIN dirs'[dproc'[q].d].parts
                        /\ dirs'[dproc'[q].d].parts[i] = dproc'[q].gen
      BY <1>i DEF Linked
    <3>1. CASE q = p
      <4>1. i = g.next \/ i \in 0..(g.next - 1) BY <2>4, <2>7, <3>1
      <4>2. i \in 0..(g.next - 1) => i \in DOMAIN dirs[g.d].parts /\ dirs[g.d].parts[i] = g.gen
        BY <1>2, <2>1, <2>4, <2>7, <3>1, <1>i, Zenon DEF Linked
      <4> QED BY <2>3, <2>4, <3>1, <4>1, <4>2
    <3>2. CASE q # p
      <4>1. dproc'[q] = dproc[q] /\ InDir(q) /\ At(q, "parts") BY <2>1, <2>6, <3>2
      <4>2. dproc[q].d # g.d BY <1>2, <2>1, <2>7, <3>2, <4>1, <1>i DEF Alone
      <4>3. dirs'[dproc[q].d] = dirs[dproc[q].d] BY <2>3, <2>5, <4>1, <4>2
      <4> QED BY <2>1, <4>1, <4>3, <1>i DEF Linked
    <3> QED BY <3>1, <3>2
  <2> QED BY <2>8, <2>9, <2>10, <2>11, <2>12 DEF Sound
<1>3. CASE ~InDir(p)
  <2>1. /\ dirs' = dirs /\ dclock' = dclock /\ dproc' = [dproc EXCEPT ![p] = Free]
        /\ dpast'.overlap = dpast.overlap /\ dpast'.gone = dpast.gone
    BY <1>3, <1>i DEF LinkPart, Shape, Pasts
  <2> QED BY <2>1, QuietSound, <1>i DEF Shape, Free
<1> QED BY <1>2, <1>3

\* The superblock comes when all the parts are linked.
LEMMA LinkSuperblockSound ==
    ASSUME GenInv, NEW p \in Procs, LinkSuperblock(p) PROVE Sound'
<1>i. Shape /\ Sound /\ Inodes /\ Alone /\ Linked /\ Going /\ PublishedComplete BY DEF GenInv, Sound
<1> DEFINE g == dproc[p]
<1>1. g \in Generating BY <1>i DEF LinkSuperblock, Shape
<1>2. g.pc = "parts" /\ g.d \in Deltas /\ (g.inline \/ g.next = g.n) /\ g.ino \in Nat
  BY <1>1 DEF LinkSuperblock, Generating
<1>3. dproc'[p].pc = "free" /\ (\A q \in Procs \ {p} : dproc'[q] = dproc[q]) /\ dclock' = dclock
      /\ dpast'.overlap = dpast.overlap /\ dpast'.gone = dpast.gone
  BY <1>i DEF LinkSuperblock, Shape, Free, Pasts
<1>4. CASE InDir(p)
  <2>1. dirs' = [dirs EXCEPT ![g.d].sup = [gen |-> g.gen, n |-> g.n, inline |-> g.inline, sign |-> g.sign]]
    BY <1>4 DEF LinkSuperblock
  <2>2. /\ \A e \in Deltas : dirs'[e].ino = dirs[e].ino /\ dirs'[e].parts = dirs[e].parts
        /\ \A e \in Deltas \ {g.d} : dirs'[e] = dirs[e]
        /\ dirs'[g.d].sup = [gen |-> g.gen, n |-> g.n, inline |-> g.inline, sign |-> g.sign]
    BY <1>2, <2>1, <1>i DEF Shape
  <2>3. \A q \in Procs : dproc[q].pc \in {"parts", "rm"} => dproc[q].d \in Deltas
    BY <1>i DEF Shape, Generating, Deleting
  <2>4. \A q \in Procs \ {p} : dproc[q].pc \in {"parts", "rm"} => InDir(q)' = InDir(q)
    BY <1>3, <2>2, <2>3 DEF InDir
  <2>5. dirs[g.d].ino # 0 BY <1>2, <1>4, <1>i DEF Inodes, InDir
  <2>6. Inodes' BY <1>3, <2>2, <2>5, <1>i DEF Inodes
  <2>7. Going' BY <1>3, <2>4, <1>i DEF Going
  <2>8. Linked' BY <1>3, <2>2, <2>3, <2>4, <1>i DEF Linked
  <2>9. Alone'
    <3> SUFFICES ASSUME NEW q \in Procs, At(q, "parts")', InDir(q)', dproc'[q].d \notin dpast'.overlap
                 PROVE  /\ dirs'[dproc'[q].d].sup.gen = 0
                        /\ \A s \in Procs : At(s, "parts")' /\ dproc'[s].d = dproc'[q].d /\ InDir(s)' => s = q
      BY <1>i DEF Alone
    <3>1. q # p /\ dproc'[q] = dproc[q] /\ At(q, "parts") /\ InDir(q) BY <1>3, <2>4
    <3>2. dproc[q].d # g.d BY <1>2, <1>3, <1>4, <3>1, <1>i DEF Alone
    <3> QED BY <1>3, <2>2, <2>3, <2>4, <3>1, <3>2, <1>i DEF Alone
  <2>10. PublishedComplete'
    <3>1. g.d \notin dpast.overlap \cup dpast.gone /\ ~g.inline =>
             \A i \in 0..(g.n - 1) : i \in DOMAIN dirs[g.d].parts /\ dirs[g.d].parts[i] = g.gen
      BY <1>2, <1>4, <1>i DEF Linked
    <3> QED BY <1>3, <2>2, <3>1, <1>i DEF PublishedComplete
  <2> QED BY <2>6, <2>7, <2>8, <2>9, <2>10 DEF Sound
<1>5. CASE ~InDir(p)
  <2>1. dirs' = dirs BY <1>5 DEF LinkSuperblock
  <2> QED BY <1>i, <1>3, <2>1, QuietSound
<1> QED BY <1>4, <1>5

\* Deleting: the entries go one by one, the inode with the last step.
LEMMA DeleteSound ==
    ASSUME GenInv, NEW p \in Procs,
           \/ \E d \in Deltas : _ostree_repo_static_delta_delete(p, d)
           \/ \E e \in Entries(dproc[p].d) : RemoveEntry(p, e)
           \/ RemoveDir(p)
    PROVE  Sound'
<1>i. Shape /\ Sound /\ Inodes /\ Alone /\ Linked /\ Going /\ PublishedComplete BY DEF GenInv, Sound
<1>1. \A q \in Procs : dproc[q].pc \in {"parts", "rm"} => dproc[q].d \in Deltas /\ dproc[q].ino \in Nat
  BY <1>i DEF Shape, Generating, Deleting
<1>2. ASSUME NEW d \in Deltas, _ostree_repo_static_delta_delete(p, d) PROVE Sound'
  <2>1. /\ dproc'[p].pc = "rm" /\ dproc'[p].d = d /\ dproc'[p].ino = dirs[d].ino /\ dirs[d].ino # 0
        /\ \A q \in Procs \ {p} : dproc'[q] = dproc[q]
    BY <1>2, <1>i DEF _ostree_repo_static_delta_delete, Shape
  <2>2. /\ dirs' = dirs /\ dclock'.ino = dclock.ino
        /\ dpast'.gone = dpast.gone \cup {d} /\ dpast'.overlap = dpast.overlap
    BY <1>2, <1>i DEF _ostree_repo_static_delta_delete, Shape, Pasts
  <2>3. dirs[d].ino \in Nat BY <1>i DEF Shape
  <2>4. Inodes' /\ Alone' BY <2>1, <2>2, <2>3, <1>i DEF Inodes, Alone, InDir
  <2>5. Linked' /\ Going' /\ PublishedComplete'
    BY <2>1, <2>2, <1>i DEF Linked, Going, PublishedComplete, InDir
  <2> QED BY <2>4, <2>5 DEF Sound
<1>3. ASSUME NEW e \in Entries(dproc[p].d), RemoveEntry(p, e) PROVE Sound'
  <2> DEFINE d == dproc[p].d
  <2>1. /\ d \in Deltas /\ At(p, "rm") /\ InDir(p) /\ dproc' = dproc /\ dclock' = dclock
        /\ dpast'.gone = dpast.gone /\ dpast'.overlap = dpast.overlap
    BY <1>1, <1>3, <1>i, Zenon DEF RemoveEntry, Shape, Pasts
  <2>2. d \in dpast.gone BY <2>1, <1>i DEF Going
  <2>3. /\ \A x \in Deltas \ {d} : dirs'[x] = dirs[x]
        /\ dirs'[d].ino = dirs[d].ino /\ dirs'[d].sup.gen \in {dirs[d].sup.gen, 0}
    <3>1. CASE e = Superblock
      <4>1. dirs' = [dirs EXCEPT ![d].sup = NoSup] BY <1>3, <3>1 DEF RemoveEntry
      <4> QED BY <2>1, <4>1, <1>i DEF Shape, NoSup
    <3>2. CASE e # Superblock
      <4>1. PICK ps : dirs' = [dirs EXCEPT ![d].parts = ps] BY <1>3, <3>2, Zenon DEF RemoveEntry
      <4> QED BY <2>1, <4>1, <1>i DEF Shape
    <3> QED BY <3>1, <3>2
  <2>4. \A q \in Procs : dproc[q].pc \in {"parts", "rm"} => InDir(q)' = InDir(q)
    BY <1>1, <2>1, <2>3 DEF InDir
  <2> HIDE DEF d
  <2>5. Inodes' BY <2>1, <2>3, <1>i DEF Inodes
  <2>6. Alone' BY <1>1, <2>1, <2>3, <2>4, <1>i DEF Alone
  <2>7. Linked' BY <1>1, <2>1, <2>2, <2>3, <2>4, <1>i DEF Linked
  <2>8. Going' BY <2>1, <2>4, <1>i DEF Going
  <2>9. PublishedComplete' BY <2>1, <2>2, <2>3, <1>i DEF PublishedComplete
  <2> QED BY <2>5, <2>6, <2>7, <2>8, <2>9 DEF Sound
<1>4. ASSUME RemoveDir(p) PROVE Sound'
  <2> DEFINE d == dproc[p].d
  <2>1. /\ d \in Deltas /\ At(p, "rm") /\ dproc'[p].pc = "free" /\ dclock' = dclock
        /\ \A q \in Procs \ {p} : dproc'[q] = dproc[q]
    BY <1>1, <1>4, <1>i DEF RemoveDir, Shape, Free
  <2>2. CASE InDir(p)
    <3>0. /\ dirs' = [dirs EXCEPT ![d] = NoDir]
          /\ dpast' = [dpast EXCEPT !.gone = @ \ {d}, !.overlap = @ \ {d}]
      BY <1>4, <2>2 DEF RemoveDir
    <3>1. /\ dirs'[d].ino = 0 /\ dirs'[d].sup.gen = 0 /\ \A x \in Deltas \ {d} : dirs'[x] = dirs[x]
          /\ dpast'.gone = dpast.gone \ {d} /\ dpast'.overlap = dpast.overlap \ {d}
      BY <2>1, <3>0, <1>i DEF Shape, NoDir, NoSup, Pasts
    <3>2. \A q \in Procs : dproc'[q].pc \in {"parts", "rm"} =>
             dproc'[q] = dproc[q] /\ (InDir(q)' => InDir(q) /\ dproc[q].d # d)
      BY <1>1, <2>1, <3>1, <1>i DEF InDir, Inodes
    <3>3. dclock.ino \in Nat BY <1>i DEF Shape
    <3> HIDE DEF d
    <3>4. Inodes' BY <2>1, <3>1, <3>2, <3>3, <1>i DEF Inodes
    <3>5. Alone' BY <1>1, <3>1, <3>2, <1>i DEF Alone
    <3>6. Linked' BY <1>1, <3>1, <3>2, <1>i DEF Linked
    <3>7. Going' BY <3>1, <3>2, <1>i DEF Going
    <3>8. PublishedComplete' BY <2>1, <3>1, <1>i DEF PublishedComplete
    <3> QED BY <3>4, <3>5, <3>6, <3>7, <3>8 DEF Sound
  <2>3. CASE ~InDir(p)
    BY <1>i, <1>4, <2>1, <2>3, QuietSound DEF RemoveDir
  <2> QED BY <2>2, <2>3
<1> QED BY <1>2, <1>3, <1>4

\* What a process may do besides is quiet.
LEMMA OthersSound ==
    ASSUME GenInv, NEW p \in Procs,
           \/ \E c : ostree_repo_static_delta_reindex(p, c) \/ IndexOne(p, c)
           \/ IndexCommits(p) \/ EndIndex(p) \/ ReadPart(p) \/ EndRead(p) \/ Crash(p)
           \/ \E d \in Deltas : _ostree_repo_static_delta_dump(p, d) \/ \E k, mn : OpenSuperblock(p, d, k, mn)
    PROVE  Sound'
<1>i. Shape /\ Sound /\ Inodes /\ Alone /\ Linked /\ Going /\ PublishedComplete BY DEF GenInv, Sound
<1>1. dirs' = dirs /\ dclock'.ino = dclock.ino
  BY <1>i, Zenon DEF ostree_repo_static_delta_reindex, IndexOne, IndexCommits, EndIndex, ReadPart, EndRead, Crash, _ostree_repo_static_delta_dump, OpenSuperblock, Shape
<1>2. dpast'.overlap = dpast.overlap /\ dpast'.gone = dpast.gone
  BY <1>i, Zenon DEF ostree_repo_static_delta_reindex, IndexOne, IndexCommits, EndIndex, ReadPart, EndRead, Crash, _ostree_repo_static_delta_dump, OpenSuperblock, Shape, Pasts
<1>3. PICK st : dproc' = [dproc EXCEPT ![p] = st] /\ st.pc \notin {"parts", "rm"}
  <2>1. CASE IndexCommits(p)
    <3>1. ASSUME NEW x, NEW y PROVE [dproc[p] EXCEPT !.listed = TRUE, !.todo = x, !.froms = y].pc = "index"
      BY <2>1, <1>i DEF IndexCommits, Shape
    <3> QED BY <2>1, <3>1, Zenon DEF IndexCommits
  <2>2. CASE \E c : IndexOne(p, c) BY <2>2, <1>i DEF IndexOne, Shape, Free
  <2>3. CASE ReadPart(p)
    <3>1. ASSUME NEW x PROVE [dproc[p] EXCEPT !.next = @ + 1, !.got = @ \cup {x}].pc = "read"
      BY <2>3, <1>i DEF ReadPart, Shape
    <3>2. Free.pc = "free" BY DEF Free
    <3> QED BY <2>3, <3>1, <3>2, Zenon DEF ReadPart
  <2>4. CASE EndIndex(p) \/ EndRead(p) \/ Crash(p)
    <3>1. dproc' = [dproc EXCEPT ![p] = Free] BY <2>4 DEF EndIndex, EndRead, Crash
    <3>2. Free.pc = "free" BY DEF Free
    <3> QED BY <3>1, <3>2, Zenon
  <2>5. CASE \E c : ostree_repo_static_delta_reindex(p, c) BY <2>5, Zenon DEF ostree_repo_static_delta_reindex
  <2>6. CASE \E d \in Deltas : _ostree_repo_static_delta_dump(p, d) \/ \E k, mn : OpenSuperblock(p, d, k, mn)
    BY <2>6 DEF _ostree_repo_static_delta_dump, OpenSuperblock
  <2> QED BY <2>1, <2>2, <2>3, <2>4, <2>5, <2>6
<1> QED BY <1>1, <1>2, <1>3, QuietSound, <1>i DEF Shape

\* Every step keeps the invariant.
LEMMA NextSound ==
    ASSUME StyleConstants, GenInv, [StoreNext]_storeVars PROVE GenInv'
<1>1. UNCHANGED storeVars => Sound' BY QuietSound DEF storeVars, GenInv
<1>2. StoreNext => Sound'
  BY GenerateSound, LinkPartSound, LinkSuperblockSound, DeleteSound, OthersSound, Zenon DEF StoreNext
<1>3. Shape' BY NextShape DEF GenInv, ShapeKept
<1> QED BY <1>1, <1>2, <1>3 DEF GenInv

\* A delta with a superblock has every part the superblock names, with any
\* number of processes that generate, delete, index and read deltas and die
\* anywhere, except where generations of the same delta overlapped or a deletion
\* is not over (the end of ostree_repo_static_delta_generate).
THEOREM Complete == ASSUME StyleConstants PROVE StoreSpec => []PublishedComplete
<1>1. StoreInit => GenInv BY InitShape, InitSound DEF GenInv
<1>2. GenInv /\ [StoreNext]_storeVars => GenInv' BY NextSound
<1>3. GenInv => PublishedComplete BY DEF GenInv, Sound
<1> QED BY <1>1, <1>2, <1>3, PTL DEF StoreSpec

-----------------------------------------------------------------------------
(* Indexing and reading *)

\* A process that writes indexes has set the option before.
Advertised == IndexAdvertised /\ \A p \in Procs : At(p, "index") => indexed

\* An execution under way has only taken parts of its superblock's generation.
OneSoFar == ReadOneGeneration /\ \A p \in Procs :
                At(p, "read") /\ dproc[p].check => dproc[p].got \subseteq {dproc[p].sup.gen}

\* The inductive invariant of indexing and reading.
ReadInv == Advertised /\ OneSoFar
ReadersKept == Advertised' /\ OneSoFar'

\* A step that neither writes an index nor reads a part.
LEMMA QuietReaders ==
    ASSUME ReadInv, index' = index, (indexed' = indexed) \/ indexed', dpast'.read = dpast.read,
           \A p \in Procs : \/ dproc'[p] = dproc[p]
                            \/ dproc'[p].pc \notin {"index", "read"}
                            \/ dproc'[p].pc = "index" /\ indexed'
                            \/ dproc'[p].pc = "read" /\ dproc'[p].got = {}
    PROVE  ReadersKept
BY DEF ReadInv, ReadersKept, Advertised, OneSoFar, IndexAdvertised, ReadOneGeneration

\* Every step keeps the readers' invariant.
LEMMA NextReaders ==
    ASSUME StyleConstants, Shape, ReadInv, [StoreNext]_storeVars
    PROVE  ReadersKept
<1>i. Advertised /\ OneSoFar BY DEF ReadInv
<1>0. Free.pc = "free" BY DEF Free
<1>1. ASSUME NEW p \in Procs, NEW d \in Deltas, NEW style \in Styles, NEW ifnot \in BOOLEAN,
             ot_static_delta_builtin_generate(p, d, style, ifnot)
      PROVE  ReadersKept
  BY <1>1, QuietReaders DEF ot_static_delta_builtin_generate, Shape, Pasts
<1>2. ASSUME NEW p \in Procs, LinkPart(p) PROVE ReadersKept
  <2>1. [dproc[p] EXCEPT !.next = @ + 1].pc = "parts" BY <1>2 DEF LinkPart, Shape, Generating
  <2>2. \/ dproc' = [dproc EXCEPT ![p] = Free] \/ dproc' = [dproc EXCEPT ![p] = [dproc[p] EXCEPT !.next = @ + 1]]
    BY <1>2 DEF LinkPart
  <2>3. dpast'.read = dpast.read /\ index' = index /\ indexed' = indexed BY <1>2 DEF LinkPart, Shape, Pasts
  <2> QED BY <1>0, <2>1, <2>2, <2>3, QuietReaders, Zenon DEF Shape
<1>3. ASSUME NEW p \in Procs, LinkSuperblock(p) \/ RemoveDir(p) \/ EndIndex(p) \/ Crash(p)
      PROVE  ReadersKept
  <2>1. dproc' = [dproc EXCEPT ![p] = Free] /\ index' = index /\ indexed' = indexed
    BY <1>3 DEF LinkSuperblock, RemoveDir, EndIndex, Crash
  <2>2. \/ dpast' = dpast
        \/ \E x : dpast' = [dpast EXCEPT !.changed = x]
        \/ \E x : dpast' = [dpast EXCEPT !.failed = x]
        \/ \E x, y : dpast' = [dpast EXCEPT !.gone = x, !.overlap = y]
    <3>1. CASE LinkSuperblock(p) BY <3>1, Zenon DEF LinkSuperblock
    <3>2. CASE RemoveDir(p) BY <3>2, Zenon DEF RemoveDir
    <3>3. CASE EndIndex(p) \/ Crash(p) BY <3>3, Zenon DEF EndIndex, Crash
    <3> QED BY <1>3, <3>1, <3>2, <3>3, Zenon
  <2>3. dpast'.read = dpast.read BY <2>2, Zenon DEF Shape, Pasts
  <2> QED BY <1>0, <2>1, <2>3, QuietReaders DEF Shape
<1>4. ASSUME NEW p \in Procs, NEW d \in Deltas, _ostree_repo_static_delta_delete(p, d)
      PROVE  ReadersKept
  BY <1>4, QuietReaders DEF _ostree_repo_static_delta_delete, Shape, Pasts
<1>5. ASSUME NEW p \in Procs, NEW e, RemoveEntry(p, e) PROVE ReadersKept
  BY <1>5, QuietReaders DEF RemoveEntry, Shape, Pasts
<1>6. ASSUME NEW p \in Procs, NEW c, ostree_repo_static_delta_reindex(p, c) PROVE ReadersKept
  BY <1>6, QuietReaders DEF ostree_repo_static_delta_reindex, Shape, Pasts
<1>7. ASSUME NEW p \in Procs, IndexCommits(p) PROVE ReadersKept
  <2>1. ASSUME NEW x, NEW y PROVE [dproc[p] EXCEPT !.listed = TRUE, !.todo = x, !.froms = y].pc = "index"
    BY <1>7 DEF IndexCommits, Shape
  <2>2. indexed /\ indexed' = indexed /\ index' = index /\ dpast' = dpast
    BY <1>7, <1>i DEF IndexCommits, Advertised
  <2>3. PICK st : dproc' = [dproc EXCEPT ![p] = st] /\ st.pc = "index"
    BY <1>7, <2>1, Zenon DEF IndexCommits
  <2> QED BY <2>2, <2>3, QuietReaders DEF Shape
<1>8. ASSUME NEW p \in Procs, NEW c, IndexOne(p, c) PROVE ReadersKept
  <2>1. [dproc[p] EXCEPT !.todo = @ \ {c}].pc = "index" BY <1>8 DEF IndexOne, Shape
  <2>2. \/ dproc' = [dproc EXCEPT ![p] = Free] \/ dproc' = [dproc EXCEPT ![p] = [dproc[p] EXCEPT !.todo = @ \ {c}]]
    BY <1>8 DEF IndexOne
  <2>3. indexed /\ indexed' /\ dpast'.read = dpast.read
    BY <1>8, <1>i DEF IndexOne, Advertised, Shape, Pasts
  <2> SUFFICES Advertised' /\ OneSoFar' BY DEF ReadersKept
  <2> QED BY <1>0, <1>i, <2>1, <2>2, <2>3 DEF Shape, Advertised, OneSoFar, IndexAdvertised, ReadOneGeneration
<1>9. ASSUME NEW p \in Procs, NEW d \in Deltas,
             _ostree_repo_static_delta_dump(p, d) \/ \E k, mn : OpenSuperblock(p, d, k, mn)
      PROVE  ReadersKept
  BY <1>9, QuietReaders DEF _ostree_repo_static_delta_dump, OpenSuperblock, Shape
<1>10. ASSUME NEW p \in Procs, ReadPart(p) PROVE ReadersKept
  <2> DEFINE r == dproc[p]
  <2>1. /\ r.pc = "read" /\ DOMAIN r = {"pc", "d", "ino", "sup", "next", "got", "check"}
        /\ index' = index /\ indexed' = indexed /\ dpast' = dpast
    BY <1>10 DEF ReadPart, Shape
  <2>2. PICK st : /\ dproc' = [dproc EXCEPT ![p] = st]
                  /\ \/ st = Free
                     \/ \E x : /\ r.check => x = r.sup.gen
                               /\ st = [r EXCEPT !.next = @ + 1, !.got = @ \cup {x}]
    <3>1. CASE r.sup.inline /\ r.check BY <1>10, <3>1, Zenon DEF ReadPart
    <3>2. CASE /\ ~(r.sup.inline /\ r.check)
               /\ InDir(p) /\ r.next \in DOMAIN dirs[r.d].parts /\ (r.check => dirs[r.d].parts[r.next] = r.sup.gen)
      BY <1>10, <3>2, Zenon DEF ReadPart
    <3>3. CASE dproc' = [dproc EXCEPT ![p] = Free] BY <3>3, Zenon
    <3> QED BY <1>10, <3>1, <3>2, <3>3, Zenon DEF ReadPart
  <2>3. st.pc = "read" /\ st.check => st.got \subseteq {st.sup.gen}
    <3>1. ASSUME NEW x, r.check => x = r.sup.gen, st = [r EXCEPT !.next = @ + 1, !.got = @ \cup {x}]
          PROVE  st.check => st.got \subseteq {st.sup.gen}
      <4>1. st.check = r.check /\ st.sup = r.sup /\ st.got = r.got \cup {x} BY <2>1, <3>1
      <4>2. r.check => r.got \subseteq {r.sup.gen} BY <2>1, <1>i DEF OneSoFar
      <4> QED BY <3>1, <4>1, <4>2
    <3> QED BY <1>0, <2>2, <3>1, Zenon
  <2>4. st.pc \in {"free", "read"} BY <1>0, <2>1, <2>2, Zenon
  <2> HIDE DEF r
  <2> SUFFICES Advertised' /\ OneSoFar' BY DEF ReadersKept
  <2> QED BY <1>i, <2>1, <2>2, <2>3, <2>4, Zenon DEF Shape, Advertised, OneSoFar, IndexAdvertised, ReadOneGeneration
<1>11. ASSUME NEW p \in Procs, EndRead(p) PROVE ReadersKept
  <2> DEFINE r == dproc[p]
             new == [sup |-> r.sup, got |-> r.got, check |-> r.check]
  <2>1. /\ dproc' = [dproc EXCEPT ![p] = Free] /\ index' = index /\ indexed' = indexed
        /\ dpast'.read = dpast.read \cup {new}
    BY <1>11 DEF EndRead, Shape, Pasts
  <2>2. new.check => new.got \subseteq {new.sup.gen} BY <1>11, <1>i DEF EndRead, OneSoFar
  <2> HIDE DEF new
  <2> SUFFICES Advertised' /\ OneSoFar' BY DEF ReadersKept
  <2> QED BY <1>0, <1>i, <2>1, <2>2 DEF Shape, Advertised, OneSoFar, IndexAdvertised, ReadOneGeneration
<1>12. CASE UNCHANGED storeVars BY <1>12, QuietReaders DEF storeVars
<1> QED
  BY <1>1, <1>2, <1>3, <1>4, <1>5, <1>6, <1>7, <1>8, <1>9, <1>10, <1>11, <1>12, Zenon DEF StoreNext

LEMMA InitReaders == StoreInit => Advertised /\ OneSoFar
<1> SUFFICES ASSUME StoreInit PROVE Advertised /\ OneSoFar
  OBVIOUS
<1>1. \A p \in Procs : dproc[p].pc = "free" BY DEF StoreInit, Free
<1>2. dpast.read = {} BY DEF StoreInit
<1>3. PICK old : index = [c \in old |-> NoFun] /\ indexed = (old # {}) BY DEF StoreInit
<1>4. DOMAIN index = old BY <1>3
<1>5. IndexAdvertised BY <1>3, <1>4, Zenon DEF IndexAdvertised
<1> QED BY <1>1, <1>2, <1>5 DEF Advertised, OneSoFar, ReadOneGeneration

\* What an execution has read to the end is one generation of the delta, whoever
\* generates or deletes it meanwhile (_ostree_static_delta_part_open checks each
\* part against the superblock).
THEOREM OneGeneration == ASSUME StyleConstants PROVE StoreSpec => []ReadOneGeneration
<1>1. StoreInit => Shape /\ ReadInv BY InitShape, InitReaders DEF ReadInv
<1>2. Shape /\ ReadInv /\ [StoreNext]_storeVars => (Shape /\ ReadInv)'
  BY NextShape, NextReaders DEF ShapeKept, ReadersKept, ReadInv
<1>3. ReadInv => ReadOneGeneration BY DEF ReadInv, OneSoFar
<1> QED BY <1>1, <1>2, <1>3, PTL DEF StoreSpec

\* There is no index without core/indexed-deltas, however many processes index
\* and wherever they die (ostree_repo_static_delta_reindex sets it first).
THEOREM AlwaysAdvertised == ASSUME StyleConstants PROVE StoreSpec => []IndexAdvertised
<1>1. StoreInit => Shape /\ ReadInv BY InitShape, InitReaders DEF ReadInv
<1>2. Shape /\ ReadInv /\ [StoreNext]_storeVars => (Shape /\ ReadInv)'
  BY NextShape, NextReaders DEF ShapeKept, ReadersKept, ReadInv
<1>3. ReadInv => IndexAdvertised BY DEF ReadInv, Advertised
<1> QED BY <1>1, <1>2, <1>3, PTL DEF StoreSpec
=============================================================================

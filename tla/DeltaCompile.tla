---------------------------- MODULE DeltaCompile ----------------------------
(***************************************************************************)
(* Generating a static delta: ostree-repo-static-delta-compilation.c and   *)
(* its helpers (-analysis.c, ostree-rollsum.c, ostree-varint.c).           *)
(*                                                                         *)
(* The content of an object is a sequence of cells, the unit of every size.*)
(* A delta part keeps the layout of the code: a payload of cells, a string *)
(* of operations whose operands are varints, tables of modes and xattrs.   *)
(* The groups of a varint are VarBase wide, 128 in the code.  Compression  *)
(* (xz) is taken to give back what it was given.                           *)
(***************************************************************************)
EXTENDS Integers, Sequences, FiniteSets, SequencesExt, FiniteSetsExt

CONSTANTS VarBase,        \* values of a varint group
          BlobMax,        \* ROLLSUM_BLOB_MAX
          Splits,         \* the cells at which the rolling checksum ends a chunk
          Jobs            \* the deltas to generate: see DeltaInit

VARIABLES job,   \* what is generated: [obj, from, to, fromCommit, commit, bsdiff, minFallback, maxBsdiff, maxChunk]
          plan,  \* what is left to pack, by phase
          bld    \* the builder: [pc, parts, fallback]

compileVars == <<job, plan, bld>>

Obj == job.obj
Size(o) == Len(Obj[o].data)

-----------------------------------------------------------------------------
(* Varints (ostree-varint.c).                                              *)

_ostree_write_varuint64(n) ==
  LET groups[k \in 0..n] == IF k < VarBase THEN <<k>>
                            ELSE <<VarBase + (k % VarBase)>> \o groups[k \div VarBase]
  IN groups[n]

\* The value at position i, and the position after it.
_ostree_read_varuint64(ops, i) ==
  LET last == CHOOSE j \in i..Len(ops) : ops[j] < VarBase /\ \A m \in i..(j - 1) : ops[m] >= VarBase
  IN [value |-> FoldFunctionOnSet(+, 0, [j \in i..last |-> (ops[j] % VarBase) * VarBase ^ (j - i)], i..last),
      next |-> last + 1]

-----------------------------------------------------------------------------
(* Matching chunks of two files (ostree-rollsum.c).                        *)

\* bupsplit_find_ofs: the end of the first chunk, 0 when there is none.
bupsplit_find_ofs(buf) ==
  LET ends == {i \in 1..Len(buf) : buf[i] \in Splits} IN IF ends = {} THEN 0 ELSE Min(ends)

\* The checksum of a chunk is computed over the first bytes of the file, not over
\* the chunk: it is the same for all chunks of one length.
chunkCrc(buf, offset) == SubSeq(buf, 1, offset)

\* The chunks of a file: [crc, start, len].
rollsum_chunks_crc32(buf) ==
  LET chunks[start \in 0..Len(buf), ended \in BOOLEAN] ==
        IF start = Len(buf) THEN {}
        ELSE LET left == Len(buf) - start
                 ofs == IF ended THEN 0 ELSE bupsplit_find_ofs(SubSeq(buf, start + 1, Len(buf)))
                 len == IF ofs = 0 THEN Min({BlobMax, left}) ELSE Min({ofs, BlobMax})
             IN {[crc |-> chunkCrc(buf, len), start |-> start, len |-> len]}
                  \cup chunks[start + len, ofs = 0]
  IN chunks[0, FALSE]

\* The matches, in the order of their place in the new file: [len, to, from].
_ostree_compute_rollsum_matches(from, to) ==
  LET fc == rollsum_chunks_crc32(from)
      tc == rollsum_chunks_crc32(to)
      same(t) == {f \in fc : /\ f.crc = t.crc /\ f.len = t.len
                             /\ SubSeq(from, f.start + 1, f.start + f.len) = SubSeq(to, t.start + 1, t.start + t.len)}
      found == {t \in tc : same(t) # {}}
      match(t) == [len |-> t.len, to |-> t.start, from |-> Min({f.start : f \in same(t)})]
  IN [total |-> Cardinality(tc), bufmatches |-> Cardinality(found),
      matches |-> SetToSortSeq({match(t) : t \in found}, LAMBDA a, b : a.to < b.to)]

-----------------------------------------------------------------------------
(* Finding an old file that resembles a new one (-analysis.c).             *)

IsMeta(o) == Obj[o].kind = "meta"
IsReg(o) == Obj[o].kind = "reg"

\* sizename_is_delta_candidate.  A name is <<base, extension>>, extension "" for none.
sizename_is_delta_candidate(o) ==
  Size(o) # 0 /\ \A n \in Obj[o].names : n[2] \notin {"xz", "bz2"}

string_array_nonempty_intersection(a, b, fuzzy) ==
  \E x \in a, y \in b :
    IF fuzzy /\ x[2] # "" /\ y[2] # "" /\ x[1] # ""
    THEN x[1] = y[1] ELSE x = y

\* CONTENT_SIZE_SIMILARITY_THRESHOLD_PERCENT is 30.
SizeMin(o) == (Size(o) * 70) \div 100
SizeMax(o) == (Size(o) * 130) \div 100

\* build_content_sizenames_filtered: regular files, by size; those of one size in
\* any order.
build_content_sizenames_filtered(objs) ==
  {s \in SetToSeqs({o \in objs : IsReg(o)}) : \A i, j \in DOMAIN s : i < j => Size(s[i]) <= Size(s[j])}

\* The bound below which nothing is looked for goes up by two.
MutScan(fs, t, fuzzy, lower) ==
  LET scan[j \in 1..(Len(fs) + 1), low \in 1..(2 * Len(fs) + 1)] ==
        IF j > Len(fs) THEN [found |-> {}, lower |-> low]
        ELSE IF ~sizename_is_delta_candidate(fs[j]) THEN scan[j + 1, low]
        ELSE IF Size(fs[j]) < SizeMin(t) THEN scan[j + 1, Min({low + 2, 2 * Len(fs) + 1})]
        ELSE IF Size(fs[j]) > SizeMax(t) THEN [found |-> {}, lower |-> low]
        ELSE IF ~string_array_nonempty_intersection(Obj[fs[j]].names, Obj[t].names, fuzzy) THEN scan[j + 1, low]
        ELSE [found |-> {fs[j]}, lower |-> low]
  IN scan[Min({lower, Len(fs) + 1}), lower]

\* One pass over the old files from position `lower` on: what is found, and the new
\* bound below which everything is too small.
ScanFrom(fs, t, fuzzy, lower) ==
  LET scan[j \in 1..(Len(fs) + 1), low \in 1..(2 * Len(fs) + 1)] ==
        IF j > Len(fs) THEN [found |-> {}, lower |-> low]
        ELSE IF ~sizename_is_delta_candidate(fs[j]) THEN scan[j + 1, low]
        ELSE IF Size(fs[j]) < SizeMin(t) THEN scan[j + 1, low + 1]
        ELSE IF Size(fs[j]) > SizeMax(t) THEN [found |-> {}, lower |-> low]
        ELSE IF ~string_array_nonempty_intersection(Obj[fs[j]].names, Obj[t].names, fuzzy) THEN scan[j + 1, low]
        ELSE [found |-> {fs[j]}, lower |-> low]
  IN scan[Min({lower, Len(fs) + 1}), lower]

\* new file -> the old file it resembles: exact names first, then fuzzy ones; `lower`
\* carries over from one new file to the next.
_ostree_delta_compute_similar_objects(fs, ts) ==
  LET go[i \in 1..(Len(ts) + 1), lower \in 1..(2 * Len(fs) + 1)] ==
        IF i > Len(ts) THEN {}
        ELSE IF ~sizename_is_delta_candidate(ts[i]) THEN go[i + 1, lower]
        ELSE LET exact == ScanFrom(fs, ts[i], FALSE, lower)
                 fuzzy == ScanFrom(fs, ts[i], TRUE, exact.lower)
                 hit == IF exact.found # {} THEN exact ELSE fuzzy
             IN {<<ts[i], f>> : f \in hit.found} \cup go[i + 1, hit.lower]
  IN go[1, 1]

\* try_content_rollsum: at least half of the chunks of the new file are in the old one.
try_content_rollsum(from, to) ==
  LET m == _ostree_compute_rollsum_matches(Obj[from].data, Obj[to].data)
  IN (m.bufmatches * 100) \div m.total >= 50

try_content_bsdiff(from, to) == Size(from) + Size(to) <= job.maxBsdiff

check_object_world_readable(o) == Obj[o].readable

-----------------------------------------------------------------------------
(* Parts.                                                                  *)

NoPart == [objs |-> <<>>, payload |-> <<>>, ops |-> <<>>, modes |-> <<>>, xattrs |-> <<>>]

cur == bld.parts[Len(bld.parts)]

\* The size of a table entry is one cell.
current_part_size_estimate == Len(cur.payload) + Len(cur.ops) + Len(cur.modes) + Len(cur.xattrs)

\* The part to write to when it is full if `full`: finish_part closes the current one,
\* whatever its size, and allocate_part opens another.
allocate_part(full) ==
  IF Len(cur.objs) > 0 /\ full THEN [parts |-> Append(bld.parts, NoPart)] ELSE [parts |-> bld.parts]

\* The table with `key` in it, and the offset of `key`.
write_unique_variant_chunk(table, key) ==
  IF Contains(table, key) THEN [table |-> table, offset |-> SelectInSeq(table, LAMBDA x : x = key) - 1]
  ELSE [table |-> Append(table, key), offset |-> Len(table)]

\* A part with the mode and the xattrs of `o` in its tables, and their offsets.
write_content_mode_xattrs(part, o) ==
  LET m == write_unique_variant_chunk(part.modes, Obj[o].mode)
      x == write_unique_variant_chunk(part.xattrs, Obj[o].xattrs)
  IN [part |-> [part EXCEPT !.modes = m.table, !.xattrs = x.table], mode |-> m.offset, xattr |-> x.offset]

OpOpenSplice == 1001
OpOpen == 1002
OpWrite == 1003
OpSetRead == 1004
OpUnsetRead == 1005
OpClose == 1006
OpBspatch == 1007

\* An operation and its operands.
Op(code, args) == <<code>> \o FlattenSeq([i \in DOMAIN args |-> _ostree_write_varuint64(args[i])])
Emit(part, ops, cells) == [part EXCEPT !.ops = @ \o ops, !.payload = @ \o cells]

\* The offset of the cells is taken after they were appended.
MutPlain(part, o) ==
  LET c == write_content_mode_xattrs(part, o) IN
  Emit(c.part, Op(OpOpenSplice, <<c.mode, c.xattr, Size(o), Len(part.payload) + Size(o)>>), Obj[o].data)

\* The end of process_one_object, for content; the content of a symlink is its target.
PackContent(part, o) ==
  LET c == write_content_mode_xattrs(part, o) IN
  Emit(c.part, Op(OpOpenSplice, <<c.mode, c.xattr, Size(o), Len(part.payload)>>), Obj[o].data)

\* and for metadata
PackMeta(part, o) == Emit(part, Op(OpOpenSplice, <<Size(o), Len(part.payload)>>), Obj[o].data)

WithObj(part, o) == [part EXCEPT !.objs = Append(@, o)]
Last1(parts, part) == [parts EXCEPT ![Len(parts)] = part]

\* The size of a symlink, in its file information, is 0.
InfoSize(o) == IF Obj[o].kind = "lnk" THEN 0 ELSE Size(o)

\* A part takes one object more than it should.
MutFull(o) == current_part_size_estimate > job.maxChunk

FullFor(o) == current_part_size_estimate + InfoSize(o) > job.maxChunk

process_one_object(o) ==
  LET al == allocate_part(FullFor(o))
      part == WithObj(al.parts[Len(al.parts)], o)
  IN Last1(al.parts, IF IsMeta(o) THEN PackMeta(part, o) ELSE PackContent(part, o))

append_payload_chunk_and_write(part, cells) ==
  Emit(part, Op(OpWrite, <<Len(cells), Len(part.payload)>>), cells)

\* The writes of a rollsummed file: the matches, and what is between them.
RollsumWrites(part, o, matches, csumOfs) ==
  LET data == Obj[o].data
      gap(p, a, b) == append_payload_chunk_and_write(p, SubSeq(data, a + 1, b))
      toPayload(p, reading) == IF reading THEN p ELSE Emit(p, Op(OpUnsetRead, <<>>), <<>>)
      step(st, m) ==
        LET pre == IF m.to > st.ofs
                   THEN [part |-> gap(toPayload(st.part, st.reading), st.ofs, m.to), reading |-> TRUE]
                   ELSE [part |-> st.part, reading |-> st.reading]
            src == IF pre.reading THEN Emit(pre.part, Op(OpSetRead, <<csumOfs>>), <<>>) ELSE pre.part
        IN [part |-> Emit(src, Op(OpWrite, <<m.len, m.from>>), <<>>), reading |-> FALSE, ofs |-> m.to + m.len]
      end == FoldLeft(step, [part |-> part, reading |-> TRUE, ofs |-> 0], matches)
      un == toPayload(end.part, end.reading)
  IN IF end.ofs < Len(data) THEN gap(un, end.ofs, Len(data)) ELSE un

process_one_rollsum(o, from) ==
  LET al == allocate_part(current_part_size_estimate > job.maxChunk)
      c == write_content_mode_xattrs(WithObj(al.parts[Len(al.parts)], o), o)
      m == _ostree_compute_rollsum_matches(Obj[from].data, Obj[o].data)
      opened == Emit(c.part, Op(OpOpen, <<c.mode, c.xattr, Size(o)>>), <<from>>)
      written == RollsumWrites(opened, o, m.matches, Len(c.part.payload))
  IN Last1(al.parts, Emit(written, Op(OpClose, <<>>), <<>>))

\* bsdiff: a patch that bspatch accepts on the same old content.
bsdiff(from, to) == from \o to

process_one_bsdiff(o, from) ==
  LET al == allocate_part(current_part_size_estimate > job.maxChunk)
      c == write_content_mode_xattrs(WithObj(al.parts[Len(al.parts)], o), o)
      patch == bsdiff(Obj[from].data, Obj[o].data)
      src == Emit(c.part, Op(OpSetRead, <<Len(c.part.payload)>>), <<from>>)
      opened == Emit(src, Op(OpOpen, <<c.mode, c.xattr, Size(o)>>), <<>>)
      patched == Emit(opened, Op(OpBspatch, <<Len(opened.payload), Len(patch)>>), patch)
  IN Last1(al.parts, Emit(patched, Op(OpClose, <<>>) \o Op(OpUnsetRead, <<>>), <<>>))

-----------------------------------------------------------------------------
(* generate_delta_lowlatency: what to pack and how, then one object after  *)
(* the other; the order within a phase is that of a hash table.            *)

NoPlan == [meta |-> {}, roll |-> {}, bs |-> {}, reg |-> {}, lnk |-> {}, similar |-> {}]

CompileInit ==
  /\ job \in Jobs
  /\ plan = NoPlan
  /\ bld = [pc |-> "analyse", parts |-> <<>>, fallback |-> {}]

New == job.to \ job.from

\* A large file that no delta is made of is left to be fetched as an object.
FallsBack(o) == job.minFallback > 0 /\ Size(o) > job.minFallback

\* Symlinks count as shipped with the commit.
MutAnalyse ==
  /\ bld.pc = "analyse"
  /\ plan' = [NoPlan EXCEPT !.meta = {o \in New : IsMeta(o)} \ {job.commit},
                            !.reg = {o \in New : IsReg(o)}]
  /\ bld' = [bld EXCEPT !.pc = "pack", !.parts = <<NoPart>>]
  /\ UNCHANGED job

Analyse ==
  /\ bld.pc = "analyse"
  /\ \E fs \in IF job.from = {} THEN {<<>>} ELSE build_content_sizenames_filtered(job.from),
        ts \in build_content_sizenames_filtered(New) :
       LET similar == _ostree_delta_compute_similar_objects(fs, ts)
           usable == {p \in similar : check_object_world_readable(p[2])}
           roll == {p \in usable : try_content_rollsum(p[2], p[1])}
           bs == {p \in usable \ roll : job.bsdiff /\ try_content_bsdiff(p[2], p[1])}
           packed == {p[1] : p \in roll \cup bs}
           plain == {o \in New : IsReg(o)} \ packed
           big == {o \in plain : FallsBack(o)}
       IN /\ plan' = [meta |-> {o \in New : IsMeta(o)} \ {job.commit}, roll |-> roll, bs |-> bs,
                      reg |-> plain \ big, lnk |-> {o \in New : Obj[o].kind = "lnk"}, similar |-> similar]
          /\ bld' = [pc |-> "pack", parts |-> <<NoPart>>, fallback |-> big]
  /\ UNCHANGED job

Take1(phase, x) == plan' = [plan EXCEPT ![phase] = @ \ {x}]
Done(phases) == bld.pc = "pack" /\ \A f \in phases : plan[f] = {}

PackOneMeta(o) ==
  /\ Done({}) /\ o \in plan.meta
  /\ bld' = [bld EXCEPT !.parts = process_one_object(o)] /\ Take1("meta", o) /\ UNCHANGED job

PackOneRollsum(p) ==
  /\ Done({"meta"}) /\ p \in plan.roll
  /\ bld' = [bld EXCEPT !.parts = process_one_rollsum(p[1], p[2])] /\ Take1("roll", p) /\ UNCHANGED job

PackOneBsdiff(p) ==
  /\ Done({"meta", "roll"}) /\ p \in plan.bs
  /\ bld' = [bld EXCEPT !.parts = process_one_bsdiff(p[1], p[2])] /\ Take1("bs", p) /\ UNCHANGED job

PackOneRegfile(o) ==
  /\ Done({"meta", "roll", "bs"}) /\ o \in plan.reg
  /\ bld' = [bld EXCEPT !.parts = process_one_object(o)] /\ Take1("reg", o) /\ UNCHANGED job

PackOneSymlink(o) ==
  /\ Done({"meta", "roll", "bs", "reg"}) /\ o \in plan.lnk
  /\ bld' = [bld EXCEPT !.parts = process_one_object(o)] /\ Take1("lnk", o) /\ UNCHANGED job

\* The last part is finished: the delta is made.
FinishLast ==
  /\ Done({"meta", "roll", "bs", "reg", "lnk"})
  /\ bld' = [bld EXCEPT !.pc = "made"]
  /\ UNCHANGED <<job, plan>>

CompileNext ==
  \/ Analyse
  \/ \E o \in plan.meta : PackOneMeta(o)
  \/ \E p \in plan.roll : PackOneRollsum(p)
  \/ \E p \in plan.bs : PackOneBsdiff(p)
  \/ \E o \in plan.reg : PackOneRegfile(o)
  \/ \E o \in plan.lnk : PackOneSymlink(o)
  \/ FinishLast

-----------------------------------------------------------------------------
(* The search that remembers where it left off finds an old file for every *)
(* new one for which a search of all the old files finds one               *)
(* (_ostree_delta_compute_similar_objects).                                *)
SimilarFound ==
  bld.pc = "pack" =>
    {p[1] : p \in plan.similar} =
      {t \in New : /\ IsReg(t) /\ sizename_is_delta_candidate(t)
                   /\ \E f \in job.from :
                        /\ IsReg(f) /\ sizename_is_delta_candidate(f)
                        /\ Size(f) >= SizeMin(t) /\ Size(f) <= SizeMax(t)
                        /\ \/ string_array_nonempty_intersection(Obj[f].names, Obj[t].names, FALSE)
                           \/ string_array_nonempty_intersection(Obj[f].names, Obj[t].names, TRUE)}

(* The cells of plain objects in a part of several stay within the maximum *)
(* size of a chunk, but for a symlink that comes last: its file            *)
(* information gives it no size (process_one_object).                      *)
PayloadWithinChunk ==
  \A i \in DOMAIN bld.parts :
    LET p == bld.parts[i] IN
    (Len(p.objs) > 1 /\ ~\E k \in DOMAIN p.ops : p.ops[k] = OpOpen)
      => LET o == Last(p.objs)
         IN Len(p.payload) <= job.maxChunk + (IF Obj[o].kind = "lnk" THEN Size(o) ELSE 0)

(* "finish_part() enforces the real hard limit against the actual          *)
(* serialized size once a part is complete": no finished part is larger    *)
(* than max-chunk-size.                                                    *)
PartsWithinChunk ==
  bld.pc = "made" =>
    \A i \in DOMAIN bld.parts :
      LET p == bld.parts[i] IN Len(p.payload) + Len(p.ops) + Len(p.modes) + Len(p.xattrs) <= job.maxChunk
=============================================================================

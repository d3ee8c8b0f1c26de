----------------------------- MODULE KernelArgs -----------------------------
(***************************************************************************)
(* The kernel arguments (ostree-kernel-args.c): entries that are kept both *)
(* in the order of the command line and, by key, in a table, the           *)
(* operations on them, and the commands that edit the arguments of a       *)
(* deployment: `ostree admin deploy --karg...`, `ostree admin instutil     *)
(* set-kargs` and `ostree admin kargs edit-in-place`.                      *)
(*                                                                         *)
(* A string is the sequence of its pieces: spaces " ", quotes "q", equals  *)
(* signs "=" and words.  An entry's value may be absent (NULL), which is   *)
(* not the empty value.                                                    *)
(***************************************************************************)
EXTENDS Integers, Sequences, FiniteSets, SequencesExt

CONSTANTS Args,        \* strings given to the operations
          CliArgs,     \* strings given as options of the commands
          ProcCmdline, \* contents of /proc/cmdline
          MaxEntries,  \* bound on the entries
          MaxPieces    \* bound on the pieces of the whole string

VARIABLES kargs,  \* [order, table, ent]
          failed  \* the last operation returned an error

kargsVars == <<kargs, failed>>

NULL == <<"NULL">>
NoOption == <<"no option">>

\* The elements of a sequence taken in one after another.
Fold(op(_, _), base, seq) ==
  LET f[i \in 0..Len(seq)] == IF i = 0 THEN base ELSE op(f[i - 1], seq[i]) IN f[Len(seq)]

\* Quotes are taken for words like any other.
MutSplit(str) ==
  LET cut(acc, c) ==
        IF c = " " THEN [acc EXCEPT !.strv = Append(@, acc.start), !.start = <<>>]
        ELSE [acc EXCEPT !.start = Append(@, c)]
      end == Fold(cut, [strv |-> <<>>, start |-> <<>>], str)
  IN IF end.start = <<>> THEN end.strv ELSE Append(end.strv, end.start)

\* Leading spaces are skipped; two spaces in a row give an empty argument; what follows
\* a quote that is never closed is one argument.
split_kernel_args(str) ==
  LET skipped == Cardinality({i \in DOMAIN str : \A j \in 1..i : str[j] = " "})
      cut(acc, c) ==
        IF c = " " /\ ~acc.quoted THEN [acc EXCEPT !.strv = Append(@, acc.start), !.start = <<>>]
        ELSE [acc EXCEPT !.start = Append(@, c), !.quoted = (c = "q") # @]
      end == Fold(cut, [strv |-> <<>>, start |-> <<>>, quoted |-> FALSE],
                      SubSeq(str, skipped + 1, Len(str)))
  IN IF end.start = <<>> THEN end.strv ELSE Append(end.strv, end.start)

\* g_strsplit (str, " "), which knows no quotes.
g_strsplit(str) ==
  LET cut(acc, c) == IF c = " " THEN Append(acc, <<>>) ELSE [acc EXCEPT ![Len(acc)] = Append(@, c)]
  IN IF str = <<>> THEN <<>> ELSE Fold(cut, << <<>> >>, str)

\* The key and the value of "key", "key=" or "key=value".
split_keyeq(arg) ==
  LET eqs == {i \in DOMAIN arg : arg[i] = "="}
      eq == CHOOSE i \in eqs : \A j \in eqs : i <= j
  IN IF eqs = {} THEN [key |-> arg, value |-> NULL]
     ELSE [key |-> SubSeq(arg, 1, eq - 1), value |-> SubSeq(arg, eq + 1, Len(arg))]

ToArg(e) == IF e.value = NULL THEN e.key ELSE e.key \o <<"=">> \o e.value

-----------------------------------------------------------------------------
(* The structure.  An entry is a number; both lists hold the same entries. *)

kernel_args_new == [order |-> <<>>, table |-> << >>, ent |-> << >>]

lookup(k, key) == IF key \in DOMAIN k.table THEN k.table[key] ELSE <<>>
NewEntry(k) == CHOOSE n \in 1..(Len(k.order) + 1) : n \notin DOMAIN k.ent
Insert(k, key, entries) == [x \in DOMAIN k.table \cup {key} |-> IF x = key THEN entries ELSE k.table[x]]
Set(k, n, e) == [x \in DOMAIN k.ent \cup {n} |-> IF x = n THEN e ELSE k.ent[x]]
Free(k, ns) == [x \in DOMAIN k.ent \ ns |-> k.ent[x]]

\* The places of `entries` with the value.
find_value(k, entries, value) == {i \in DOMAIN entries : k.ent[entries[i]].value = value}
First(is) == CHOOSE i \in is : \A j \in is : i <= j

kernel_args_remove_entries_from_order(order, entries) == SelectSeq(order, LAMBDA n : n \notin ToSet(entries))

to_strv(k) == [i \in DOMAIN k.order |-> ToArg(k.ent[k.order[i]])]

ostree_kernel_args_to_string(k) ==
  Fold(LAMBDA buf, arg : IF buf[1] = 0 THEN <<1, arg>> ELSE <<1, buf[2] \o <<" ">> \o arg>>,
           <<0, <<>>>>, to_strv(k))[2]

ostree_kernel_args_get_last_value(k, key) ==
  IF lookup(k, key) = <<>> THEN NULL ELSE k.ent[Last(lookup(k, key))].value

kernel_args_equal(a, b) == to_strv(a) = to_strv(b)

Ok(k) == [kargs |-> k, ok |-> TRUE]
Err(k) == [kargs |-> k, ok |-> FALSE]

\* One argument after another, up to the first that fails: those before it stay done.
ForEach(op(_, _), k, argv) == Fold(LAMBDA r, arg : IF r.ok THEN op(r.kargs, arg) ELSE r, Ok(k), argv)

AppendOne(k, arg) ==
  LET e == split_keyeq(arg)
      n == NewEntry(k)
  IN Ok([order |-> Append(k.order, n), table |-> Insert(k, e.key, Append(lookup(k, e.key), n)),
         ent |-> Set(k, n, e)])

ostree_kernel_args_append(k, arg) == ForEach(AppendOne, k, split_kernel_args(arg))

filtered_prefixes == {<<"BOOT_IMAGE">>, <<"initrd">>}

_arg_has_prefix(arg, prefixes) == split_keyeq(arg).value # NULL /\ split_keyeq(arg).key \in prefixes

append_argv_filtered(k, argv, prefixes) ==
  ForEach(LAMBDA x, arg : IF _arg_has_prefix(arg, prefixes) THEN Ok(x) ELSE ostree_kernel_args_append(x, arg),
          k, argv)

append_proc_cmdline(k) == append_argv_filtered(k, split_kernel_args(ProcCmdline), filtered_prefixes)

ostree_kernel_args_from_string(options) ==
  ForEach(ostree_kernel_args_append, kernel_args_new, split_kernel_args(options)).kargs

\* The new entry goes to the end.
MutReplaceTake(k, arg) ==
  LET e == split_keyeq(arg)
      old == ToSet(lookup(k, e.key))
      n == NewEntry([k EXCEPT !.ent = Free(k, old)])
  IN [order |-> Append(kernel_args_remove_entries_from_order(k.order, lookup(k, e.key)), n),
      table |-> Insert(k, e.key, <<n>>), ent |-> Set([k EXCEPT !.ent = Free(k, old)], n, e)]

\* One entry in the place of the first of all that have the key.  The string is not
\* split here.
ostree_kernel_args_replace_take(k, arg) ==
  LET e == split_keyeq(arg)
      old == lookup(k, e.key)
      rest == kernel_args_remove_entries_from_order(k.order, old)
      at == IF old = <<>> THEN Len(rest) + 1
            ELSE First({i \in DOMAIN k.order : k.ent[k.order[i]].key = e.key})
      freed == [k EXCEPT !.ent = Free(k, ToSet(old))]
      n == NewEntry(freed)
  IN [order |-> InsertAt(rest, at, n), table |-> Insert(k, e.key, <<n>>), ent |-> Set(freed, n, e)]

\* What was there is given up.
MutReplaceArgv(k, argv) == Fold(ostree_kernel_args_replace_take, IF argv = <<>> THEN k ELSE kernel_args_new, argv)

replace_argv(k, argv) == Fold(ostree_kernel_args_replace_take, k, argv)

NewReplaceOne(k, arg) ==
  LET e == split_keyeq(arg)
      entries == lookup(k, e.key)
      change == split_keyeq(e.value) \* "old=new"
      found == find_value(k, entries, change.key)
      Value(i, value) == Ok([k EXCEPT !.ent[entries[i]].value = value])
  IN IF entries = <<>> THEN Err(k)
     ELSE IF e.value # NULL /\ change.value # NULL
       THEN IF found = {} THEN Err(k) ELSE Value(First(found), change.value)
     ELSE IF Len(entries) > 1 THEN Err(k) ELSE Value(1, e.value)

ostree_kernel_args_new_replace(k, arg) == ForEach(NewReplaceOne, k, split_kernel_args(arg))

ostree_kernel_args_delete_key_entry(k, key) ==
  [order |-> kernel_args_remove_entries_from_order(k.order, k.table[key]),
   table |-> [x \in DOMAIN k.table \ {key} |-> k.table[x]], ent |-> Free(k, ToSet(k.table[key]))]

\* The last entry of a key is taken like the others, and the key stays.
MutDeleteOne(k, arg) ==
  LET e == split_keyeq(arg)
      entries == lookup(k, e.key)
      found == find_value(k, entries, e.value)
      n == entries[First(found)]
  IN IF found = {} THEN Err(k)
     ELSE Ok([order |-> SelectSeq(k.order, LAMBDA x : x # n),
              table |-> Insert(k, e.key, RemoveAt(entries, First(found))), ent |-> Free(k, {n})])

\* The only entry of a key goes by its key alone, or with its value.  Of several entries
\* the one with just that value goes, where no value is one of the values.
DeleteOne(k, arg) ==
  LET e == split_keyeq(arg)
      entries == lookup(k, e.key)
      found == find_value(k, entries, e.value)
      n == entries[First(found)]
  IN IF entries = <<>> THEN Err(k)
     ELSE IF Len(entries) = 1
       THEN IF e.value # NULL /\ found = {} THEN Err(k)
            ELSE Ok(ostree_kernel_args_delete_key_entry(k, e.key))
     ELSE IF found = {} THEN Err(k)
     ELSE Ok([order |-> SelectSeq(k.order, LAMBDA x : x # n),
              table |-> Insert(k, e.key, RemoveAt(entries, First(found))), ent |-> Free(k, {n})])

ostree_kernel_args_delete(k, arg) == ForEach(DeleteOne, k, split_kernel_args(arg))

\* The key is looked for, whatever the value; the string is not split.
ostree_kernel_args_contains(k, arg) == split_keyeq(arg).key \in DOMAIN k.table

append_if_missing(k, arg) == IF ostree_kernel_args_contains(k, arg) THEN Ok(k) ELSE ostree_kernel_args_append(k, arg)

delete_if_present(k, arg) == IF ostree_kernel_args_contains(k, arg) THEN ostree_kernel_args_delete(k, arg) ELSE Ok(k)

-----------------------------------------------------------------------------
(* The operations as steps, and the commands.                              *)

Becomes(r) ==
  /\ Len(r.kargs.order) <= MaxEntries
  /\ Len(ostree_kernel_args_to_string(r.kargs)) <= MaxPieces
  /\ kargs' = r.kargs /\ failed' = ~r.ok

append(arg) == Becomes(ostree_kernel_args_append(kargs, arg))
replace(arg) == Becomes(Ok(ostree_kernel_args_replace_take(kargs, arg)))
new_replace(arg) == Becomes(ostree_kernel_args_new_replace(kargs, arg))
delete(arg) == Becomes(ostree_kernel_args_delete(kargs, arg))

delete_key_entry(arg) ==
  /\ ostree_kernel_args_contains(kargs, arg)
  /\ Becomes(Ok(ostree_kernel_args_delete_key_entry(kargs, split_keyeq(arg).key)))

if_missing(arg) == Becomes(append_if_missing(kargs, arg))
if_present(arg) == Becomes(delete_if_present(kargs, arg))

\* The arguments are written to the boot loader entry and read back.
Reread == Becomes(Ok(ostree_kernel_args_from_string(ostree_kernel_args_to_string(kargs))))

\* A command takes its options from one string each here.
Given(opt) == IF opt = NoOption THEN <<>> ELSE <<opt>>

\* What the deployment has, /proc/cmdline or nothing; then the changes asked for, and
\* the array of the result is what the deployment gets.
ot_admin_builtin_deploy(k, from, rep, app, del) ==
  LET start == CASE from = "none" -> kernel_args_new
                 [] from = "proc" -> append_proc_cmdline(kernel_args_new).kargs
                 [] OTHER -> ostree_kernel_args_from_string(ostree_kernel_args_to_string(k))
      changed == append_argv_filtered(replace_argv(start, Given(rep)), Given(app), {}).kargs
      r == ForEach(delete_if_present, changed, Given(del))
  IN IF r.ok THEN append_argv_filtered(kernel_args_new, to_strv(r.kargs), {}) ELSE Err(k)

\* ostree_sysroot_deployment_set_kargs appends the array to new arguments.
ot_admin_instutil_builtin_set_kargs(k, from, rep, app) ==
  LET start == CASE from = "none" -> kernel_args_new
                 [] from = "proc" -> append_proc_cmdline(kernel_args_new).kargs
                 [] OTHER -> append_argv_filtered(kernel_args_new, g_strsplit(ostree_kernel_args_to_string(k)), {}).kargs
      changed == append_argv_filtered(replace_argv(start, Given(rep)), Given(app), {}).kargs
      set == append_argv_filtered(kernel_args_new, to_strv(changed), {}).kargs
  IN Ok(ostree_kernel_args_from_string(ostree_kernel_args_to_string(set)))

KargsInit == kargs = kernel_args_new /\ failed = FALSE

KargsNext ==
  \/ \E arg \in Args :
       \/ append(arg) \/ replace(arg) \/ new_replace(arg) \/ delete(arg)
       \/ delete_key_entry(arg) \/ if_missing(arg) \/ if_present(arg)
  \/ Reread
  \/ \E from \in {"none", "proc", "merge"}, rep, app \in CliArgs \cup {NoOption} :
       \/ \E del \in CliArgs \cup {NoOption} :
            /\ from = "none" => del = NoOption
            /\ Becomes(ot_admin_builtin_deploy(kargs, from, rep, app, del))
       \/ Becomes(ot_admin_instutil_builtin_set_kargs(kargs, from, rep, app))

KargsSpec == KargsInit /\ [][KargsNext]_kargsVars

-----------------------------------------------------------------------------
(* Properties.                                                             *)

\* The table has, for every key on the command line and no other, the entries of the
\* key in the order of the command line: what is asked of a key (its last value, whether
\* it has several) is asked of what the kernel gets.
TableMatchesOrder ==
  /\ DOMAIN kargs.table = {kargs.ent[n].key : n \in ToSet(kargs.order)}
  /\ \A key \in DOMAIN kargs.table :
       kargs.table[key] = SelectSeq(kargs.order, LAMBDA n : kargs.ent[n].key = key)
  /\ DOMAIN kargs.ent = ToSet(kargs.order)

\* Arguments whose spaces are all quoted, and whose quotes are closed, come back from the boot loader entry as they
\* were written.
Quotes(arg, n) == Cardinality({i \in 1..n : arg[i] = "q"})
Quoted(arg) ==
  /\ arg # <<>> /\ Quotes(arg, Len(arg)) % 2 = 0
  /\ \A i \in DOMAIN arg : arg[i] = " " => Quotes(arg, i) % 2 = 1
AllQuoted == \A i \in DOMAIN kargs.order : Quoted(to_strv(kargs)[i])
RoundTrip ==
  AllQuoted => kernel_args_equal(kargs, ostree_kernel_args_from_string(ostree_kernel_args_to_string(kargs)))

\* Every operation does to the list of arguments what it is for: arguments are added at
\* the end, replaced in the place of the first, changed in their place or taken out one
\* at a time, no other argument moves, and an operation that fails on its only argument
\* changes nothing.
HasKey(arg, key) == split_keyeq(arg).key = key
Replaced(strv, arg) ==
  LET key == split_keyeq(arg).key
      places == {i \in DOMAIN strv : HasKey(strv[i], key)}
      before == IF places = {} THEN Len(strv) ELSE First(places) - 1
  IN SubSeq(strv, 1, before) \o <<arg>>
       \o SelectSeq(SubSeq(strv, before + 1, Len(strv)), LAMBDA x : ~HasKey(x, key))
TakesOut(strv, arg, new) ==
  \E i \in DOMAIN strv :
    /\ new = RemoveAt(strv, i)
    /\ strv[i] = arg \/ {j \in DOMAIN strv : HasKey(strv[j], arg)} = {i}
Changes(strv, arg, new) ==
  \E i \in DOMAIN strv :
    /\ DOMAIN new = DOMAIN strv /\ \A j \in DOMAIN strv \ {i} : new[j] = strv[j]
    /\ HasKey(strv[i], split_keyeq(arg).key)
    /\ arg \in {new[i], strv[i] \o <<"=">> \o split_keyeq(new[i]).value}
ListSpec ==
  \A arg \in Args :
    LET strv == to_strv(kargs)
        del == ostree_kernel_args_delete(kargs, arg)
        rep == ostree_kernel_args_new_replace(kargs, arg)
    IN /\ to_strv(ostree_kernel_args_append(kargs, arg).kargs) = strv \o split_kernel_args(arg)
       /\ to_strv(ostree_kernel_args_replace_take(kargs, arg)) = Replaced(strv, arg)
       /\ Quoted(arg) =>
            /\ IF del.ok THEN TakesOut(strv, arg, to_strv(del.kargs)) ELSE del.kargs = kargs
            /\ IF rep.ok THEN Changes(strv, arg, to_strv(rep.kargs)) ELSE rep.kargs = kargs

\* A deployment made with options for the kernel arguments has the arguments, quoted or
\* not, whose keys the options do not name.
Other(strv, opts) == SelectSeq(strv, LAMBDA x : \A o \in opts : ~HasKey(x, split_keyeq(o).key))
OthersKept ==
  AllQuoted =>
    \A rep, app, del \in CliArgs \cup {NoOption} :
      LET new == ot_admin_builtin_deploy(kargs, "merge", rep, app, del).kargs
      IN Other(to_strv(new), {rep, app, del}) = Other(to_strv(kargs), {rep, app, del})

\* `set-kargs --merge` as well leaves the arguments alone that its options do not name.
SetKargsOthersKept ==
  AllQuoted =>
    \A rep, app \in CliArgs \cup {NoOption} :
      LET new == ot_admin_instutil_builtin_set_kargs(kargs, "merge", rep, app).kargs
      IN Other(to_strv(new), {rep, app}) = Other(to_strv(kargs), {rep, app})

\* Deleting an argument that is not there is no error.
DeleteIfExists ==
  \A arg \in Args : Quoted(arg) /\ ~delete_if_present(kargs, arg).ok
    => split_keyeq(arg).value = NULL \/ arg \in ToSet(to_strv(kargs))

(* The table, its order and its text are one and the same list of          *)
(* arguments, and every operation does to it what it does to a plain list. *)
KargsMatchList ==
  /\ TableMatchesOrder
  /\ RoundTrip
  /\ ListSpec
  /\ OthersKept
=============================================================================

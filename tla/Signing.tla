------------------------------ MODULE Signing ------------------------------
(***************************************************************************)
(* Signing a commit and verifying its signatures: `ostree sign`,           *)
(* `ostree gpg-sign` and `ostree commit` with keys, the functions of the   *)
(* library that they call, and the verification of a commit for a remote.  *)
(*                                                                         *)
(* The signatures are in the commit's detached metadata, one file that each*)
(* signature reads, extends and replaces.  Nothing locks the file, so the  *)
(* commands of several processes interleave between the two.  In a         *)
(* transaction the file is staged, and replaces the other as it commits.   *)
(*                                                                         *)
(* The signature engines (ostree-sign.c, -ed25519.c, -spki.c,              *)
(* ostree-gpg-verifier.c, ostree-gpg-verify-result.c, ostree-repo.c): how  *)
(* they come by their keys and when they accept the signatures of a commit.*)
(*                                                                         *)
(* A key and the signature that it makes of the one commit of the model    *)
(* have the same name.  A key or signature "bad" is ill-formed: it has the *)
(* wrong length for ed25519, or is no key that OpenSSL can parse.  A blob  *)
(* "junk" is one at which the reader of a key file fails.  The dummy       *)
(* engine, which exists for tests, is left out.                            *)
(***************************************************************************)
EXTENDS Integers, Sequences, FiniteSets

CONSTANTS None,
          Procs,       \* processes
          Commands,    \* the commands that they may run
          Settings,    \* [dirs, gpg, rc, home]: key files, GPG keyrings, the remote's configuration, keys at --gpg-homedir
          FirstMetas,  \* detached metadata there may be at first
          ParentMeta,  \* that of the commit in the parent repository
          MaxCommands  \* bound on the commands

-----------------------------------------------------------------------------
(* The engines *)

Types == {"ed25519", "spki"}

\* The outcomes of comparing key bytes as if they were a GBytes: see spki_add_revoked.
Compares == {"equal", "different", "crash"}

Elems(s) == {s[i] : i \in DOMAIN s}
Prepend(k, s) == IF k \in Elems(s) THEN s ELSE <<k>> \o s

\* An engine: its public keys and its revoked keys, the last one added first.
NoKeys == [pks |-> <<>>, rev |-> <<>>]
Loaded(eng, ok) == [eng |-> eng, ok |-> ok, crash |-> FALSE]

\* add_pk checks the length of an ed25519 key; any bytes are an spki key.
ostree_sign_ed25519_add_pk(eng, k) ==
  IF k = "bad" THEN Loaded(eng, FALSE) ELSE Loaded([eng EXCEPT !.pks = Prepend(k, @)], TRUE)
ostree_sign_spki_add_pk(eng, k) == Loaded([eng EXCEPT !.pks = Prepend(k, @)], TRUE)

\* The interface calls the engine.
ostree_sign_add_pk(type, eng, k) ==
  IF type = "ed25519" THEN ostree_sign_ed25519_add_pk(eng, k) ELSE ostree_sign_spki_add_pk(eng, k)

\* clear_keys, which set_pk begins with, drops the revoked keys together with the public ones.
ed25519_clear_keys(eng) == NoKeys
spki_clear_keys(eng) == NoKeys
ostree_sign_ed25519_set_pk(eng, k) == ostree_sign_ed25519_add_pk(ed25519_clear_keys(eng), k)
ostree_sign_spki_set_pk(eng, k) == ostree_sign_spki_add_pk(spki_clear_keys(eng), k)
ostree_sign_set_pk(type, eng, k) ==
  IF type = "ed25519" THEN ostree_sign_ed25519_set_pk(eng, k) ELSE ostree_sign_spki_set_pk(eng, k)

\* set_sk: a key of the wrong length is refused, by spki as it signs.
ostree_sign_ed25519_set_sk(k) == k # "bad"
ostree_sign_spki_set_sk(k) == TRUE
ostree_sign_ed25519_data(k) == [ok |-> TRUE, sig |-> k]
ostree_sign_spki_data(k) == [ok |-> k # "bad", sig |-> k]
CanSign(type, k) == IF type = "ed25519" THEN ostree_sign_ed25519_set_sk(k) /\ ostree_sign_ed25519_data(k).ok
                    ELSE ostree_sign_spki_set_sk(k) /\ ostree_sign_spki_data(k).ok

ed25519_add_revoked(eng, k, cmp) ==
  IF k = "bad" THEN Loaded(eng, FALSE) ELSE Loaded([eng EXCEPT !.rev = Prepend(k, @)], TRUE)

\* _spki_add_revoked hands the bytes of the key to g_bytes_compare where it
\* takes a GBytes, once for every key revoked before: cmp says what comes of it.
spki_add_revoked(eng, k, cmp) ==
  CASE eng.rev # <<>> /\ cmp = "crash" -> [Loaded(eng, FALSE) EXCEPT !.crash = TRUE]
    [] eng.rev # <<>> /\ cmp = "equal" -> Loaded(eng, TRUE)
    [] OTHER -> Loaded([eng EXCEPT !.rev = <<k>> \o @], TRUE)

\* Adds what can be added, and succeeds if something was.
AddEach(Add(_, _), eng, items) ==
  LET F[i \in 0 .. Len(items)] ==
        IF i = 0 THEN Loaded(eng, FALSE)
        ELSE LET sofar == F[i - 1] added == Add(sofar.eng, items[i])
             IN  IF sofar.crash THEN sofar ELSE [added EXCEPT !.ok = sofar.ok \/ @]
  IN  F[Len(items)]

\* The blobs of a key file up to one that cannot be read, which makes the file
\* fail although the keys before it stay.
Readable(blobs) == SubSeq(blobs, 1, CHOOSE n \in 0 .. Len(blobs) :
                     (n = Len(blobs) \/ blobs[n + 1] = "junk") /\ \A i \in 1 .. n : blobs[i] # "junk")
Stream(Add(_, _), eng, blobs) ==
  [AddEach(Add, eng, Readable(blobs)) EXCEPT !.ok = @ /\ Readable(blobs) = blobs]

ed25519_load_pk_from_stream(eng, trusted, blobs, cmp) ==
  LET Add(e, k) == IF trusted THEN ostree_sign_ed25519_add_pk(e, k) ELSE ed25519_add_revoked(e, k, cmp)
  IN  Stream(Add, eng, blobs)
spki_load_pk_from_stream(eng, trusted, blobs, cmp) ==
  LET Add(e, k) == IF trusted THEN ostree_sign_spki_add_pk(e, k) ELSE spki_add_revoked(e, k, cmp)
  IN  Stream(Add, eng, blobs)

\* A file of keys, None if there is no regular file of the name.
ed25519_load_pk_from_file(eng, trusted, file, cmp) ==
  IF file = None THEN Loaded(eng, FALSE) ELSE ed25519_load_pk_from_stream(eng, trusted, file, cmp)
spki_load_pk_from_file(eng, trusted, file, cmp) ==
  IF file = None THEN Loaded(eng, FALSE) ELSE spki_load_pk_from_stream(eng, trusted, file, cmp)

\* The files of the system or of --keys-dir; one that cannot be loaded is passed over.
ed25519_load_pk(eng, trusted, files, cmp) ==
  LET Add(e, f) == ed25519_load_pk_from_file(e, trusted, f, cmp) IN AddEach(Add, eng, files)
spki_load_pk(eng, trusted, files, cmp) ==
  LET Add(e, f) == spki_load_pk_from_file(e, trusted, f, cmp) IN AddEach(Add, eng, files)

\* A careless loader that is content with the trusted keys.
MutLoadPk(eng, file, dirs, cmp) ==
  IF file # <<>> THEN ed25519_load_pk_from_file(eng, TRUE, file[1], cmp)
  ELSE ed25519_load_pk(eng, TRUE, dirs.trusted, cmp)

\* load_pk: from one file if it is given, else from the directories, where no
\* revoked key need be found.
AndRevoked(trusted, revoked) == IF trusted.ok THEN [revoked EXCEPT !.ok = ~revoked.crash] ELSE trusted
ostree_sign_ed25519_load_pk(eng, file, dirs, cmp) ==
  LET trusted == ed25519_load_pk(eng, TRUE, dirs.trusted, cmp)
  IN  IF file # <<>> THEN ed25519_load_pk_from_file(eng, TRUE, file[1], cmp)
      ELSE AndRevoked(trusted, ed25519_load_pk(trusted.eng, FALSE, dirs.revoked, cmp))
ostree_sign_spki_load_pk(eng, file, dirs, cmp) ==
  LET trusted == spki_load_pk(eng, TRUE, dirs.trusted, cmp)
  IN  IF file # <<>> THEN spki_load_pk_from_file(eng, TRUE, file[1], cmp)
      ELSE AndRevoked(trusted, spki_load_pk(trusted.eng, FALSE, dirs.revoked, cmp))
ostree_sign_load_pk(type, eng, file, dirs, cmp) ==
  IF type = "ed25519" THEN ostree_sign_ed25519_load_pk(eng, file, dirs, cmp)
  ELSE ostree_sign_spki_load_pk(eng, file, dirs, cmp)

\* The signatures are tried in turn, each with every public key that is not
\* revoked: the first match accepts, unless the engine has met an error before.
\* Fails(s, 0): signature s itself is an error; Fails(s, k): trying it with key k is.
Accepts(Fails(_, _), eng, sigs) ==
  LET Live == {j \in DOMAIN eng.pks : eng.pks[j] \notin Elems(eng.rev)}
      Tried(i, j) == {<<m, n>> \in (1 .. i) \X ({0} \cup Live) : m < i \/ n < j}
      Key(n) == IF n = 0 THEN None ELSE eng.pks[n]
  IN  \E i \in DOMAIN sigs, j \in Live :
        /\ eng.pks[j] = sigs[i] /\ sigs[i] # "bad"
        /\ \A t \in Tried(i, j) : ~Fails(sigs[t[1]], Key(t[2]))

\* With no public key the engine turns to the system's.
Verdict(with, sigs, ok) ==
  IF sigs = <<>> THEN "fail" ELSE IF with.crash THEN "crash" ELSE IF with.ok /\ ok THEN "ok" ELSE "fail"
ostree_sign_ed25519_data_verify(eng, sigs, dirs, cmp) ==
  LET with == IF eng.pks = <<>> THEN ostree_sign_ed25519_load_pk(eng, <<>>, dirs, cmp) ELSE Loaded(eng, TRUE)
      IllFormed(s, k) == k = None /\ s = "bad"
  IN  Verdict(with, sigs, Accepts(IllFormed, with.eng, sigs))
ostree_sign_spki_data_verify(eng, sigs, dirs, cmp) ==
  LET with == IF eng.pks = <<>> THEN ostree_sign_spki_load_pk(eng, <<>>, dirs, cmp) ELSE Loaded(eng, TRUE)
      NoKey(s, k) == k = "bad"
  IN  Verdict(with, sigs, Accepts(NoKey, with.eng, sigs))
ostree_sign_data_verify(type, eng, sigs, dirs, cmp) ==
  IF type = "ed25519" THEN ostree_sign_ed25519_data_verify(eng, sigs, dirs, cmp)
  ELSE ostree_sign_spki_data_verify(eng, sigs, dirs, cmp)

-----------------------------------------------------------------------------
(* Detached metadata: the signatures of each kind, in order.               *)

EmptyMeta == [ed25519 |-> <<>>, spki |-> <<>>, gpg |-> <<>>]

\* Forgets the signatures that are there.
MutAppend(meta, kind, sig) == [(IF meta = None THEN EmptyMeta ELSE meta) EXCEPT ![kind] = <<sig>>]

sign_detached_metadata_append(meta, kind, sig) ==
  [(IF meta = None THEN EmptyMeta ELSE meta) EXCEPT ![kind] = Append(@, sig)]
detached_metadata_append_gpg_sig(meta, sig) == sign_detached_metadata_append(meta, "gpg", sig)

Sigs(meta, kind) == IF meta = None THEN <<>> ELSE meta[kind]

-----------------------------------------------------------------------------
(* GPG.                                                                    *)

\* The keys that a verification has at hand.  A keyring of the remote, in the
\* repository, in remotes.d or in its parent, takes the place of the global one.
gpg_prepare_verifier(gpg, remote) ==
  LET global == IF remote \in {"all", "none"} \/ gpg.ring = None THEN gpg.global ELSE {}
      own == IF gpg.ring = None THEN {} ELSE gpg.ring
  IN  CASE remote = "all"  -> own \cup global
        [] remote = "none" -> global
        [] OTHER           -> own \cup global \cup gpg.keypath

\* signature_is_valid for some of them: the key is at hand, and has not expired.
count_valid(gpg, keys, sigs) == Cardinality({i \in DOMAIN sigs : sigs[i] \in keys \ gpg.expired})

\* ostree_gpg_verify_result_lookup: where the first signature of a key is, 0 if
\* there is none or the key is not at hand.
lookup(keys, sigs, k) ==
  IF k \in keys /\ \E i \in DOMAIN sigs : sigs[i] = k
  THEN CHOOSE i \in DOMAIN sigs : sigs[i] = k /\ \A j \in 1 .. i - 1 : sigs[j] # k
  ELSE 0

\* verify_with_metadata and require_valid_signature.
gpg_verify(gpg, keys, sigs) == sigs # <<>> /\ count_valid(gpg, keys, sigs) > 0

-----------------------------------------------------------------------------
(* The commands *)

VARIABLES conf,   \* the setting, which no command changes
          obj,    \* the detached metadata in objects/, None if there is no file
          staged, \* process -> that in the staging directory of its transaction
          job,    \* process -> the command that it runs
          made,   \* history: the signatures made by finished commands and not deleted since
          blind,  \* history: the GPG keys that signed without a look at the signatures there are
          mixed,  \* history: two commands have run at the same time
          cmds

signVars == <<conf, obj, staged, job, made, blind, mixed, cmds>>

Done == [pc |-> "done", cmd |-> [op |-> "none"], i |-> 0, eng |-> NoKeys, old |-> None, seen |-> None, res |-> "none"]

SignInit ==
  /\ conf \in Settings /\ obj \in FirstMetas
  /\ staged = [p \in Procs |-> None] /\ job = [p \in Procs |-> Done]
  /\ made = {} /\ blind = {} /\ mixed = FALSE /\ cmds = 0

At(p, op, pc) == job[p].cmd.op = op /\ job[p].pc = pc
cmd(p) == job[p].cmd
Key(p) == cmd(p).keys[job[p].i]

\* A command begins with its first key, if it has one.  The processes are alike:
\* commands that run on their own are left to one of them.
Lead == CHOOSE p \in Procs : TRUE
Begin(p, c) ==
  /\ job[p].pc = "done" /\ cmds < MaxCommands /\ cmds' = cmds + 1
  /\ p = Lead \/ job[Lead].pc # "done"
  /\ job' = [job EXCEPT ![p] = [Done EXCEPT !.pc = "key", !.cmd = c, !.i = 1]]
  /\ mixed' = (mixed \/ \E q \in Procs : job[q].pc # "done")
  /\ UNCHANGED <<conf, obj, staged, made, blind>>

\* A command ends; a transaction that is not committed is thrown away.
End(p, res, seen) ==
  /\ job' = [job EXCEPT ![p].pc = "done", ![p].res = res, ![p].seen = seen, ![p].old = None, ![p].eng = NoKeys]
  /\ staged' = [staged EXCEPT ![p] = None]

\* ostree_repo_read_commit_detached_metadata: what is staged, then what is in
\* the repository, then what is in its parent.
Metadata(p) ==
  IF cmd(p).txn /\ staged[p] # None THEN staged[p] ELSE IF obj # None THEN obj ELSE ParentMeta

\* ostree_repo_write_commit_detached_metadata.
WriteMetadata(p, m) ==
  IF cmd(p).txn THEN staged' = [staged EXCEPT ![p] = m] /\ UNCHANGED obj
  ELSE obj' = m /\ UNCHANGED staged

\* On to the next key.
Proceed(p) == job' = [job EXCEPT ![p].pc = "key", ![p].i = @ + 1, ![p].old = None]

-----------------------------------------------------------------------------
(* ostree sign, ostree gpg-sign and the signatures of ostree commit.       *)

\* ostree_sign_commit up to the signature.  set_sk or the engine refuses an
\* ill-formed key.  --delete is accepted, and makes no difference.
ostree_sign_commit(p) ==
  /\ At(p, "sign", "key") /\ job[p].i <= Len(cmd(p).keys)
  /\ \/ ~CanSign(cmd(p).type, Key(p)) /\ End(p, "fail", None)
     \/ CanSign(cmd(p).type, Key(p)) /\ job' = [job EXCEPT ![p].old = Metadata(p), ![p].pc = "write"] /\ UNCHANGED staged
  /\ UNCHANGED <<conf, obj, made, blind, mixed, cmds>>

\* The keys among which sign_commit looks for the signatures that are there.
HomeKeys(p) == gpg_prepare_verifier(conf.gpg, "none") \cup (IF cmd(p).homedir THEN conf.home ELSE {})

\* Signs again with a key that has signed.
MutGpgSign(p) ==
  /\ At(p, "gpg_sign", "key") /\ job[p].i <= Len(cmd(p).keys)
  /\ job' = [job EXCEPT ![p].old = Metadata(p), ![p].pc = "write"]
  /\ UNCHANGED <<conf, obj, staged, made, blind, mixed, cmds>>

\* ostree_repo_sign_commit up to the signature: a commit that has one of the
\* key is not signed again, so far as the key is among those it looks at.
ostree_repo_sign_commit(p) ==
  LET there == lookup(HomeKeys(p), Sigs(Metadata(p), "gpg"), Key(p)) > 0
  IN  /\ At(p, "gpg_sign", "key") /\ job[p].i <= Len(cmd(p).keys)
      /\ \/ there /\ End(p, "exists", None)
         \/ ~there /\ job' = [job EXCEPT ![p].old = Metadata(p), ![p].pc = "write"] /\ UNCHANGED staged
      /\ UNCHANGED <<conf, obj, made, blind, mixed, cmds>>

\* ostree_repo_append_gpg_signature up to the read: the signature was made elsewhere.
ostree_repo_append_gpg_signature(p) ==
  /\ At(p, "gpg_append", "key") /\ job[p].i <= Len(cmd(p).keys)
  /\ job' = [job EXCEPT ![p].old = Metadata(p), ![p].pc = "write"]
  /\ UNCHANGED <<conf, obj, staged, made, blind, mixed, cmds>>

Kind(p) == IF cmd(p).op = "sign" THEN cmd(p).type ELSE "gpg"

\* The metadata as read, and the signature, replace what is there by now.
WriteSignature(p) ==
  /\ cmd(p).op \in {"sign", "gpg_sign", "gpg_append"} /\ job[p].pc = "write"
  /\ WriteMetadata(p, IF Kind(p) = "gpg" THEN detached_metadata_append_gpg_sig(job[p].old, Key(p))
                      ELSE sign_detached_metadata_append(job[p].old, Kind(p), Key(p)))
  /\ made' = IF cmd(p).txn THEN made ELSE made \cup {<<Kind(p), Key(p)>>}
  /\ blind' = IF cmd(p).op = "gpg_append" \/ (cmd(p).op = "gpg_sign" /\ Key(p) \notin HomeKeys(p))
              THEN blind \cup {Key(p)} ELSE blind
  /\ Proceed(p)
  /\ UNCHANGED <<conf, mixed, cmds>>

\* All keys are done: a transaction is committed, and what it staged is renamed into objects/.
Signed(p) ==
  /\ cmd(p).op \in {"sign", "gpg_sign", "gpg_append"} /\ job[p].pc = "key" /\ job[p].i > Len(cmd(p).keys)
  /\ obj' = IF staged[p] # None THEN staged[p] ELSE obj
  /\ made' = IF cmd(p).txn THEN made \cup {<<Kind(p), k>> : k \in Elems(cmd(p).keys)} ELSE made
  /\ End(p, "ok", None)
  /\ UNCHANGED <<conf, blind, mixed, cmds>>

-----------------------------------------------------------------------------
(* ostree gpg-sign --delete.                                               *)

\* delete_signatures reads the metadata; with no signatures there is nothing to do.
delete_signatures(p) ==
  /\ At(p, "gpg_delete", "key")
  /\ IF Sigs(Metadata(p), "gpg") = <<>> THEN End(p, "ok", None)
     ELSE job' = [job EXCEPT ![p].old = Metadata(p), ![p].pc = "match"] /\ UNCHANGED staged
  /\ UNCHANGED <<conf, obj, made, blind, mixed, cmds>>

\* verify_commit_ext reads it anew, with the keyrings of all remotes.  Its result
\* must have as many signatures as the first reading, or the process aborts.
MatchSignatures(p) ==
  LET now == Sigs(Metadata(p), "gpg") IN
  /\ At(p, "gpg_delete", "match")
  /\ IF now = <<>> THEN End(p, "fail", None)
     ELSE IF Len(now) # Len(job[p].old.gpg) THEN End(p, "abort", None)
     ELSE job' = [job EXCEPT ![p].seen = now, ![p].pc = "write"] /\ UNCHANGED staged
  /\ UNCHANGED <<conf, obj, made, blind, mixed, cmds>>

\* The first signature of each key goes.
Kept(sigs, drop) ==
  LET F[i \in 0 .. Len(sigs)] == IF i = 0 THEN <<>> ELSE IF i \in drop THEN F[i - 1] ELSE Append(F[i - 1], sigs[i])
  IN  F[Len(sigs)]
DeleteMatched(p) ==
  LET keys == gpg_prepare_verifier(conf.gpg, "all")
      drop == {lookup(keys, job[p].seen, k) : k \in Elems(cmd(p).keys)}
      left == Kept(job[p].old.gpg, drop)
  IN  /\ At(p, "gpg_delete", "write")
      /\ WriteMetadata(p, [job[p].old EXCEPT !.gpg = left])
      /\ made' = made \ {<<"gpg", k>> : k \in Elems(job[p].old.gpg) \ Elems(left)}
      /\ job' = [job EXCEPT ![p].pc = "done", ![p].res = "ok", ![p].old = None, ![p].seen = None]
      /\ UNCHANGED <<conf, blind, mixed, cmds>>
-----------------------------------------------------------------------------
(* Verification.                                                           *)

\* ostree sign --verify with the next of the keys given: it alone is trusted.
VerifyKey(p) ==
  LET set == ostree_sign_set_pk(cmd(p).type, job[p].eng, Key(p))
      res == ostree_sign_data_verify(cmd(p).type, set.eng, Sigs(Metadata(p), cmd(p).type), conf.dirs, "equal")
  IN  /\ At(p, "verify", "key") /\ job[p].i <= Len(cmd(p).keys)
      /\ \/ set.ok /\ res = "ok" /\ End(p, "ok", Metadata(p))
         \/ ~(set.ok /\ res = "ok") /\ job' = [job EXCEPT ![p].i = @ + 1, ![p].eng = set.eng] /\ UNCHANGED staged
      /\ UNCHANGED <<conf, obj, made, blind, mixed, cmds>>

\* With a key file, or else with the keys of the system if no key was given.
VerifyLast(p) == \E c \in Compares :
  LET type == cmd(p).type
      load == ostree_sign_load_pk(type, job[p].eng, cmd(p).file, conf.dirs, c)
      res == IF load.crash THEN "crash"
             ELSE IF ~load.ok THEN "fail"
             ELSE ostree_sign_data_verify(type, load.eng, Sigs(Metadata(p), type), conf.dirs, c)
  IN  /\ At(p, "verify", "key") /\ job[p].i > Len(cmd(p).keys)
      /\ End(p, IF cmd(p).keys = <<>> \/ cmd(p).file # <<>> THEN res ELSE "fail", Metadata(p))
      /\ UNCHANGED <<conf, obj, made, blind, mixed, cmds>>

\* ostree_repo_verify_commit_ext and _for_remote, and require_valid_signature.
ostree_repo_verify_commit(p) ==
  /\ At(p, "gpg_verify", "key")
  /\ LET ok == gpg_verify(conf.gpg, gpg_prepare_verifier(conf.gpg, cmd(p).remote), Sigs(Metadata(p), "gpg"))
     IN  End(p, IF ok THEN "ok" ELSE "fail", Metadata(p))
  /\ UNCHANGED <<conf, obj, made, blind, mixed, cmds>>

\* _signapi_load_public_keys: the key file and the key of the remote's configuration.
signapi_load_public_keys(type, rc, required) ==
  LET file == IF rc.file[type] = <<>> THEN Loaded(NoKeys, TRUE)
              ELSE ostree_sign_load_pk(type, NoKeys, rc.file[type], [trusted |-> <<>>, revoked |-> <<>>], "equal")
  IN  IF rc.file[type] = <<>> /\ rc.key[type] = None THEN Loaded(NoKeys, ~required)
      ELSE IF file.ok /\ rc.key[type] # None THEN ostree_sign_add_pk(type, file.eng, rc.key[type])
      ELSE file

\* Content with the one kind of signature or the other.
MutVerifyData(flags, cf, meta, cmp) ==
  LET rc == cf.rc
      Engine(t) == signapi_load_public_keys(t, rc, FALSE)
      gpgOk == gpg_verify(cf.gpg, gpg_prepare_verifier(cf.gpg, "r"), Sigs(meta, "gpg"))
      Res(t) == ostree_sign_data_verify(t, Engine(t).eng, Sigs(meta, t), cf.dirs, cmp)
  IN  IF meta # None /\ (("gpg" \in flags /\ gpgOk) \/ \E t \in rc.types : Res(t) = "ok") THEN "ok" ELSE "fail"

\* ostree_repo_signature_verify_commit_data.  sign-verify names the engines, all
\* of them if it is true; the first that accepts a signature settles it.
signature_verify_commit_data(flags, cf, meta, cmp) ==
  LET rc == cf.rc
      gpg == "gpg" \in flags /\ rc.gpg
      sign == "sign" \in flags /\ rc.sign # "off"
      Engine(t) == signapi_load_public_keys(t, rc, rc.sign = "list")
      Res(t) == ostree_sign_data_verify(t, Engine(t).eng, Sigs(meta, t), cf.dirs, cmp)
      gpgOk == gpg_verify(cf.gpg, gpg_prepare_verifier(cf.gpg, "r"), Sigs(meta, "gpg"))
      res == IF \E t \in rc.types : Res(t) = "ok" THEN "ok"
             ELSE IF \E t \in rc.types : Res(t) = "crash" THEN "crash" ELSE "fail"
  IN  IF \/ meta = None \/ ~(gpg \/ sign)
         \/ sign /\ \E t \in rc.types : ~Engine(t).ok
         \/ gpg /\ ~gpgOk
      THEN "fail"
      ELSE IF sign THEN res ELSE "ok"

VerifyForRemote(p) == \E c \in Compares :
  /\ At(p, "remote_verify", "key")
  /\ End(p, signature_verify_commit_data(cmd(p).flags, conf, Metadata(p), c), Metadata(p))
  /\ UNCHANGED <<conf, obj, made, blind, mixed, cmds>>

-----------------------------------------------------------------------------
SignNext == \E p \in Procs :
  \/ \E c \in Commands : Begin(p, c)
  \/ ostree_sign_commit(p) \/ ostree_repo_sign_commit(p) \/ ostree_repo_append_gpg_signature(p)
  \/ WriteSignature(p) \/ Signed(p)
  \/ delete_signatures(p) \/ MatchSignatures(p) \/ DeleteMatched(p)
  \/ VerifyKey(p) \/ VerifyLast(p) \/ ostree_repo_verify_commit(p) \/ VerifyForRemote(p)

SignSpec == SignInit /\ [][SignNext]_signVars
SignFinished == cmds = MaxCommands /\ \A p \in Procs : job[p].pc = "done"

-----------------------------------------------------------------------------
(* Properties.                                                             *)

SignTypeOK ==
  /\ conf \in Settings /\ mixed \in BOOLEAN /\ cmds \in 0 .. MaxCommands
  /\ \A p \in Procs : job[p].pc \in {"done", "key", "write", "match"}

\* As long as commands run one after the other, a signature that was made stays
\* in the metadata until it is deleted, whatever else signs the commit: with
\* another engine, in a transaction, or on top of metadata of the parent
\* repository.
SignedStays == ~mixed => \A s \in made : s[2] \in Elems(Sigs(obj, s[1]))

\* Commands that overlap lose no signature either.
SignedStaysConcurrent == \A s \in made : s[2] \in Elems(Sigs(obj, s[1]))

\* No key has two GPG signatures on the commit, however commands interleave,
\* unless it signed where ostree_repo_sign_commit could not see its signatures.
NoDuplicateGpg ==
  \A m \in {obj} \cup {staged[p] : p \in Procs} : \A i, j \in DOMAIN Sigs(m, "gpg") :
    i < j /\ m.gpg[i] = m.gpg[j] => m.gpg[i] \in blind

\* What a command was told to trust: keys given to it, the keys of a file, or
\* those of the system that are not revoked.
FileKeys(f) == IF f = <<>> \/ f = <<None>> THEN {} ELSE Elems(f[1]) \ {"bad", "junk"}
DirKeys(files) == UNION {FileKeys(<<files[i]>>) : i \in DOMAIN files}
SystemKeys == DirKeys(conf.dirs.trusted) \ DirKeys(conf.dirs.revoked)
Trusted(c) == IF c.keys = <<>> /\ c.file = <<>> THEN SystemKeys ELSE Elems(c.keys) \cup FileKeys(c.file)
SureRevocations(type) == type = "ed25519" \/ Cardinality(DirKeys(conf.dirs.revoked)) <= 1

\* ostree sign --verify succeeds only on a commit that has a signature by a key it
\* trusts, and for the system's keys by one that is not revoked.
VerifiedIsTrusted == \A p \in Procs :
  job[p].cmd.op = "verify" /\ job[p].pc = "done" /\ job[p].res = "ok" /\ SureRevocations(cmd(p).type) =>
    Elems(Sigs(job[p].seen, cmd(p).type)) \cap Trusted(cmd(p)) # {}

\* A commit is verified for a remote only if each kind of verification that is
\* asked for and configured has found a signature by a key of the remote.
RemoteKeys(t) ==
  LET own == FileKeys(conf.rc.file[t]) \cup ({conf.rc.key[t]} \ {None, "bad"}) IN IF own = {} THEN SystemKeys ELSE own
RemoteVerified == \A p \in Procs :
  LET c == cmd(p) m == job[p].seen IN
  c.op = "remote_verify" /\ job[p].pc = "done" /\ job[p].res = "ok" =>
    /\ "gpg" \in c.flags /\ conf.rc.gpg =>
         Elems(m.gpg) \cap ((IF conf.gpg.ring = None THEN conf.gpg.global ELSE conf.gpg.ring) \cup conf.gpg.keypath) # {}
    /\ "sign" \in c.flags /\ conf.rc.sign # "off" =>
         \E t \in conf.rc.types : ~SureRevocations(t) \/ Elems(m[t]) \cap RemoteKeys(t) # {}
    /\ \/ "gpg" \in c.flags /\ conf.rc.gpg
       \/ "sign" \in c.flags /\ conf.rc.sign # "off"

\* The signatures of the two readings of delete_signatures agree in number.
ReadingsAgree == \A p \in Procs : job[p].res # "abort"

\* Once gpg-sign --delete is through, the commit has no signature by the keys.
DeleteRemovesAll == \A p \in Procs :
  ~mixed /\ job[p].cmd.op = "gpg_delete" /\ job[p].pc = "done" /\ job[p].res = "ok" /\ (\A q \in Procs \ {p} : job[q] = Done) =>
    Elems(Sigs(obj, "gpg")) \cap Elems(cmd(p).keys) \cap gpg_prepare_verifier(conf.gpg, "all") = {}

(* Signatures stay until they are deleted, are not made twice, and a       *)
(* commit is accepted on those of trusted keys only.                       *)
SignaturesSound ==
  /\ SignedStays
  /\ NoDuplicateGpg
  /\ VerifiedIsTrusted
  /\ RemoteVerified
=============================================================================

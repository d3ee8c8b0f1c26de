----------------------------- MODULE RepoConfig -----------------------------
(***************************************************************************)
(* Creating and opening a repository, its configuration and its remotes    *)
(* (ostree-repo.c).  Every OstreeRepo object (a handle) caches             *)
(* repo/config, a table of remotes and the settings derived from them; the *)
(* files are shared.  A remote is a group of repo/config or a file of its  *)
(* own in remotes.d; its keyring is a file of the repository.              *)
(*                                                                         *)
(* Of the settings those are kept whose value depends on more than the     *)
(* last configuration read: disable_fsync, min_free_space_mb,              *)
(* min_free_space_percent, parent_repo; and add_remotes_config_dir.  A key *)
(* that is not set is None.                                                *)
(***************************************************************************)
EXTENDS Integers, Sequences, FiniteSets

CONSTANTS Handles, Creators, Names, Urls, Keys,
          Edits,       \* settings an administrator may put into repo/config
          MaxCalls,    \* bound on the calls made
          None

VARIABLES rdisk,    \* [dirs, conf, confd, keyring]: what is in the file system; and
                    \* orphan: remotes that are gone while their keyring may be there
          creator,  \* how far each repo_create_at_internal has come
          handle,   \* the cache of each handle
          rcalls

repoConfigVars == <<rdisk, creator, handle, rcalls>>

NoRemotes == [n \in Names |-> None]
StateDirs == <<"tmp", "extensions", "state", "refs", "heads", "mirrors", "remotes", "objects">>
DefaultConf(mode) == [mode |-> mode, fsync |-> None, size |-> None, percent |-> None, parent |-> None,
                      dir |-> FALSE, rem |-> NoRemotes]
Defaults == [nofsync |-> FALSE, mb |-> 0, percent |-> 0, parent |-> None, dir |-> FALSE]
Closed == [st |-> "closed", conf |-> None, table |-> NoRemotes, set |-> Defaults, job |-> None]

RepoConfigInit ==
  /\ rdisk = [dirs |-> {}, conf |-> None, confd |-> NoRemotes, keyring |-> [n \in Names |-> None],
              orphan |-> {}]
  /\ creator = [c \in Creators |-> [pc |-> "start", mode |-> None, i |-> 1]]
  /\ handle = [h \in Handles |-> Closed]
  /\ rcalls = 0

Call == rcalls < MaxCalls /\ rcalls' = rcalls + 1
At(h, r) == handle' = [handle EXCEPT ![h] = r]

-----------------------------------------------------------------------------
(* repo_create_at_internal, one file operation at a time.                  *)

Creating(c, pc) == creator' = [creator EXCEPT ![c].pc = pc]

CreateStart(c, mode) ==
  /\ creator[c].pc = "start"
  /\ creator' = [creator EXCEPT ![c] = [pc |-> IF "objects" \in rdisk.dirs THEN "done" ELSE "stat", mode |-> mode, i |-> 1]]
  /\ UNCHANGED <<rdisk, handle, rcalls>>

\* Is there a configuration?
CreateStat(c) ==
  /\ creator[c].pc = "stat"
  /\ Creating(c, IF rdisk.conf = None THEN "config" ELSE "dirs")
  /\ UNCHANGED <<rdisk, handle, rcalls>>

\* It is replaced, also when another creation has written one meanwhile.
CreateConfig(c) ==
  /\ creator[c].pc = "config"
  /\ rdisk' = [rdisk EXCEPT !.conf = DefaultConf(creator[c].mode),
                  !.orphan = @ \cup {n \in Names : rdisk.conf # None /\ rdisk.conf.rem[n] # None}]
  /\ Creating(c, "dirs")
  /\ UNCHANGED <<handle, rcalls>>

\* objects/ comes first.
MutCreateDir(c) ==
  /\ creator[c].pc = "dirs"
  /\ rdisk' = [rdisk EXCEPT !.dirs = @ \cup {StateDirs[Len(StateDirs) + 1 - creator[c].i]}]
  /\ creator' = [creator EXCEPT ![c].i = @ + 1, ![c].pc = IF creator[c].i = Len(StateDirs) THEN "done" ELSE @]
  /\ UNCHANGED <<handle, rcalls>>

\* The directories in order, objects/ last.
CreateDir(c) ==
  /\ creator[c].pc = "dirs"
  /\ rdisk' = [rdisk EXCEPT !.dirs = @ \cup {StateDirs[creator[c].i]}]
  /\ creator' = [creator EXCEPT ![c].i = @ + 1, ![c].pc = IF creator[c].i = Len(StateDirs) THEN "done" ELSE @]
  /\ UNCHANGED <<handle, rcalls>>

\* The process dies and somebody tries again.
CreateDies(c) ==
  /\ creator[c].pc \notin {"start", "done"}
  /\ creator' = [creator EXCEPT ![c].pc = "start"]
  /\ UNCHANGED <<rdisk, handle, rcalls>>

-----------------------------------------------------------------------------
(* Loading.                                                                *)

\* reload_core_config: the settings s become those of a configuration.  A
\* percentage above 99 is refused after it was stored.
reload_core_config(s, c) ==
  LET mb == IF c.size # None THEN c.size ELSE IF c.percent = None THEN 0 ELSE s.mb
      pc == IF c.percent # None THEN c.percent ELSE IF c.size = None THEN 3 ELSE s.percent
  IN  [nofsync |-> c.fsync = FALSE \/ s.nofsync, mb |-> mb,
       percent |-> IF pc # 0 /\ mb # 0 THEN 0 ELSE pc,
       parent |-> IF c.parent # None THEN c.parent ELSE s.parent, dir |-> c.dir]
Refused(c) == c.percent # None /\ c.percent > 99
RefusedAt(s, c) == [s EXCEPT !.nofsync = c.fsync = FALSE \/ @, !.mb = IF c.size # None THEN c.size ELSE @,
                             !.percent = c.percent]

\* add_remotes_from_keyfile and append_one_remote_config: a remote may be defined once.
Unambiguous(c, files) == \A n \in Names : c.rem[n] = None \/ files[n] = None

\* reload_remote_config
reload_remote_config(c, files) ==
  [n \in Names |-> IF c.rem[n] # None THEN [url |-> c.rem[n], file |-> FALSE]
                   ELSE IF files[n] # None THEN [url |-> files[n], file |-> TRUE] ELSE None]

\* reload_config_inner on a handle: the handle afterwards.
reload_config_inner(r, c) ==
  CASE Refused(c) -> [r EXCEPT !.set = RefusedAt(@, c)]
    [] ~Refused(c) /\ Unambiguous(c, rdisk.confd) ->
         [r EXCEPT !.set = reload_core_config(@, c), !.table = reload_remote_config(c, rdisk.confd)]
    [] OTHER -> [r EXCEPT !.set = reload_core_config(@, c), !.table = reload_remote_config(c, NoRemotes)]
Reloads(c) == ~Refused(c) /\ Unambiguous(c, rdisk.confd)

\* ostree_repo_open and ostree_repo_reload_config.
ostree_repo_open(h) ==
  /\ handle[h].st = "closed" /\ rdisk.conf # None /\ "objects" \in rdisk.dirs /\ Reloads(rdisk.conf)
  /\ At(h, [reload_config_inner(Closed, rdisk.conf) EXCEPT !.st = "open", !.conf = rdisk.conf])
  /\ UNCHANGED <<rdisk, creator, rcalls>>

ostree_repo_reload_config(h) ==
  /\ Call /\ handle[h].st # "closed"
  /\ At(h, [reload_config_inner(handle[h], rdisk.conf) EXCEPT !.conf = rdisk.conf,
              !.st = IF Reloads(rdisk.conf) THEN "open" ELSE "broken"])
  /\ UNCHANGED <<rdisk, creator>>

\* Whether the cached table has a file of that name is not asked.
MutWritable(r, c) == TRUE

\* ostree_repo_write_config: every remote of the new configuration is looked up in
\* the table, for one that has a file of its own.
Writable(r, c) == \A n \in Names : c.rem[n] # None /\ r.table[n] # None => ~r.table[n].file

\* ostree_repo_write_config, with a remote added by the caller.  The table is not
\* loaded again; it is the caller's duty to reload before anything else.
ostree_repo_write_config(h, n, url) ==
  LET new == [handle[h].conf EXCEPT !.rem[n] = url]
  IN  /\ Call /\ handle[h].st = "open" /\ handle[h].job = None
      /\ IF Writable(handle[h], new)
         THEN rdisk' = [rdisk EXCEPT !.conf = new] /\ At(h, [handle[h] EXCEPT !.conf = new, !.st = "stale"])
         ELSE UNCHANGED <<rdisk, handle>>
      /\ UNCHANGED creator

\* ostree_repo_write_config_and_reload: the settings are tried on the handle first;
\* when they are refused the old ones are loaded again.  When the write fails the
\* handle keeps the new ones.
ostree_repo_write_config_and_reload(h, e) ==
  LET new == [e EXCEPT !.rem = handle[h].conf.rem, !.mode = handle[h].conf.mode]
      tried == reload_config_inner(handle[h], new)
  IN  /\ Call /\ handle[h].st = "open" /\ handle[h].job = None
      /\ \/ ~Reloads(new) /\ rdisk' = rdisk /\ At(h, reload_config_inner(tried, handle[h].conf))
         \/ /\ Reloads(new) /\ Writable(tried, new)
            /\ rdisk' = [rdisk EXCEPT !.conf = new]
            /\ At(h, [tried EXCEPT !.conf = new])
         \/ Reloads(new) /\ rdisk' = rdisk /\ At(h, tried)
      /\ UNCHANGED creator

\* An administrator edits repo/config.
Edit(e) ==
  /\ Call /\ rdisk.conf # None /\ "objects" \in rdisk.dirs
  /\ rdisk' = [rdisk EXCEPT !.conf = [e EXCEPT !.rem = rdisk.conf.rem, !.mode = rdisk.conf.mode]]
  /\ UNCHANGED <<creator, handle>>

-----------------------------------------------------------------------------
(* Remotes.                                                                *)
InTable(h, n) == handle[h].table[n] # None

\* A remote of the handle is written: to its file, or with the whole cached
\* configuration to repo/config.  The write may fail, and leaves things alone then.
WriteRemote(h, n, url, file, then, else) ==
  LET new == [handle[h].conf EXCEPT !.rem[n] = url]
  IN  \/ /\ file
         /\ rdisk' = [rdisk EXCEPT !.confd[n] = url]
         /\ At(h, then)
      \/ /\ ~file /\ Writable(handle[h], new)
         /\ rdisk' = [rdisk EXCEPT !.conf = new]
         /\ At(h, [then EXCEPT !.conf = new])
      \/ rdisk' = rdisk /\ At(h, else)

\* The remote goes into the table before it is written.
MutRemoteAdd(h, n, url) ==
  LET r == [handle[h] EXCEPT !.table[n] = [url |-> url, file |-> handle[h].set.dir]]
  IN  WriteRemote(h, n, url, handle[h].set.dir, r, r)

\* impl_repo_remote_add, for a remote that the table does not have.
impl_repo_remote_add(h, n, url) ==
  LET file == handle[h].set.dir
  IN  WriteRemote(h, n, url, file, [handle[h] EXCEPT !.table[n] = [url |-> url, file |-> file]], handle[h])

RemoteAdd(h, n, url) ==
  /\ Call /\ handle[h].st = "open" /\ handle[h].job = None /\ ~InTable(h, n)
  /\ impl_repo_remote_add(h, n, url)
  /\ UNCHANGED creator

\* impl_repo_remote_replace: the remote in the table changes first.
impl_repo_remote_replace(h, n, url) ==
  LET r == [handle[h] EXCEPT !.table[n].url = url]
  IN  /\ Call /\ handle[h].st = "open" /\ handle[h].job = None
      /\ IF InTable(h, n) THEN WriteRemote(h, n, url, handle[h].table[n].file, r, r)
         ELSE impl_repo_remote_add(h, n, url)
      /\ UNCHANGED creator

Begin(h, r, job) == At(h, [r EXCEPT !.job = job])

\* impl_repo_remote_delete: the file, which must be there, or the group of the
\* cached configuration goes first.  When that fails nothing has happened.
impl_repo_remote_delete(h, n) ==
  LET file == handle[h].table[n].file
      new == [handle[h].conf EXCEPT !.rem[n] = None]
      gone == [rdisk EXCEPT !.orphan = @ \cup {n}]
      job == [op |-> "delete", name |-> n]
  IN  /\ Call /\ handle[h].st = "open" /\ handle[h].job = None /\ InTable(h, n)
      /\ \/ /\ file /\ rdisk.confd[n] # None
            /\ rdisk' = [gone EXCEPT !.confd[n] = None]
            /\ Begin(h, handle[h], job)
         \/ /\ ~file /\ handle[h].conf.rem[n] # None /\ Writable(handle[h], new)
            /\ rdisk' = [gone EXCEPT !.conf = new]
            /\ Begin(h, [handle[h] EXCEPT !.conf = new], job)
         \/ /\ ~file /\ handle[h].conf.rem[n] = None
            /\ rdisk' = gone
            /\ Begin(h, handle[h], job)
         \/ UNCHANGED <<rdisk, handle>>
      /\ UNCHANGED creator

Doing(h, op) == handle[h].job # None /\ handle[h].job.op = op

\* The keyring stays.
MutUnkeyed(d, n) == [d EXCEPT !.orphan = @ \ {n}]

\* The keyring of a remote is deleted.
Unkeyed(d, n) == [d EXCEPT !.keyring[n] = None, !.orphan = @ \ {n}]

\* The keyring, then the entry of the table.
EndDelete(h) ==
  /\ Doing(h, "delete")
  /\ rdisk' = Unkeyed(rdisk, handle[h].job.name)
  /\ At(h, [handle[h] EXCEPT !.table[handle[h].job.name] = None, !.job = None])
  /\ UNCHANGED <<creator, rcalls>>

\* The keyring cannot be deleted: the entry of the table stays.
DeleteFails(h) ==
  /\ Doing(h, "delete")
  /\ At(h, [handle[h] EXCEPT !.job = None])
  /\ UNCHANGED <<rdisk, creator, rcalls>>

\* ostree_repo_remote_gpg_import: keys are added to a copy of the keyring, which
\* then replaces it.
BeginImport(h, n, k) ==
  /\ Call /\ handle[h].st = "open" /\ handle[h].job = None /\ InTable(h, n)
  /\ Begin(h, handle[h], [op |-> "import", name |-> n,
                          keys |-> (IF rdisk.keyring[n] = None THEN {} ELSE rdisk.keyring[n]) \cup {k}])
  /\ UNCHANGED <<rdisk, creator>>

EndImport(h) ==
  /\ Doing(h, "import")
  /\ rdisk' = [rdisk EXCEPT !.keyring[handle[h].job.name] = handle[h].job.keys]
  /\ At(h, [handle[h] EXCEPT !.job = None])
  /\ UNCHANGED <<creator, rcalls>>

ImportFails(h) ==
  /\ Doing(h, "import")
  /\ At(h, [handle[h] EXCEPT !.job = None])
  /\ UNCHANGED <<rdisk, creator, rcalls>>

\* The process dies in the middle of a deletion or an import.
HandleDies(h) ==
  /\ handle[h].job # None
  /\ At(h, Closed)
  /\ UNCHANGED <<rdisk, creator, rcalls>>

RepoConfigNext ==
  \/ \E c \in Creators : \/ \E mode \in {"bare", "archive"} : CreateStart(c, mode)
                         \/ CreateStat(c) \/ CreateConfig(c) \/ CreateDir(c) \/ CreateDies(c)
  \/ \E h \in Handles :
       \/ ostree_repo_open(h) \/ ostree_repo_reload_config(h) \/ EndImport(h) \/ ImportFails(h)
       \/ EndDelete(h) \/ DeleteFails(h) \/ HandleDies(h)
       \/ \E e \in Edits : ostree_repo_write_config_and_reload(h, e)
       \/ \E n \in Names : \/ impl_repo_remote_delete(h, n)
                           \/ \E u \in Urls : RemoteAdd(h, n, u) \/ impl_repo_remote_replace(h, n, u) \/ ostree_repo_write_config(h, n, u)
                           \/ \E k \in Keys : BeginImport(h, n, k)
  \/ \E e \in Edits : Edit(e)

-----------------------------------------------------------------------------
(* A repository that has its objects directory is complete: a creation     *)
(* that died, or another that runs at the same time, is never taken for an *)
(* existing repository.                                                    *)
CreatedComplete ==
  "objects" \in rdisk.dirs => rdisk.conf # None /\ rdisk.dirs = {StateDirs[i] : i \in DOMAIN StateDirs}

(* No remote is defined in repo/config and in remotes.d: such a repository *)
(* cannot be opened any more.                                              *)
RemotesUnambiguous == rdisk.conf # None => Unambiguous(rdisk.conf, rdisk.confd)

(* The remotes that a handle knows of are those that its configuration and *)
(* remotes.d define, also after a write that failed, and those whose       *)
(* keyring it could not delete: the command can be given again for them.   *)
(* (The url may differ after a failed replace.)                            *)
TableCurrent ==
  \A h \in Handles : handle[h].st = "open" =>
    \A n \in Names :
      LET defined == handle[h].conf.rem[n] # None \/ rdisk.confd[n] # None
      IN  /\ defined => handle[h].table[n] # None
          /\ handle[h].table[n] # None => defined \/ n \in rdisk.orphan

(* A keyring belongs to a remote: when a remote is deleted, a later one of *)
(* that name does not inherit its keys.  The exceptions are a deletion     *)
(* that stopped between its two steps, and a remote that went with a       *)
(* configuration that a second creation replaced.                          *)
KeyringsOwned ==
  \A n \in Names \ rdisk.orphan : rdisk.keyring[n] # None => rdisk.conf.rem[n] # None \/ rdisk.confd[n] # None

(* Creating a repository where there is one leaves its configuration alone *)
(* ("if it exists we do nothing and exit successfully").                   *)
CreationHarmlessStep == rdisk.conf # None /\ creator' # creator => rdisk'.conf = rdisk.conf

(* A reload that succeeds leaves the settings that opening the repository  *)
(* anew would give.                                                        *)
ReloadFreshStep ==
  \A h \in Handles :
    handle[h].st = "open" /\ rcalls' # rcalls /\ UNCHANGED <<rdisk, creator>>
      /\ handle'[h] = [reload_config_inner(handle[h], rdisk.conf) EXCEPT !.conf = rdisk.conf] /\ Reloads(rdisk.conf)
      => handle'[h].set = reload_core_config(Defaults, rdisk.conf)

(* Repositories, remotes and keyrings are whole: no half of a creation, no *)
(* remote defined twice or unknown to a handle, no keyring left for the    *)
(* next remote of the name.                                                *)
ConfigConsistent ==
  /\ CreatedComplete
  /\ RemotesUnambiguous
  /\ TableCurrent
  /\ KeyringsOwned
=============================================================================

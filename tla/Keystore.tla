------------------------------ MODULE Keystore ------------------------------
(***************************************************************************)
(* The directory of key shares (mpc/keystore, keystore.go of alg_ecdsa,    *)
(* alg_ed25519 and alg_single): a share is saved in place by the keygen    *)
(* worker and deleted when its task is aborted, while another process may  *)
(* encrypt the plaintext files of earlier versions (-migrate-keys).  Both  *)
(* processes can stop between any two system calls, and be started again   *)
(* with another passphrase.                                                *)
(*                                                                         *)
(* os.WriteFile truncates, then writes; a file that was cut is not read    *)
(* back.  Key ids are hashes of fresh public keys, so that no save finds a *)
(* file of its own name.                                                   *)
(***************************************************************************)
EXTENDS Naturals, Sequences, FiniteSets, SequencesExt

CONSTANTS
    Key,        \* key ids
    Task,       \* keygen tasks, each makes one key
    Pass,       \* passphrases of the configurations
    NoPass, NoShare, NoPath,
    MaxStops    \* bound on the crashes of each process

ASSUME KeystoreAssumption ==
    /\ NoPass \notin Pass /\ NoShare \notin Task /\ MaxStops \in Nat
    /\ IsFiniteSet(Key)

Store  == {"ecdsa", "ed25519", "single"}
Path   == Key \X {".json", ".single.json"}
Proc   == {"node", "migrate"}

\* File names: alg_ecdsa and alg_ed25519 share theirs.
path(store, k) ==
    <<k, IF store = "single" THEN ".single.json" ELSE ".json">>

VARIABLES
    file,       \* the contents of each path
    tmp,        \* the contents of each path + ".encrypting"
    encKey,     \* the passphrase of each running process (SetEncryptionKey)
    saver,      \* the keygen worker inside Save
    persisted,  \* shares a session has marked: <<task, key>>
    deleter,    \* an abort inside deleteUnconfirmedKeygenShare
    mig,        \* MigratePlaintextDir
    used,       \* tasks that have run
    stops,      \* crashes so far
    deleted     \* history: paths whose share was deleted

vars == <<file, tmp, encKey, saver, persisted, deleter, mig, used, stops,
          deleted>>

(***************************************************************************)
(* Contents.                                                               *)
(***************************************************************************)
Absent   == [form |-> "absent", pass |-> NoPass, task |-> NoShare]
Empty    == [form |-> "empty",  pass |-> NoPass, task |-> NoShare]
Cut      == [form |-> "cut",    pass |-> NoPass, task |-> NoShare]
Plain(t) == [form |-> "plain",  pass |-> NoPass, task |-> t]

Contents ==
    {Absent, Empty, Cut} \union {Plain(t) : t \in Task} \union
    [form : {"enc"}, pass : Pass, task : Task]

Whole(c) == c.form \in {"plain", "enc"}

\* WrapPlaintext, with the key of the process (it refuses to write without).
WrapPlaintext(proc, t) == [form |-> "enc", pass |-> encKey[proc], task |-> t]

\* A prefix that was cut is taken for encrypted if "mpc-keystore-v1:" is in
\* it, which is the case of Cut; what is shorter behaves like Empty.
IsEncrypted(c) == c.form \in {"enc", "cut"}

\* UnwrapCiphertext: AES-GCM fails on another key and on a file that was cut.
UnwrapCiphertext(proc, c) ==
    IF c.form = "enc" /\ c.pass = encKey[proc] THEN c.task ELSE NoShare

NoSave == [pc |-> "idle", path |-> NoPath, task |-> NoShare]
NoMig  == [pc |-> "idle", todo |-> <<>>, payload |-> Absent]

\* Types, and what the program counters entail.
TypeOK ==
    /\ file \in [Path -> Contents] /\ tmp \in [Path -> Contents]
    /\ encKey \in [Proc -> Pass \union {NoPass}]
    /\ saver.pc \in {"idle", "open", "write", "mark"}
    /\ saver.pc # "idle" => encKey["node"] # NoPass
    /\ persisted \in SUBSET (Task \X Key)
    /\ deleter \in Path \union {NoPath}
    /\ mig.pc \in {"idle", "read", "reread", "open", "write", "rename",
                   "done"}
    /\ mig.pc \in {"read", "reread", "open", "write", "rename"} =>
           encKey["migrate"] # NoPass
    /\ mig.payload \in Contents
    /\ mig.pc \in {"open", "write", "rename"} => mig.payload.form = "enc"
    /\ used \in SUBSET Task /\ stops \in [Proc -> 0 .. MaxStops]
    /\ deleted \in SUBSET Path

\* Files of earlier versions are plaintext; each belongs to an old task.
Init ==
    /\ \E old \in SUBSET Key, t \in [Key -> Task] :
         /\ \A k, l \in old : t[k] = t[l] => k = l
         /\ \E s \in [old -> Store] :
              file = [p \in Path |-> IF p[1] \in old
                                        /\ p = path(s[p[1]], p[1])
                                       THEN Plain(t[p[1]]) ELSE Absent]
         /\ used = {t[k] : k \in old}
    /\ tmp = [p \in Path |-> Absent]
    /\ encKey = [q \in Proc |-> NoPass]
    /\ saver = NoSave /\ persisted = {} /\ deleter = NoPath /\ mig = NoMig
    /\ stops = [q \in Proc |-> 0] /\ deleted = {}
-----------------------------------------------------------------------------
(***************************************************************************)
(* The node.                                                               *)
(***************************************************************************)
\* LaunchMPCNode: without a passphrase InitKeystoreEncryption refuses.
LaunchMPCNode(pass) ==
    /\ encKey["node"] = NoPass
    /\ encKey' = [encKey EXCEPT !["node"] = pass]
    /\ UNCHANGED <<file, tmp, saver, persisted, deleter, mig, used, stops,
                   deleted>>

\* The keygen of task t is done, the key is k: Save up to WrapPlaintext.
Fresh(k) == \A s \in Store : file[path(s, k)] = Absent
                             /\ path(s, k) \notin deleted

Save(store, t, k) ==
    /\ encKey["node"] # NoPass /\ saver.pc = "idle"
    /\ t \notin used /\ Fresh(k)
    /\ saver' = [pc |-> "open", path |-> path(store, k), task |-> t]
    /\ used' = used \union {t}
    /\ UNCHANGED <<file, tmp, encKey, persisted, deleter, mig, stops, deleted>>

\* The three stores' Save, which differ in the path and in what they write.
SaveECDSA(t, k)   == Save("ecdsa", t, k)
SaveEd25519(t, k) == Save("ed25519", t, k)
SaveSingle(t, k)  == Save("single", t, k)

SaveOpen ==
    /\ saver.pc = "open"
    /\ file' = [file EXCEPT ![saver.path] = Empty]
    /\ saver' = [saver EXCEPT !.pc = "write"]
    /\ UNCHANGED <<tmp, encKey, persisted, deleter, mig, used, stops, deleted>>

SaveWrite ==
    /\ saver.pc = "write"
    /\ file' = [file EXCEPT ![saver.path] = WrapPlaintext("node", saver.task)]
    /\ saver' = [saver EXCEPT !.pc = "mark"]
    /\ UNCHANGED <<tmp, encKey, persisted, deleter, mig, used, stops, deleted>>

\* The disk is full: Save fails and leaves what was written.
SaveFails ==
    /\ saver.pc = "write"
    /\ \E c \in {Empty, Cut} : file' = [file EXCEPT ![saver.path] = c]
    /\ saver' = NoSave
    /\ UNCHANGED <<tmp, encKey, persisted, deleter, mig, used, stops, deleted>>

\* markPersistedKey; the result then goes to the broker (KeygenTasks).
MarkPersisted ==
    /\ saver.pc = "mark"
    /\ persisted' = persisted \union {<<saver.task, saver.path[1]>>}
    /\ saver' = NoSave
    /\ UNCHANGED <<file, tmp, encKey, deleter, mig, used, stops, deleted>>

\* Load in each store.
Load(p) == UnwrapCiphertext("node", file[p])

\* deleteUnconfirmedKeygenShare: the stores are tried in turn, and the file
\* has to be the task's.
Deletable(t, k) ==
    IF Load(path("ecdsa", k)) = t THEN path("ecdsa", k)
    ELSE IF Load(path("ed25519", k)) = t THEN path("ed25519", k)
    ELSE IF Load(path("single", k)) = t THEN path("single", k)
    ELSE NoPath

DeleteLoad(t, k) ==
    /\ <<t, k>> \in persisted /\ deleter = NoPath
    /\ persisted' = persisted \ {<<t, k>>}
    /\ deleter' = Deletable(t, k)
    /\ UNCHANGED <<file, tmp, encKey, saver, mig, used, stops, deleted>>

\* Delete: a file that is not there is no error.
Delete ==
    /\ deleter # NoPath
    /\ file' = [file EXCEPT ![deleter] = Absent]
    /\ deleted' = deleted \union {deleter}
    /\ deleter' = NoPath
    /\ UNCHANGED <<tmp, encKey, saver, persisted, mig, used, stops>>

NodeStops ==
    /\ encKey["node"] # NoPass /\ stops["node"] < MaxStops
    /\ stops' = [stops EXCEPT !["node"] = @ + 1]
    /\ encKey' = [encKey EXCEPT !["node"] = NoPass]
    /\ \E c \in {Empty, Cut} :
         file' = IF saver.pc = "write" THEN [file EXCEPT ![saver.path] = c]
                 ELSE file
    /\ saver' = NoSave /\ persisted' = {} /\ deleter' = NoPath
    /\ UNCHANGED <<tmp, mig, used, deleted>>
-----------------------------------------------------------------------------
(***************************************************************************)
(* The migration, in a process of its own: MigrateShardKeysDir.            *)
(***************************************************************************)
Listed == SetToSeq({p \in Path : file[p] # Absent})
Current == Head(mig.todo)
Here == mig.todo # <<>>

\* os.ReadDir; names that end in ".encrypting" are not ".json".
MigrateShardKeysDir(pass) ==
    /\ mig.pc \in {"idle", "done"} /\ encKey["migrate"] = NoPass
    /\ encKey' = [encKey EXCEPT !["migrate"] = pass]
    /\ mig' = [pc |-> "read", todo |-> Listed, payload |-> Absent]
    /\ UNCHANGED <<file, tmp, saver, persisted, deleter, used, stops, deleted>>

MigReturns(pc) ==
    /\ mig' = [NoMig EXCEPT !.pc = pc]
    /\ encKey' = [encKey EXCEPT !["migrate"] = NoPass]

MigEnd ==
    /\ mig.pc = "read" /\ ~Here
    /\ MigReturns("done")
    /\ UNCHANGED <<file, tmp, saver, persisted, deleter, used, stops, deleted>>

\* The loop's own read: encrypted files are skipped.
MigRead ==
    /\ mig.pc = "read" /\ Here /\ file[Current] # Absent
    /\ mig' = IF IsEncrypted(file[Current])
                THEN [mig EXCEPT !.todo = Tail(@)]
                ELSE [mig EXCEPT !.pc = "reread"]
    /\ UNCHANGED <<file, tmp, encKey, saver, persisted, deleter, used, stops,
                   deleted>>

\* A plausible bug: whatever is not encrypted is taken for a share.
MigRereadAnything ==
    /\ mig.pc = "reread" /\ file[Current] # Absent
    /\ mig' = IF IsEncrypted(file[Current])
                THEN [mig EXCEPT !.pc = "read", !.todo = Tail(@)]
                ELSE [mig EXCEPT !.pc = "open", !.payload =
                        WrapPlaintext("migrate", file[Current].task)]
    /\ UNCHANGED <<file, tmp, encKey, saver, persisted, deleter, used, stops,
                   deleted>>

\* EncryptShardFileInPlace reads again: by now the save may be complete.
MigReread ==
    /\ mig.pc = "reread"
    /\ IsEncrypted(file[Current]) \/ file[Current].form = "plain"
    /\ mig' = IF IsEncrypted(file[Current])
                THEN [mig EXCEPT !.pc = "read", !.todo = Tail(@)]
                ELSE [mig EXCEPT !.pc = "open", !.payload =
                        WrapPlaintext("migrate", file[Current].task)]
    /\ UNCHANGED <<file, tmp, encKey, saver, persisted, deleter, used, stops,
                   deleted>>

\* The file has gone, or is neither encrypted nor a JSON object: one such
\* file ends the run.
MigError ==
    /\ \/ mig.pc \in {"read", "reread"} /\ Here /\ file[Current] = Absent
       \/ mig.pc = "reread" /\ file[Current] = Empty
    /\ MigReturns("idle")
    /\ UNCHANGED <<file, tmp, saver, persisted, deleter, used, stops, deleted>>

\* A plausible bug: the payload is written to the file itself.
MigOpenInPlace ==
    /\ mig.pc = "open"
    /\ file' = [file EXCEPT ![Current] = Empty]
    /\ mig' = [mig EXCEPT !.pc = "write"]
    /\ UNCHANGED <<tmp, encKey, saver, persisted, deleter, used, stops,
                   deleted>>

MigOpen ==
    /\ mig.pc = "open"
    /\ tmp' = [tmp EXCEPT ![Current] = Empty]
    /\ mig' = [mig EXCEPT !.pc = "write"]
    /\ UNCHANGED <<file, encKey, saver, persisted, deleter, used, stops,
                   deleted>>

MigWrite ==
    /\ mig.pc = "write"
    /\ tmp' = [tmp EXCEPT ![Current] = mig.payload]
    /\ mig' = [mig EXCEPT !.pc = "rename"]
    /\ UNCHANGED <<file, encKey, saver, persisted, deleter, used, stops,
                   deleted>>

\* The write of the temporary file fails: it stays behind.
MigWriteFails ==
    /\ mig.pc = "write"
    /\ \E c \in {Empty, Cut} : tmp' = [tmp EXCEPT ![Current] = c]
    /\ MigReturns("idle")
    /\ UNCHANGED <<file, saver, persisted, deleter, used, stops, deleted>>

MigRename ==
    /\ mig.pc = "rename"
    /\ file' = [file EXCEPT ![Current] = tmp[Current]]
    /\ tmp' = [tmp EXCEPT ![Current] = Absent]
    /\ mig' = [mig EXCEPT !.pc = "read", !.todo = Tail(@),
                          !.payload = Absent]
    /\ UNCHANGED <<encKey, saver, persisted, deleter, used, stops, deleted>>

\* A plausible bug: the loop goes on to the next file.
MigRenameFailsGoesOn ==
    /\ mig.pc = "rename"
    /\ tmp' = [tmp EXCEPT ![Current] = Absent]
    /\ mig' = [mig EXCEPT !.pc = "read", !.todo = Tail(@),
                          !.payload = Absent]
    /\ UNCHANGED <<file, encKey, saver, persisted, deleter, used, stops,
                   deleted>>

\* The temporary file is removed, if that works.
MigRenameFails ==
    /\ mig.pc = "rename"
    /\ \/ tmp' = [tmp EXCEPT ![Current] = Absent]
       \/ UNCHANGED tmp
    /\ MigReturns("idle")
    /\ UNCHANGED <<file, saver, persisted, deleter, used, stops, deleted>>

MigStops ==
    /\ mig.pc \notin {"idle", "done"} /\ stops["migrate"] < MaxStops
    /\ stops' = [stops EXCEPT !["migrate"] = @ + 1]
    /\ \E c \in {Empty, Cut} :
         tmp' = IF mig.pc = "write" THEN [tmp EXCEPT ![Current] = c] ELSE tmp
    /\ MigReturns("idle")
    /\ UNCHANGED <<file, saver, persisted, deleter, used, deleted>>

Next ==
    \/ \E pass \in Pass : LaunchMPCNode(pass) \/ MigrateShardKeysDir(pass)
    \/ \E t \in Task, k \in Key :
         \/ SaveECDSA(t, k) \/ SaveEd25519(t, k) \/ SaveSingle(t, k)
         \/ DeleteLoad(t, k)
    \/ SaveOpen \/ SaveWrite \/ SaveFails \/ MarkPersisted \/ Delete
    \/ NodeStops
    \/ MigEnd \/ MigRead \/ MigReread \/ MigError \/ MigOpen \/ MigWrite
    \/ MigWriteFails \/ MigRename \/ MigRenameFails \/ MigStops

Spec == Init /\ [][Next]_vars
-----------------------------------------------------------------------------
(***************************************************************************)
(* Properties.                                                             *)
(***************************************************************************)
\* What is stored, whatever the file looks like.
stored == [p \in Path |-> IF Whole(file[p]) THEN file[p].task ELSE NoShare]

Shares == INSTANCE ShareStore WITH stored <- stored, deleted <- deleted

\* The directory is a share store, although a save writes in place and the
\* migration goes through two reads, a temporary file and a rename: a share
\* is there from the end of its save until the abort of its own task deletes
\* it, through every crash and failed write of either process.
ImplementsShareStore == Shares!Spec

\* migrate.go:44: a migration that reports success has left no plaintext
\* share, and no temporary copy of one from an earlier, interrupted run.
MigratedAll ==
    mig.pc = "done" =>
        \A p \in Path : file[p].form # "plain" /\ tmp[p] = Absent
=============================================================================

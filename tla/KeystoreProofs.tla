--------------------------- MODULE KeystoreProofs ---------------------------
(***************************************************************************)
(* Proofs about Keystore, for any keys, tasks, passphrases and number of   *)
(* crashes: the directory implements ShareStore, and a migration that      *)
(* reports success has left no plaintext.                                  *)
(***************************************************************************)
EXTENDS Keystore, FiniteSetTheorems, TLAPS

\* os.ReadDir lists every file, once.
LEMMA ListedAll ==
    /\ Listed \in Seq(Path)
    /\ \A p \in Path : file[p] # Absent =>
         \E i \in 1 .. Len(Listed) : Listed[i] = p
<1> DEFINE S == {p \in Path : file[p] # Absent}
           n == Cardinality(S)
<1>1. IsFiniteSet(Path)
  <2>1. IsFiniteSet({".json", ".single.json"})
    <3>1. IsFiniteSet({} \union {".json"})
      BY FS_EmptySet, FS_AddElement
    <3>2. IsFiniteSet(({} \union {".json"}) \union {".single.json"})
      BY <3>1, FS_AddElement
    <3>3. ({} \union {".json"}) \union {".single.json"}
            = {".json", ".single.json"}
      OBVIOUS
    <3> QED BY <3>2, <3>3
  <2> QED BY <2>1, KeystoreAssumption, FS_Product DEF Path
<1>2. IsFiniteSet(S) /\ n \in Nat
  BY <1>1, FS_Subset, FS_CardinalityType
<1>3. Bijection(1 .. n, S) # {}
  BY <1>2, FS_CardinalityType DEF ExistsBijection
<1>4. \E f \in [1 .. n -> S] : IsInjective(f)
  BY <1>3 DEF Bijection, Injection
<1>5. Listed \in [1 .. n -> S] /\ IsInjective(Listed)
  BY <1>4 DEF Listed, SetToSeq
<1>6. Cardinality(1 .. n) = n /\ IsFiniteSet(1 .. n)
  BY <1>2, FS_Interval
<1>7. Listed \in Surjection(1 .. n, S)
  BY <1>2, <1>5, <1>6, FS_Injection DEF Injection
<1>8. \A p \in S : \E i \in 1 .. n : Listed[i] = p
  BY <1>7 DEF Surjection
<1> HIDE DEF n
<1>9. Listed \in Seq(S) /\ Len(Listed) = n
  BY <1>2, <1>5
<1> QED BY <1>8, <1>9

\* TypeOK with the records spelled out.
TypeInv ==
    /\ file \in [Path -> Contents] /\ tmp \in [Path -> Contents]
    /\ encKey \in [Proc -> Pass \union {NoPass}]
    /\ saver \in [pc : {"idle", "open", "write", "mark"},
                  path : Path \union {NoPath}, task : Task \union {NoShare}]
    /\ saver.pc # "idle" => /\ encKey["node"] # NoPass
                            /\ saver.path \in Path /\ saver.task \in Task
    /\ persisted \in SUBSET (Task \X Key)
    /\ deleter \in Path \union {NoPath}
    /\ mig \in [pc : {"idle", "read", "reread", "open", "write", "rename",
                      "done"},
                todo : Seq(Path), payload : Contents]
    /\ mig.pc \in {"read", "reread", "open", "write", "rename"} =>
           encKey["migrate"] # NoPass
    /\ mig.pc \in {"reread", "open", "write", "rename"} => mig.todo # <<>>
    /\ mig.pc \in {"open", "write", "rename"} => mig.payload.form = "enc"
    /\ used \in SUBSET Task /\ stops \in [Proc -> 0 .. MaxStops]
    /\ deleted \in SUBSET Path

\* No two writers meet in one file: the saver has a path of its own until the
\* share is there, an abort deletes encrypted files, the migration replaces
\* plaintext ones.
FileInv ==
    /\ saver.pc = "open" => /\ file[saver.path] = Absent
                            /\ saver.path \notin deleted
    /\ saver.pc = "write" => /\ file[saver.path] = Empty
                             /\ saver.path \notin deleted
    /\ deleter # NoPath => file[deleter].form = "enc"
    /\ mig.pc \in {"open", "write", "rename"} =>
           file[Current] = Plain(mig.payload.task)
    /\ mig.pc = "rename" => tmp[Current] = mig.payload

\* What is left to do has not been passed over.
ToDo(p) == \E i \in 1 .. Len(mig.todo) : mig.todo[i] = p
MigrateInv ==
    \A p \in Path :
        /\ tmp[p] # Absent => file[p].form = "plain"
        /\ mig.pc \notin {"idle", "done"} /\ file[p].form = "plain" => ToDo(p)
        /\ mig.pc = "done" => file[p].form # "plain"
-----------------------------------------------------------------------------
LEMMA ContentsFacts ==
    /\ Absent \in Contents /\ Empty \in Contents /\ Cut \in Contents
    /\ Absent.form = "absent" /\ Empty.form = "empty" /\ Cut.form = "cut"
    /\ \A t \in Task : /\ Plain(t) \in Contents /\ Plain(t).form = "plain"
                       /\ Plain(t).task = t
    /\ \A c \in Contents :
         /\ c.form \in {"absent", "empty", "cut", "plain", "enc"}
         /\ c.form = "absent" => c = Absent
         /\ c.form = "empty" => c = Empty
         /\ c.form = "plain" => c.task \in Task /\ c = Plain(c.task)
         /\ c.form = "enc" => c.task \in Task /\ c.pass \in Pass
<1>1. \A t \in Task : Plain(t).form = "plain" /\ Plain(t).task = t
  BY DEF Plain
<1>2. ASSUME NEW c \in [form : {"enc"}, pass : Pass, task : Task]
      PROVE  c.form = "enc" /\ c.task \in Task /\ c.pass \in Pass
  OBVIOUS
<1>3. Absent.form = "absent" /\ Empty.form = "empty" /\ Cut.form = "cut"
  BY DEF Absent, Empty, Cut
<1> QED BY <1>1, <1>2, <1>3 DEF Contents

LEMMA WrapFacts ==
    ASSUME NEW proc \in Proc, NEW t \in Task,
           encKey[proc] \in Pass
    PROVE  /\ WrapPlaintext(proc, t) \in Contents
           /\ WrapPlaintext(proc, t).form = "enc"
           /\ WrapPlaintext(proc, t).task = t
BY DEF WrapPlaintext, Contents

LEMMA PathFacts ==
    \A s \in Store, k \in Key : path(s, k) \in Path
BY DEF path, Path

LEMMA TypeInvInit == Init => TypeInv
<1> SUFFICES ASSUME Init PROVE TypeInv
  OBVIOUS
<1>0. PICK old \in SUBSET Key, t \in [Key -> Task] :
        /\ \E s \in [old -> Store] :
             file = [p \in Path |-> IF p[1] \in old
                                       /\ p = path(s[p[1]], p[1])
                                      THEN Plain(t[p[1]]) ELSE Absent]
        /\ used = {t[k] : k \in old}
  BY DEF Init
<1>1. PICK s \in [old -> Store] :
        file = [p \in Path |-> IF p[1] \in old /\ p = path(s[p[1]], p[1])
                                 THEN Plain(t[p[1]]) ELSE Absent]
  BY <1>0
<1>2. \A k \in Key : Plain(t[k]) \in Contents
  BY ContentsFacts
<1>3. \A p \in Path : p[1] \in Key
  BY DEF Path
<1>4. file \in [Path -> Contents] /\ used \in SUBSET Task
  BY <1>0, <1>1, <1>2, <1>3, ContentsFacts
<1>5. /\ saver \in [pc : {"idle", "open", "write", "mark"},
                    path : Path \union {NoPath},
                    task : Task \union {NoShare}]
      /\ saver.pc = "idle"
  BY DEF Init, NoSave
<1>6. /\ mig \in [pc : {"idle", "read", "reread", "open", "write", "rename",
                        "done"},
                  todo : Seq(Path), payload : Contents]
      /\ mig.pc = "idle"
  BY ContentsFacts DEF Init, NoMig
<1>7. stops \in [Proc -> 0 .. MaxStops]
  BY KeystoreAssumption DEF Init
<1> QED BY <1>4, <1>5, <1>6, <1>7, ContentsFacts DEF Init, TypeInv

\* How a run of the migration ends.
LEMMA ReturnsFacts ==
    ASSUME TypeInv, NEW pc \in {"idle", "done"}, MigReturns(pc)
    PROVE  /\ mig' \in [pc : {"idle", "done"}, todo : Seq(Path),
                        payload : Contents]
           /\ mig'.pc = pc
           /\ encKey' \in [Proc -> Pass \union {NoPass}]
           /\ encKey'["node"] = encKey["node"]
<1>1. /\ mig' \in [pc : {"idle", "done"}, todo : Seq(Path),
                   payload : Contents]
      /\ mig'.pc = pc
  <2>1. mig' = [pc |-> pc, todo |-> <<>>, payload |-> Absent]
    BY DEF MigReturns, NoMig
  <2>2. <<>> \in Seq(Path) /\ Absent \in Contents
    BY ContentsFacts
  <2> QED BY <2>1, <2>2
<1> QED BY <1>1 DEF MigReturns, TypeInv, Proc

\* The file that the migration is at.
LEMMA CurrentFacts ==
    ASSUME TypeInv, mig.todo # <<>>
    PROVE  /\ Current \in Path /\ Tail(mig.todo) \in Seq(Path)
           /\ \A p \in Path : ToDo(p) => \/ p = Current
                \/ \E i \in 1 .. Len(Tail(mig.todo)) : Tail(mig.todo)[i] = p
<1>1. mig.todo \in Seq(Path)
  BY DEF TypeInv
<1>2. Current \in Path /\ Tail(mig.todo) \in Seq(Path)
  BY <1>1 DEF Current
<1>3. ASSUME NEW p \in Path, NEW i \in 1 .. Len(mig.todo), mig.todo[i] = p,
             p # Current
      PROVE  \E j \in 1 .. Len(Tail(mig.todo)) : Tail(mig.todo)[j] = p
  <2>1. i - 1 \in 1 .. Len(Tail(mig.todo))
    BY <1>1, <1>3 DEF Current
  <2>2. Tail(mig.todo)[i - 1] = mig.todo[(i - 1) + 1]
    BY <1>1, <2>1
  <2>3. (i - 1) + 1 = i
    OBVIOUS
  <2> QED BY <1>3, <2>1, <2>2, <2>3
<1> QED BY <1>2, <1>3 DEF ToDo

LEMMA TypeInvStep ==
    ASSUME TypeInv, FileInv, [Next]_vars
    PROVE  TypeInv'
<1> USE KeystoreAssumption, ContentsFacts DEF TypeInv
<1>0. Proc = {"node", "migrate"}
  BY DEF Proc
<1>1. ASSUME NEW pass \in Pass, LaunchMPCNode(pass) PROVE TypeInv'
  BY <1>0, <1>1 DEF LaunchMPCNode
<1>2. ASSUME NEW pass \in Pass, MigrateShardKeysDir(pass) PROVE TypeInv'
  BY <1>0, <1>2, ListedAll DEF MigrateShardKeysDir
<1>3. ASSUME NEW s \in Store, NEW t \in Task, NEW k \in Key, Save(s, t, k)
      PROVE  TypeInv'
  BY <1>3, PathFacts DEF Save
<1>4. ASSUME NEW t \in Task, NEW k \in Key, DeleteLoad(t, k) PROVE TypeInv'
  <2>1. Deletable(t, k) \in Path \union {NoPath}
    BY PathFacts DEF Deletable, Store
  <2> QED BY <1>4, <2>1 DEF DeleteLoad
<1>5. CASE SaveOpen
  BY <1>5 DEF SaveOpen
<1>6. CASE SaveWrite
  <2>1. WrapPlaintext("node", saver.task) \in Contents
    BY <1>0, <1>6, WrapFacts DEF SaveWrite
  <2> QED BY <1>6, <2>1 DEF SaveWrite
<1>7. CASE SaveFails
  BY <1>7 DEF SaveFails, NoSave
<1>8. CASE MarkPersisted
  BY <1>8 DEF MarkPersisted, NoSave, Path
<1>9. CASE Delete
  BY <1>9 DEF Delete
<1>10. CASE NodeStops
  BY <1>0, <1>10 DEF NodeStops, NoSave
<1>11. CASE MigEnd
  BY <1>11, ReturnsFacts DEF MigEnd
<1>12. CASE MigRead
  BY <1>12, CurrentFacts DEF MigRead, Here
<1>13. CASE MigReread
  <2>1. CASE IsEncrypted(file[Current])
    BY <1>13, <2>1, CurrentFacts DEF MigReread
  <2>2. CASE ~IsEncrypted(file[Current])
    <3>1. Current \in Path /\ file[Current].form = "plain"
      BY <1>13, <2>2, CurrentFacts DEF MigReread
    <3>2. /\ WrapPlaintext("migrate", file[Current].task) \in Contents
          /\ WrapPlaintext("migrate", file[Current].task).form = "enc"
      BY <1>0, <1>13, <3>1, WrapFacts DEF MigReread
    <3> QED BY <1>13, <2>2, <3>2 DEF MigReread
  <2> QED BY <2>1, <2>2
<1>14. CASE MigError
  BY <1>14, ReturnsFacts DEF MigError
<1>15. CASE MigOpen
  BY <1>15, CurrentFacts DEF MigOpen
<1>16. CASE MigWrite
  BY <1>16, CurrentFacts DEF MigWrite
<1>17. CASE MigWriteFails
  <2>0. PICK c \in {Empty, Cut} : \/ tmp' = [tmp EXCEPT ![Current] = c]
                                  \/ tmp' = tmp
    BY <1>17 DEF MigWriteFails
  <2>1. tmp' \in [Path -> Contents]
    BY <2>0
  <2> QED BY <1>17, <2>1, ReturnsFacts DEF MigWriteFails
<1>18. CASE MigRename
  BY <1>18, CurrentFacts DEF MigRename
<1>19. CASE MigRenameFails
  <2>1. tmp' \in [Path -> Contents]
    BY <1>19 DEF MigRenameFails
  <2> QED BY <1>19, <2>1, ReturnsFacts DEF MigRenameFails
<1>20. CASE MigStops
  <2>0. PICK c \in {Empty, Cut} : \/ tmp' = [tmp EXCEPT ![Current] = c]
                                  \/ tmp' = tmp
    BY <1>20 DEF MigStops
  <2>1. tmp' \in [Path -> Contents]
    BY <2>0
  <2>2. stops' \in [Proc -> 0 .. MaxStops]
    BY <1>0, <1>20 DEF MigStops
  <2> QED BY <1>20, <2>1, <2>2, ReturnsFacts DEF MigStops
<1>21. CASE UNCHANGED vars
  BY <1>21 DEF vars
<1> QED
  BY <1>1, <1>2, <1>3, <1>4, <1>5, <1>6, <1>7, <1>8, <1>9, <1>10, <1>11,
     <1>12, <1>13, <1>14, <1>15, <1>16, <1>17, <1>18, <1>19, <1>20, <1>21
     DEF Next, SaveECDSA, SaveEd25519, SaveSingle, Store

LEMMA FileInvInit == Init => FileInv
BY DEF Init, FileInv, NoSave, NoMig

LEMMA FileInvStep ==
    ASSUME TypeInv, FileInv, [Next]_vars
    PROVE  FileInv'
<1> USE KeystoreAssumption, ContentsFacts DEF FileInv, Current
<1>0. /\ file \in [Path -> Contents] /\ tmp \in [Path -> Contents]
      /\ saver.pc # "idle" => saver.path \in Path /\ saver.task \in Task
      /\ deleter \in Path \union {NoPath}
      /\ mig \in [pc : {"idle", "read", "reread", "open", "write", "rename",
                        "done"},
                  todo : Seq(Path), payload : Contents]
      /\ saver \in [pc : {"idle", "open", "write", "mark"},
                    path : Path \union {NoPath},
                    task : Task \union {NoShare}]
      /\ mig.pc \in {"open", "write", "rename"} => mig.payload.task \in Task
  BY DEF TypeInv
<1>c. mig.pc \in {"reread", "open", "write", "rename"} => Current \in Path
  BY CurrentFacts DEF TypeInv
<1>1. ASSUME NEW pass \in Pass, LaunchMPCNode(pass) PROVE FileInv'
  BY <1>1 DEF LaunchMPCNode
<1>2. ASSUME NEW pass \in Pass, MigrateShardKeysDir(pass) PROVE FileInv'
  BY <1>0, <1>2 DEF MigrateShardKeysDir
<1>3. ASSUME NEW s \in Store, NEW t \in Task, NEW k \in Key, Save(s, t, k)
      PROVE  FileInv'
  BY <1>0, <1>3, PathFacts DEF Save, Fresh
<1>4. ASSUME NEW t \in Task, NEW k \in Key, DeleteLoad(t, k) PROVE FileInv'
  <2>1. Deletable(t, k) # NoPath => file[Deletable(t, k)].form = "enc"
    BY PathFacts DEF Deletable, Load, UnwrapCiphertext, Store
  <2> QED BY <1>0, <1>4, <2>1 DEF DeleteLoad
<1>5. CASE SaveOpen
  BY <1>0, <1>c, <1>5 DEF SaveOpen
<1>6. CASE SaveWrite
  <2>1. WrapPlaintext("node", saver.task).form = "enc"
    BY DEF WrapPlaintext
  <2> QED BY <1>0, <1>c, <1>6, <2>1 DEF SaveWrite
<1>7. CASE SaveFails
  BY <1>0, <1>c, <1>7 DEF SaveFails, NoSave
<1>8. CASE MarkPersisted
  BY <1>0, <1>8 DEF MarkPersisted, NoSave
<1>9. CASE Delete
  BY <1>0, <1>c, <1>9 DEF Delete
<1>10. CASE NodeStops
  BY <1>0, <1>c, <1>10 DEF NodeStops, NoSave
<1>11. CASE MigEnd
  BY <1>0, <1>11, ReturnsFacts DEF MigEnd
<1>12. CASE MigRead
  BY <1>0, <1>12 DEF MigRead
<1>13. CASE MigReread
  <2>1. CASE IsEncrypted(file[Current])
    BY <1>0, <1>13, <2>1 DEF MigReread
  <2>2. CASE ~IsEncrypted(file[Current])
    <3>1. Current \in Path /\ file[Current].form = "plain"
      BY <1>c, <1>13, <2>2 DEF MigReread
    <3>2. /\ mig'.pc = "open" /\ mig'.todo = mig.todo
          /\ mig'.payload = WrapPlaintext("migrate", file[Current].task)
      BY <1>0, <1>13, <2>2 DEF MigReread
    <3>3. mig'.payload.task = file[Current].task
      BY <3>2 DEF WrapPlaintext
    <3> QED BY <1>0, <1>13, <3>1, <3>2, <3>3 DEF MigReread
  <2> QED BY <2>1, <2>2
<1>14. CASE MigError
  BY <1>0, <1>14, ReturnsFacts DEF MigError
<1>15. CASE MigOpen
  BY <1>0, <1>c, <1>15 DEF MigOpen
<1>16. CASE MigWrite
  BY <1>0, <1>c, <1>16 DEF MigWrite
<1>17. CASE MigWriteFails
  BY <1>0, <1>17, ReturnsFacts DEF MigWriteFails
<1>18. CASE MigRename
  BY <1>0, <1>c, <1>18 DEF MigRename
<1>19. CASE MigRenameFails
  BY <1>0, <1>19, ReturnsFacts DEF MigRenameFails
<1>20. CASE MigStops
  BY <1>0, <1>20, ReturnsFacts DEF MigStops
<1>21. CASE UNCHANGED vars
  BY <1>21 DEF vars
<1> QED
  BY <1>1, <1>2, <1>3, <1>4, <1>5, <1>6, <1>7, <1>8, <1>9, <1>10, <1>11,
     <1>12, <1>13, <1>14, <1>15, <1>16, <1>17, <1>18, <1>19, <1>20, <1>21
     DEF Next, SaveECDSA, SaveEd25519, SaveSingle, Store

LEMMA MigrateInvInit == Init => MigrateInv
BY DEF Init, MigrateInv, NoMig

LEMMA MigrateInvStep ==
    ASSUME TypeInv, TypeInv', FileInv, MigrateInv, [Next]_vars
    PROVE  MigrateInv'
<1> USE ContentsFacts DEF MigrateInv
<1>0. /\ file \in [Path -> Contents] /\ tmp \in [Path -> Contents]
      /\ saver.pc # "idle" => saver.path \in Path /\ saver.task \in Task
      /\ mig \in [pc : {"idle", "read", "reread", "open", "write", "rename",
                        "done"},
                  todo : Seq(Path), payload : Contents]
  BY DEF TypeInv
<1>c. mig.pc \in {"reread", "open", "write", "rename"} => Current \in Path
  BY CurrentFacts DEF TypeInv
<1>1. ASSUME NEW pass \in Pass, LaunchMPCNode(pass) PROVE MigrateInv'
  BY <1>1 DEF LaunchMPCNode, ToDo
<1>2. ASSUME NEW pass \in Pass, MigrateShardKeysDir(pass) PROVE MigrateInv'
  <2>1. mig'.todo = Listed /\ mig'.pc = "read" /\ file' = file /\ tmp' = tmp
    BY <1>2 DEF MigrateShardKeysDir
  <2>2. \A p \in Path : file[p].form = "plain" => file[p] # Absent
    BY <1>0
  <2> QED BY <2>1, <2>2, ListedAll DEF ToDo
<1>3. ASSUME NEW s \in Store, NEW t \in Task, NEW k \in Key, Save(s, t, k)
      PROVE  MigrateInv'
  BY <1>3 DEF Save, ToDo
<1>4. ASSUME NEW t \in Task, NEW k \in Key, DeleteLoad(t, k)
      PROVE  MigrateInv'
  BY <1>4 DEF DeleteLoad, ToDo
<1>5. CASE SaveOpen
  BY <1>0, <1>5 DEF SaveOpen, ToDo, FileInv
<1>6. CASE SaveWrite
  <2>1. WrapPlaintext("node", saver.task).form = "enc"
    BY DEF WrapPlaintext
  <2> QED BY <1>0, <1>6, <2>1 DEF SaveWrite, ToDo, FileInv
<1>7. CASE SaveFails
  BY <1>0, <1>7 DEF SaveFails, ToDo, FileInv
<1>8. CASE MarkPersisted
  BY <1>8 DEF MarkPersisted, ToDo
<1>9. CASE Delete
  BY <1>0, <1>9 DEF Delete, ToDo, FileInv
<1>10. CASE NodeStops
  BY <1>0, <1>10 DEF NodeStops, ToDo, FileInv
<1>11. CASE MigEnd
  BY <1>0, <1>11, ReturnsFacts DEF MigEnd, ToDo, Here
<1>12. CASE MigRead
  <2>1. mig.todo # <<>> /\ mig.pc = "read"
    BY <1>12 DEF MigRead, Here
  <2>2. CASE IsEncrypted(file[Current])
    <3>1. mig'.todo = Tail(mig.todo) /\ mig'.pc = "read"
      BY <1>0, <1>12, <2>2 DEF MigRead
    <3>2. file[Current].form # "plain"
      BY <2>2 DEF IsEncrypted
    <3> QED BY <1>0, <1>12, <2>1, <3>1, <3>2, CurrentFacts
            DEF MigRead, ToDo
  <2>3. CASE ~IsEncrypted(file[Current])
    BY <1>0, <1>12, <2>1, <2>3 DEF MigRead, ToDo
  <2> QED BY <2>2, <2>3
<1>13. CASE MigReread
  <2>1. mig.todo # <<>> /\ mig.pc = "reread"
    BY <1>13 DEF MigReread, TypeInv
  <2>2. CASE IsEncrypted(file[Current])
    <3>1. mig'.todo = Tail(mig.todo) /\ mig'.pc = "read"
      BY <1>0, <1>13, <2>2 DEF MigReread
    <3>2. file[Current].form # "plain"
      BY <2>2 DEF IsEncrypted
    <3> QED BY <1>0, <1>13, <2>1, <3>1, <3>2, CurrentFacts
            DEF MigReread, ToDo
  <2>3. CASE ~IsEncrypted(file[Current])
    BY <1>0, <1>13, <2>1, <2>3 DEF MigReread, ToDo
  <2> QED BY <2>2, <2>3
<1>14. CASE MigError
  BY <1>0, <1>14, ReturnsFacts DEF MigError
<1>15. CASE MigOpen
  <2>1. /\ mig'.todo = mig.todo /\ mig'.pc = "write" /\ mig.pc = "open"
        /\ file' = file /\ tmp' = [tmp EXCEPT ![Current] = Empty]
    BY <1>0, <1>15 DEF MigOpen
  <2>2. file[Current].form = "plain"
    BY <1>0, <2>1 DEF FileInv, TypeInv
  <2> QED BY <1>0, <1>c, <2>1, <2>2 DEF ToDo
<1>16. CASE MigWrite
  <2>1. /\ mig'.todo = mig.todo /\ mig'.pc = "rename" /\ mig.pc = "write"
        /\ file' = file /\ tmp' = [tmp EXCEPT ![Current] = mig.payload]
    BY <1>0, <1>16 DEF MigWrite
  <2>2. file[Current].form = "plain"
    BY <1>0, <2>1 DEF FileInv, TypeInv
  <2> QED BY <1>0, <1>c, <2>1, <2>2 DEF ToDo
<1>17. CASE MigWriteFails
  <2>1. PICK c \in {Empty, Cut} : tmp' = [tmp EXCEPT ![Current] = c]
    BY <1>17 DEF MigWriteFails
  <2>2. mig'.pc = "idle" /\ file' = file /\ mig.pc = "write"
    BY <1>17, ReturnsFacts DEF MigWriteFails
  <2>3. file[Current].form = "plain"
    BY <1>0, <2>2 DEF FileInv, TypeInv
  <2> QED BY <1>0, <1>c, <2>1, <2>2, <2>3
<1>18. CASE MigRename
  <2>1. mig.todo # <<>> /\ mig.payload.form = "enc"
    BY <1>18 DEF MigRename, TypeInv
  <2>2. mig'.todo = Tail(mig.todo) /\ mig'.pc = "read" /\ mig.pc = "rename"
    BY <1>0, <1>18 DEF MigRename
  <2>3. file' = [file EXCEPT ![Current] = mig.payload]
    BY <1>18 DEF MigRename, FileInv
  <2> QED BY <1>0, <1>c, <1>18, <2>1, <2>2, <2>3, CurrentFacts
          DEF MigRename, ToDo
<1>19. CASE MigRenameFails
  BY <1>0, <1>c, <1>19, ReturnsFacts DEF MigRenameFails, FileInv
<1>20. CASE MigStops
  <2>1. PICK c \in {Empty, Cut} :
          tmp' = IF mig.pc = "write" THEN [tmp EXCEPT ![Current] = c] ELSE tmp
    BY <1>20 DEF MigStops
  <2>2. mig'.pc = "idle" /\ file' = file
    BY <1>20, ReturnsFacts DEF MigStops
  <2>3. mig.pc = "write" => file[Current].form = "plain"
    BY <1>0 DEF FileInv, TypeInv
  <2> QED BY <1>0, <1>c, <2>1, <2>2, <2>3
<1>21. CASE UNCHANGED vars
  BY <1>21 DEF vars, ToDo
<1> QED
  BY <1>1, <1>2, <1>3, <1>4, <1>5, <1>6, <1>7, <1>8, <1>9, <1>10, <1>11,
     <1>12, <1>13, <1>14, <1>15, <1>16, <1>17, <1>18, <1>19, <1>20, <1>21
     DEF Next, SaveECDSA, SaveEd25519, SaveSingle, Store
-----------------------------------------------------------------------------
(***************************************************************************)
(* The refinement.                                                         *)
(***************************************************************************)
\* What a path stores.
Share(c) == IF Whole(c) THEN c.task ELSE NoShare

LEMMA ShareFacts ==
    /\ \A p \in Path : stored[p] = Share(file[p])
    /\ \A c \in Contents : /\ Share(c) \in Task \union {NoShare}
                           /\ c.form \notin {"plain", "enc"} =>
                                Share(c) = NoShare
                           /\ c.form \in {"plain", "enc"} => Share(c) = c.task
<1> USE ContentsFacts
<1> QED BY DEF stored, Share, Whole

\* A step that leaves the share under every path alone stutters.
LEMMA SameShares ==
    ASSUME \A p \in Path : Share(file'[p]) = Share(file[p])
    PROVE  stored' = stored
BY DEF stored, Share, Whole

LEMMA InitRefines == Init => Shares!Init
<1> SUFFICES ASSUME Init PROVE Shares!Init
  OBVIOUS
<1>1. file \in [Path -> Contents] /\ deleted = {}
  BY TypeInvInit DEF Init, TypeInv
<1>2. stored = [p \in Path |-> Share(file[p])]
  BY DEF stored, Share, Whole
<1> QED BY <1>1, <1>2, ShareFacts DEF Shares!Init

\* The end of a save puts a share, the end of an abort removes one, and all
\* other steps of the node and of the migration stutter.
LEMMA StepRefines ==
    ASSUME TypeInv, FileInv, [Next]_vars
    PROVE  [Shares!Next]_(Shares!svars)
<1> USE KeystoreAssumption, ContentsFacts
<1>0. /\ file \in [Path -> Contents] /\ tmp \in [Path -> Contents]
      /\ saver.pc # "idle" => /\ saver.path \in Path /\ saver.task \in Task
                              /\ encKey["node"] \in Pass
      /\ mig.pc \in {"open", "write", "rename"} =>
           mig.payload \in Contents /\ mig.payload.form = "enc"
  BY DEF TypeInv, Proc
<1>c. mig.pc \in {"reread", "open", "write", "rename"} => Current \in Path
  BY CurrentFacts DEF TypeInv
<1>s. ASSUME \A p \in Path : Share(file'[p]) = Share(file[p]),
             deleted' = deleted
      PROVE  [Shares!Next]_(Shares!svars)
  BY <1>s, SameShares DEF Shares!svars
<1>1. CASE file' = file /\ deleted' = deleted
  BY <1>1, <1>s
<1>2. CASE SaveOpen
  BY <1>0, <1>2, <1>s, ShareFacts DEF SaveOpen, FileInv
<1>3. CASE SaveWrite
  <2> DEFINE p == saver.path
             c == WrapPlaintext("node", saver.task)
  <2>1. /\ p \in Path /\ p \notin deleted /\ file[p] = Empty
        /\ file' = [file EXCEPT ![p] = c] /\ deleted' = deleted
    BY <1>0, <1>3 DEF SaveWrite, FileInv
  <2>2. c \in Contents /\ c.form = "enc" /\ c.task = saver.task
    BY <1>0, <1>3, WrapFacts DEF SaveWrite, Proc
  <2>3. saver.task \in Task
    BY <1>0, <1>3 DEF SaveWrite
  <2> HIDE DEF c, p
  <2>4. /\ stored = [q \in Path |-> Share(file[q])]
        /\ stored' = [q \in Path |-> Share(file'[q])]
    BY DEF stored, Share, Whole
  <2>5. stored[p] = NoShare
    BY <2>1, ShareFacts
  <2>6. stored' = [stored EXCEPT ![p] = saver.task]
    BY <1>0, <2>1, <2>2, <2>4, ShareFacts
  <2>7. Shares!Put(p, saver.task)
    BY <2>1, <2>5, <2>6 DEF Shares!Put
  <2> QED BY <2>1, <2>3, <2>7 DEF Shares!Next
<1>4. CASE SaveFails
  <2>1. PICK c \in {Empty, Cut} : file' = [file EXCEPT ![saver.path] = c]
    BY <1>4 DEF SaveFails
  <2>2. deleted' = deleted /\ file[saver.path] = Empty
    BY <1>4 DEF SaveFails, FileInv
  <2> QED BY <1>0, <1>s, <2>1, <2>2, ShareFacts
<1>5. CASE Delete
  <2> DEFINE p == deleter
             t == file[p].task
  <2>1. /\ p \in Path /\ file[p].form = "enc"
        /\ file' = [file EXCEPT ![p] = Absent]
        /\ deleted' = deleted \union {p}
    BY <1>0, <1>5 DEF Delete, FileInv, TypeInv
  <2>2. t \in Task /\ stored[p] = t
    BY <1>0, <2>1, ShareFacts
  <2> HIDE DEF t, p
  <2>3. /\ stored = [q \in Path |-> Share(file[q])]
        /\ stored' = [q \in Path |-> Share(file'[q])]
    BY DEF stored, Share, Whole
  <2>4. stored' = [stored EXCEPT ![p] = NoShare]
    BY <1>0, <2>1, <2>3, ShareFacts
  <2>5. Shares!Remove(p, t)
    BY <2>1, <2>2, <2>4 DEF Shares!Remove
  <2> QED BY <2>1, <2>2, <2>5 DEF Shares!Next
<1>6. CASE NodeStops
  <2>1. PICK c \in {Empty, Cut} :
          file' = IF saver.pc = "write" THEN [file EXCEPT ![saver.path] = c]
                  ELSE file
    BY <1>6 DEF NodeStops
  <2>2. deleted' = deleted /\ (saver.pc = "write" => file[saver.path] = Empty)
    BY <1>6 DEF NodeStops, FileInv
  <2> QED BY <1>0, <1>s, <2>1, <2>2, ShareFacts
<1>7. CASE MigRename
  <2>1. /\ Current \in Path /\ deleted' = deleted
        /\ file' = [file EXCEPT ![Current] = mig.payload]
        /\ mig.payload \in Contents /\ mig.payload.form = "enc"
        /\ file[Current] = Plain(mig.payload.task)
    BY <1>0, <1>c, <1>7 DEF MigRename, FileInv
  <2> QED BY <1>0, <1>s, <2>1, ShareFacts
<1> QED
  BY <1>1, <1>2, <1>3, <1>4, <1>5, <1>6, <1>7
  DEF Next, vars, LaunchMPCNode, MigrateShardKeysDir, SaveECDSA, SaveEd25519,
      SaveSingle, Save, DeleteLoad, MarkPersisted, MigEnd, MigRead, MigReread,
      MigError, MigOpen, MigWrite, MigWriteFails, MigRenameFails, MigStops
-----------------------------------------------------------------------------
(***************************************************************************)
(* The theorems.                                                           *)
(***************************************************************************)
LEMMA InvCorrect == Spec => [](TypeInv /\ FileInv /\ MigrateInv)
<1>1. Init => TypeInv /\ FileInv /\ MigrateInv
  BY TypeInvInit, FileInvInit, MigrateInvInit
<1>2. TypeInv /\ FileInv /\ MigrateInv /\ [Next]_vars
        => (TypeInv /\ FileInv /\ MigrateInv)'
  BY TypeInvStep, FileInvStep, MigrateInvStep
<1> QED BY <1>1, <1>2, PTL DEF Spec

\* The state is well typed, nothing is written without a passphrase, and the
\* migration only ever writes what it has encrypted.
THEOREM TypeCorrect == Spec => []TypeOK
<1>1. TypeInv => TypeOK
  BY DEF TypeInv, TypeOK
<1> QED BY <1>1, InvCorrect, PTL

\* The directory of files implements the abstract store of shares, through
\* every interleaving of save, abort and migration and every crash.
THEOREM Refinement == Spec => ImplementsShareStore
<1>1. TypeInv /\ FileInv /\ [Next]_vars => [Shares!Next]_(Shares!svars)
  BY StepRefines
<1> QED BY <1>1, InitRefines, InvCorrect, PTL
        DEF Spec, ImplementsShareStore, Shares!Spec

\* A migration that reports success has left no plaintext share and no
\* temporary file.
THEOREM MigrationComplete == Spec => []MigratedAll
<1>1. TypeInv /\ MigrateInv => MigratedAll
  BY DEF MigrateInv, MigratedAll
<1> QED BY <1>1, InvCorrect, PTL
=============================================================================

---------------------------- MODULE KeygenTasks ----------------------------
(***************************************************************************)
(* The life of the keygen tasks of one MPC node: the mpcKeygenStart        *)
(* handlers and workers of internal/protocol/keygen.go, what they put on   *)
(* disk, what they tell the broker, and what an abort takes back           *)
(* (internal/protocol/task_abort.go:195-259).                              *)
(*                                                                         *)
(* A worker saves its share and then records the key in the session with   *)
(* two separate calls (ecdsa.go:168-171); an abort takes the record, closes*)
(* the session and deletes the share with three.  A step is one critical   *)
(* section or one call on the disk or the connection.                      *)
(*                                                                         *)
(* A handler stands for the session it creates and for the share its run   *)
(* saves: a run's key id is the hash of a fresh public key, so runs never  *)
(* write to the same file.                                                 *)
(*                                                                         *)
(* The temporary ML-KEM keys of internal/tempkey/tempkey.go are part of the*)
(* task's life: a Start is decrypted with the node's decapsulation key and *)
(* the run encrypts for its peers with theirs.  They are entries of a cache*)
(* shared by the handlers, workers and aborts of the task, and have a TTL. *)
(* The keys of the peers are put and removed together here.                *)
(***************************************************************************)
EXTENDS Naturals, FiniteSets

CONSTANTS
    Handler,      \* deliveries of mpcKeygenStart
    Aborter,      \* goroutines that serve pushes and the disconnect callback
    Task,
    TaskOf,       \* the task of each Start
    Single,       \* the Starts of single-node keys (isSingleKeygenStart)
    MaxAttempts,  \* attempts of submitKeygenResultWithRetry (3 in the code)
    MaxKeys,      \* bound: key pairs that the broker asks for, per task
    NoTask, NoSession

ASSUME KeygenConstants ==
    /\ TaskOf \in [Handler -> Task]
    /\ Single \in SUBSET Handler
    /\ Handler \intersect Aborter = {}
    /\ MaxAttempts \in Nat \ {0}
    /\ MaxKeys \in Nat
    /\ NoTask \notin Task
    /\ NoSession \notin Handler

VARIABLES
    abortedTasks,    \* tasks with an abort mark
    keygenActive,    \* keygen.go:176
    keygenSessions,  \* keygen.go:173, task -> registered session
    closed,          \* sessions whose recvCh is closed
    cancelled,       \* sessions whose abortCtx is cancelled
    persistedKey,    \* sessions that record a saved key (keygen.go:114)
    disk,            \* runs whose share file exists
    hpc,             \* handler: control point
    wpc,             \* worker: control point
    result,          \* worker: what it submits, "key" or "err"
    attempt,         \* worker: failed attempts to be tried again
    accepted,        \* runs whose key the broker has recorded
    acked,           \* runs whose key submission returned OK
    apc,             \* abortTaskSession: control point, per goroutine
    atask, asess,    \* its task and the session it found
    persisted,       \* goroutines that took the session's persisted key
    undeleted,       \* history: shares whose deletion an abort has failed at
    created,         \* key pairs created for a task; a pair is its number
    decapsKey,       \* keyCache: the task's decapsulation key, 0 if none
    peerKeys,        \* keyCache: tasks with their peers' public keys
    refreshKey       \* handler: what refreshPrivateKeyTTL has read

sessVars  == <<keygenSessions, closed, cancelled>>
workVars  == <<wpc, result, attempt>>
brokVars  == <<accepted, acked>>
abortVars == <<apc, atask, asess, persisted, undeleted>>
keyVars   == <<created, decapsKey, peerKeys, refreshKey>>
vars == <<abortedTasks, keygenActive, sessVars, persistedKey, disk, hpc,
          workVars, brokVars, abortVars, keyVars>>

Goroutine == Handler \union Aborter

\* The maps, sets and control points keep their types; a result is tried at
\* most MaxAttempts times (the loop of keygen.go:457-489).
TypeOK ==
    /\ abortedTasks \in SUBSET Task
    /\ keygenActive \in SUBSET Task
    /\ keygenSessions \in [Task -> Handler \union {NoSession}]
    /\ closed \in SUBSET Handler /\ cancelled \in SUBSET Handler
    /\ persistedKey \in SUBSET Handler /\ disk \in SUBSET Handler
    /\ hpc \in [Handler -> {"idle", "noted", "refresh", "put", "peers",
                            "stop1", "begin", "register", "stop3",
                            "aborting", "done"}]
    /\ wpc \in [Handler -> {"none", "run", "save", "mark", "recheck", "load",
                            "check", "send", "end", "unregister", "clear",
                            "clearPeers", "done"}]
    /\ result \in [Handler -> {"key", "err"}]
    /\ attempt \in [Handler -> 0 .. MaxAttempts - 1]
    /\ accepted \in SUBSET Handler /\ acked \in SUBSET Handler
    /\ apc \in [Goroutine -> {"ready", "mark", "lookup", "isClosed", "take",
                              "close", "unregister", "end", "clear",
                              "clearPeers", "delete"}]
    /\ atask \in [Goroutine -> Task \union {NoTask}]
    /\ asess \in [Goroutine -> Handler \union {NoSession}]
    /\ persisted \in SUBSET Goroutine
    /\ undeleted \in SUBSET Handler
    /\ created \in [Task -> 0 .. MaxKeys]
    /\ decapsKey \in [Task -> 0 .. MaxKeys]
    /\ peerKeys \in SUBSET Task
    /\ refreshKey \in [Handler -> 0 .. MaxKeys]

Init ==
    /\ abortedTasks = {} /\ keygenActive = {}
    /\ keygenSessions = [t \in Task |-> NoSession]
    /\ closed = {} /\ cancelled = {} /\ persistedKey = {} /\ disk = {}
    /\ hpc = [h \in Handler |-> "idle"]
    /\ wpc = [h \in Handler |-> "none"]
    /\ result = [h \in Handler |-> "err"]
    /\ attempt = [h \in Handler |-> 0]
    /\ accepted = {} /\ acked = {}
    /\ apc = [a \in Goroutine |-> "ready"]
    /\ atask = [a \in Goroutine |-> NoTask]
    /\ asess = [a \in Goroutine |-> NoSession]
    /\ persisted = {} /\ undeleted = {}
    /\ created = [t \in Task |-> 0]
    /\ decapsKey = [t \in Task |-> 0]
    /\ peerKeys = {}
    /\ refreshKey = [h \in Handler |-> 0]

Goto(h, pc)       == hpc' = [hpc EXCEPT ![h] = pc]
WorkerGoto(h, pc) == wpc' = [wpc EXCEPT ![h] = pc]
AbortGoto(a, pc)  == apc' = [apc EXCEPT ![a] = pc]
isTaskAborted(h)  == TaskOf[h] \in abortedTasks

BeginAbort(a, t) ==
    /\ AbortGoto(a, "mark")
    /\ atask' = [atask EXCEPT ![a] = t]
    /\ UNCHANGED <<asess, persisted, undeleted>>
-----------------------------------------------------------------------------
(***************************************************************************)
(* HandleKeygenStart.  The Start window (startingTasks) is the one of      *)
(* SignTasks and is not repeated here.                                     *)
(***************************************************************************)
HandlerRest == <<persistedKey, disk, brokVars, result, attempt, created>>
CacheVars   == <<decapsKey, peerKeys, refreshKey>>
HandlerSame == <<HandlerRest, abortedTasks, keygenActive, sessVars, wpc,
                 abortVars>>

\* DecapsKey finds a key and the Start decrypts with it; noteStartingTask.
HandlerNote(h) ==
    /\ hpc[h] = "idle" /\ decapsKey[TaskOf[h]] # 0
    /\ Goto(h, "noted")
    /\ UNCHANGED <<HandlerSame, CacheVars>>

\* The Start cannot be decrypted: the key is missing or another one.  Or the
\* task is aborted or expired, its key has expired since, or the keys of its
\* peers are not valid.
HandlerReject(h) ==
    /\ hpc[h] \in {"idle", "noted", "refresh", "put", "peers"}
    /\ Goto(h, "done")
    /\ UNCHANGED <<HandlerSame, CacheVars>>

HandlerAdmit(h) ==
    /\ hpc[h] = "noted" /\ ~isTaskAborted(h)
    /\ Goto(h, "refresh")
    /\ UNCHANGED <<HandlerSame, CacheVars>>

\* refreshPrivateKeyTTL reads the key and puts it back, for its TTL.
HandlerRefresh(h) ==
    /\ hpc[h] = "refresh" /\ decapsKey[TaskOf[h]] # 0
    /\ refreshKey' = [refreshKey EXCEPT ![h] = decapsKey[TaskOf[h]]]
    /\ Goto(h, "put")
    /\ UNCHANGED <<HandlerSame, decapsKey, peerKeys>>

HandlerPut(h) ==
    /\ hpc[h] = "put"
    /\ decapsKey' = [decapsKey EXCEPT ![TaskOf[h]] = refreshKey[h]]
    /\ refreshKey' = [refreshKey EXCEPT ![h] = 0]
    /\ Goto(h, "peers")
    /\ UNCHANGED <<HandlerSame, peerKeys>>

\* PutPeerPublicKey for every other node; the single path has none.
PutPeerPublicKey(h) ==
    /\ hpc[h] = "peers"
    /\ peerKeys' = peerKeys \union (IF h \in Single THEN {} ELSE {TaskOf[h]})
    /\ Goto(h, "stop1")
    /\ UNCHANGED <<HandlerSame, decapsKey, refreshKey>>

\* stopIfTaskAborted finds the mark.
HandlerStop(h) ==
    /\ hpc[h] \in {"stop1", "stop3"} /\ isTaskAborted(h)
    /\ BeginAbort(h, TaskOf[h])
    /\ Goto(h, "aborting")
    /\ UNCHANGED <<HandlerRest, abortedTasks, keygenActive, sessVars, wpc,
                   CacheVars>>

HandlerPass(h) ==
    /\ hpc[h] = "stop1" /\ ~isTaskAborted(h)
    /\ Goto(h, "begin")
    /\ UNCHANGED <<HandlerSame, CacheVars>>

\* A plausible bug: beginKeygenTask does not look for the task.
CanBeginAlways(t) == TRUE

\* beginKeygenTask's test: a Start that is delivered twice runs once.
CanBegin(t) == t \notin keygenActive

HandlerBegin(h) ==
    /\ hpc[h] = "begin"
    /\ keygenActive' = keygenActive \union {TaskOf[h]}
    /\ Goto(h, IF CanBegin(TaskOf[h]) THEN "register" ELSE "done")
    /\ UNCHANGED <<HandlerRest, abortedTasks, sessVars, wpc, abortVars,
                   CacheVars>>

\* registerKeygenSession closes the session it replaces.
HandlerRegister(h) ==
    /\ hpc[h] = "register"
    /\ closed' = closed \union ({keygenSessions[TaskOf[h]]} \ {NoSession, h})
    /\ keygenSessions' = [keygenSessions EXCEPT ![TaskOf[h]] = h]
    /\ Goto(h, "stop3")
    /\ UNCHANGED <<HandlerRest, abortedTasks, keygenActive, cancelled, wpc,
                   abortVars, CacheVars>>

\* A plausible bug: the abort mark is not read again after the registration.
MayStartUnchecked(h) == TRUE

\* stopIfTaskAborted after the registration.
MayStart(h) == ~isTaskAborted(h)

HandlerStartWorker(h) ==
    /\ hpc[h] = "stop3" /\ MayStart(h)
    /\ WorkerGoto(h, "run")
    /\ Goto(h, "done")
    /\ UNCHANGED <<HandlerRest, abortedTasks, keygenActive, sessVars,
                   abortVars, CacheVars>>

HandlerAborted(h) ==
    /\ hpc[h] = "aborting" /\ apc[h] = "ready"
    /\ Goto(h, "done")
    /\ UNCHANGED <<HandlerSame, CacheVars>>

HandlerStep(h) ==
    \/ HandlerNote(h)  \/ HandlerReject(h)   \/ HandlerAdmit(h)
    \/ HandlerRefresh(h) \/ HandlerPut(h)    \/ PutPeerPublicKey(h)
    \/ HandlerStop(h)  \/ HandlerPass(h)     \/ HandlerBegin(h)
    \/ HandlerRegister(h) \/ HandlerStartWorker(h) \/ HandlerAborted(h)
-----------------------------------------------------------------------------
(***************************************************************************)
(* The worker: runKeygenNodeECDSA, runKeygenNodeFROST or runSingleKeygen,  *)
(* then the submission of the result.                                      *)
(***************************************************************************)
Submit(h, r) ==
    /\ result' = [result EXCEPT ![h] = r]
    /\ attempt' = [attempt EXCEPT ![h] = 0]
    /\ WorkerGoto(h, "check")

\* The protocol ends with a share, or with an error or a cancelled context.
WorkerRun(h) ==
    /\ wpc[h] = "run"
    /\ \/ WorkerGoto(h, "save") /\ UNCHANGED <<result, attempt>>
       \/ Submit(h, "err")
    /\ UNCHANGED <<abortedTasks, keygenActive, sessVars, persistedKey, disk,
                   hpc, brokVars, abortVars, keyVars>>

\* store.Save, which may fail.
WorkerSave(h) ==
    /\ wpc[h] = "save"
    /\ \/ disk' = disk \union {h} /\ WorkerGoto(h, "mark")
          /\ UNCHANGED <<result, attempt>>
       \/ UNCHANGED disk /\ Submit(h, "err")
    /\ UNCHANGED <<abortedTasks, keygenActive, sessVars, persistedKey, hpc,
                   brokVars, abortVars, keyVars>>

\* markPersistedKey.
WorkerMark(h) ==
    /\ wpc[h] = "mark"
    /\ persistedKey' = persistedKey \union {h}
    /\ WorkerGoto(h, "recheck")
    /\ UNCHANGED <<abortedTasks, keygenActive, sessVars, disk, hpc, result,
                   attempt, brokVars, abortVars, keyVars>>

\* ctx.Err() (cancelled, or the 11 minute limit) and isTaskAborted.
WorkerRecheck(h) ==
    /\ wpc[h] = "recheck"
    /\ \/ /\ h \notin cancelled /\ ~isTaskAborted(h)
          /\ WorkerGoto(h, "load")
          /\ UNCHANGED <<result, attempt>>
       \/ Submit(h, "err")
    /\ UNCHANGED <<abortedTasks, keygenActive, sessVars, persistedKey, disk,
                   hpc, brokVars, abortVars, keyVars>>

\* The MPC paths read the share back for the result.
WorkerLoad(h) ==
    /\ wpc[h] = "load"
    /\ Submit(h, IF h \in disk \union Single THEN "key" ELSE "err")
    /\ UNCHANGED <<abortedTasks, keygenActive, sessVars, persistedKey, disk,
                   hpc, brokVars, abortVars, keyVars>>

\* submitKeygenResultWithRetry: no attempt for an aborted task.
WorkerCheck(h) ==
    /\ wpc[h] = "check"
    /\ WorkerGoto(h, IF isTaskAborted(h) THEN "end" ELSE "send")
    /\ UNCHANGED <<abortedTasks, keygenActive, sessVars, persistedKey, disk,
                   hpc, result, attempt, brokVars, abortVars, keyVars>>

\* The broker records the result and the node learns of it.
WorkerSendOK(h) ==
    /\ wpc[h] = "send"
    /\ IF result[h] = "key"
         THEN accepted' = accepted \union {h} /\ acked' = acked \union {h}
         ELSE UNCHANGED brokVars
    /\ WorkerGoto(h, "end")
    /\ UNCHANGED <<abortedTasks, keygenActive, sessVars, persistedKey, disk,
                   hpc, result, attempt, abortVars, keyVars>>

\* A plausible bug: the loop runs once more than it should.
MayRetryOnceMore(h) == attempt[h] < MaxAttempts

\* There is an attempt left after this one.
MayRetry(h) == attempt[h] + 1 < MaxAttempts

\* The attempt fails: the result or its answer is lost, or it is refused.
\* After the last attempt with a key an error is submitted instead.
WorkerSendFail(h) ==
    /\ wpc[h] = "send"
    /\ \/ UNCHANGED accepted
       \/ result[h] = "key" /\ accepted' = accepted \union {h}
    /\ \/ /\ MayRetry(h)
          /\ attempt' = [attempt EXCEPT ![h] = @ + 1]
          /\ WorkerGoto(h, "check")
          /\ UNCHANGED result
       \/ /\ ~MayRetry(h) /\ result[h] = "key"
          /\ Submit(h, "err")
       \/ /\ ~MayRetry(h) /\ result[h] = "err"
          /\ WorkerGoto(h, "end")
          /\ UNCHANGED <<result, attempt>>
    /\ UNCHANGED <<abortedTasks, keygenActive, sessVars, persistedKey, disk,
                   hpc, acked, abortVars, keyVars>>

\* The deferred endKeygenTask and unregisterKeygenSession.
WorkerEnd(h) ==
    /\ wpc[h] = "end"
    /\ keygenActive' = keygenActive \ {TaskOf[h]}
    /\ WorkerGoto(h, "unregister")
    /\ UNCHANGED <<abortedTasks, sessVars, persistedKey, disk, hpc, result,
                   attempt, brokVars, abortVars, keyVars>>

\* unregisterKeygenSession removes only its own session (keygen.go:236).
Unregistered(t, h) ==
    [keygenSessions EXCEPT ![t] = IF @ = h THEN NoSession ELSE @]

\* A plausible bug: the keys go whether or not the session was its own.
ClearsKeysAlways(h) == TRUE

\* The worker clears the keys if unregisterKeygenSession found its session.
ClearsKeys(h) == keygenSessions[TaskOf[h]] = h

\* The worker of a single key cancels its context last.
WorkerReturn(h) ==
    /\ cancelled' = cancelled \union (Single \intersect {h})
    /\ WorkerGoto(h, "done")

WorkerUnregister(h) ==
    /\ wpc[h] = "unregister"
    /\ keygenSessions' = Unregistered(TaskOf[h], h)
    /\ IF ClearsKeys(h)
         THEN WorkerGoto(h, "clear") /\ UNCHANGED cancelled
         ELSE WorkerReturn(h)
    /\ UNCHANGED <<abortedTasks, keygenActive, closed, persistedKey, disk,
                   hpc, result, attempt, brokVars, abortVars, keyVars>>

\* ClearKeygenSessionKeys removes the decapsulation key first.
ClearDecapsKey(t) ==
    /\ decapsKey' = [decapsKey EXCEPT ![t] = 0]
    /\ UNCHANGED <<created, peerKeys, refreshKey>>

\* A plausible bug: only the node's own key is removed.
ClearPeerKeysNot(t) == UNCHANGED keyVars

\* ClearKeygenSessionKeys, the loop over the nodes.
ClearPeerKeys(t) ==
    /\ peerKeys' = peerKeys \ {t}
    /\ UNCHANGED <<created, decapsKey, refreshKey>>

WorkerClear(h) ==
    /\ \/ wpc[h] = "clear" /\ ClearDecapsKey(TaskOf[h])
          /\ WorkerGoto(h, "clearPeers") /\ UNCHANGED cancelled
       \/ wpc[h] = "clearPeers" /\ ClearPeerKeys(TaskOf[h])
          /\ WorkerReturn(h)
    /\ UNCHANGED <<abortedTasks, keygenActive, keygenSessions, closed,
                   persistedKey, disk, hpc, result, attempt, brokVars,
                   abortVars>>

WorkerStep(h) ==
    \/ WorkerRun(h)    \/ WorkerSave(h)     \/ WorkerMark(h)
    \/ WorkerRecheck(h) \/ WorkerLoad(h)    \/ WorkerCheck(h)
    \/ WorkerSendOK(h) \/ WorkerSendFail(h) \/ WorkerEnd(h)
    \/ WorkerUnregister(h) \/ WorkerClear(h)
-----------------------------------------------------------------------------
(***************************************************************************)
(* abortTaskSession and abortKeygenSession.                                *)
(***************************************************************************)
AbortRest == <<hpc, workVars, brokVars, keyVars, undeleted>>

AbortReturn(a) ==
    /\ AbortGoto(a, "ready")
    /\ atask' = [atask EXCEPT ![a] = NoTask]
    /\ asess' = [asess EXCEPT ![a] = NoSession]
    /\ persisted' = persisted \ {a}

\* A push or the disconnect callback aborts a task.
AbortStart(a, t) ==
    /\ a \in Aborter /\ apc[a] = "ready"
    /\ BeginAbort(a, t)
    /\ UNCHANGED <<AbortRest, abortedTasks, keygenActive, sessVars,
                   persistedKey, disk>>

AbortMark(a) ==
    /\ apc[a] = "mark"
    /\ abortedTasks' = abortedTasks \union {atask[a]}
    /\ AbortGoto(a, "lookup")
    /\ UNCHANGED <<AbortRest, keygenActive, sessVars, persistedKey, disk,
                   atask, asess, persisted>>

AbortLookup(a) ==
    /\ apc[a] = "lookup"
    /\ IF keygenSessions[atask[a]] = NoSession
         THEN AbortReturn(a)
         ELSE /\ asess' = [asess EXCEPT ![a] = keygenSessions[atask[a]]]
              /\ AbortGoto(a, "isClosed")
              /\ UNCHANGED <<atask, persisted>>
    /\ UNCHANGED <<AbortRest, abortedTasks, keygenActive, sessVars,
                   persistedKey, disk>>

AbortIsClosed(a) ==
    /\ apc[a] = "isClosed"
    /\ IF asess[a] \in closed
         THEN AbortReturn(a)
         ELSE AbortGoto(a, "take") /\ UNCHANGED <<atask, asess, persisted>>
    /\ UNCHANGED <<AbortRest, abortedTasks, keygenActive, sessVars,
                   persistedKey, disk>>

\* abortCancel, then takePersistedKey.
AbortTake(a) ==
    /\ apc[a] = "take"
    /\ cancelled' = cancelled \union {asess[a]}
    /\ persisted' = IF asess[a] \in persistedKey THEN persisted \union {a}
                    ELSE persisted
    /\ persistedKey' = persistedKey \ {asess[a]}
    /\ AbortGoto(a, "close")
    /\ UNCHANGED <<AbortRest, abortedTasks, keygenActive, keygenSessions,
                   closed, disk, atask, asess>>

AbortClose(a) ==
    /\ apc[a] = "close"
    /\ closed' = closed \union {asess[a]}
    /\ AbortGoto(a, "unregister")
    /\ UNCHANGED <<AbortRest, abortedTasks, keygenActive, keygenSessions,
                   cancelled, persistedKey, disk, atask, asess, persisted>>

AbortUnregister(a) ==
    /\ apc[a] = "unregister"
    /\ keygenSessions' = Unregistered(atask[a], asess[a])
    /\ AbortGoto(a, "end")
    /\ UNCHANGED <<AbortRest, abortedTasks, keygenActive, closed, cancelled,
                   persistedKey, disk, atask, asess, persisted>>

\* A plausible bug: the aborted task stays active.
ActiveAfterAbortKept(t) == keygenActive

\* endKeygenTask.
ActiveAfterAbort(t) == keygenActive \ {t}

AbortEnd(a) ==
    /\ apc[a] = "end"
    /\ keygenActive' = ActiveAfterAbort(atask[a])
    /\ AbortGoto(a, "clear")
    /\ UNCHANGED <<AbortRest, abortedTasks, sessVars, persistedKey, disk,
                   atask, asess, persisted>>

AbortClear(a) ==
    /\ \/ apc[a] = "clear" /\ ClearDecapsKey(atask[a])
          /\ AbortGoto(a, "clearPeers")
       \/ apc[a] = "clearPeers" /\ ClearPeerKeys(atask[a])
          /\ AbortGoto(a, "delete")
    /\ UNCHANGED <<hpc, workVars, brokVars, abortedTasks, keygenActive,
                   sessVars, persistedKey, disk, atask, asess, persisted,
                   undeleted>>

\* A plausible bug: the record was cleared, so nothing is deleted.
DeletedNothing(a) == {}

\* deleteUnconfirmedKeygenShare for the key that was taken, if any.
Deleted(a) == IF a \in persisted THEN {asess[a]} ELSE {}

\* store.Load and store.Delete may fail; then the abort goes on, and no one
\* tries again, for the record is taken.
AbortDelete(a) ==
    /\ apc[a] = "delete"
    /\ \/ disk' = disk \ Deleted(a) /\ UNCHANGED undeleted
       \/ /\ a \in persisted
          /\ undeleted' = undeleted \union {asess[a]}
          /\ UNCHANGED disk
    /\ AbortReturn(a)
    /\ UNCHANGED <<hpc, workVars, brokVars, keyVars, abortedTasks,
                   keygenActive, sessVars, persistedKey>>

AbortStep(a) ==
    \/ AbortMark(a)  \/ AbortLookup(a)     \/ AbortIsClosed(a) \/ AbortTake(a)
    \/ AbortClose(a) \/ AbortUnregister(a) \/ AbortEnd(a)   \/ AbortClear(a)
    \/ AbortDelete(a)

-----------------------------------------------------------------------------
(***************************************************************************)
(* The cache of temporary keys.                                            *)
(***************************************************************************)
KeyRest == <<abortedTasks, keygenActive, sessVars, persistedKey, disk, hpc,
             workVars, brokVars, abortVars>>

\* HandleTempPublicKey puts a new key over the old one.  Its upload, with its
\* attempts, changes nothing here, and a failed one leaves the key.
HandleTempPublicKey(t) ==
    /\ created[t] < MaxKeys
    /\ created' = [created EXCEPT ![t] = @ + 1]
    /\ decapsKey' = [decapsKey EXCEPT ![t] = created[t] + 1]
    /\ UNCHANGED <<KeyRest, peerKeys, refreshKey>>

\* The handler has put the keys, and its run is not over.
KeysFresh(h) ==
    \/ hpc[h] \in {"peers", "stop1", "begin", "register", "stop3"}
    \/ wpc[h] = "run"

\* 900 s after they were put the keys are gone.  That is more than a run and
\* its Start take (11 minutes), so that no run's keys expire under it.
Expire(t) ==
    /\ \A h \in Handler : TaskOf[h] = t => ~KeysFresh(h)
    /\ \/ decapsKey[t] # 0 /\ ClearDecapsKey(t)
       \/ t \in peerKeys /\ ClearPeerKeys(t)
    /\ UNCHANGED KeyRest
-----------------------------------------------------------------------------
\* Every Start has been served: the node waits for more.
AllServed ==
    /\ \A h \in Handler : hpc[h] = "done" /\ wpc[h] \in {"none", "done"}
    /\ \A a \in Goroutine : apc[a] = "ready"
    /\ UNCHANGED vars

Next ==
    \/ \E h \in Handler : HandlerStep(h) \/ WorkerStep(h)
    \/ \E a \in Goroutine : AbortStep(a)
    \/ \E a \in Aborter, t \in Task : AbortStart(a, t)
    \/ \E t \in Task : HandleTempPublicKey(t) \/ Expire(t)
    \/ AllServed

Spec == Init /\ [][Next]_vars

\* Goroutines are scheduled, a protocol run ends by its context's limit and a
\* submission by its timeout.  Starts and aborts need not happen.
Fairness ==
    /\ \A h \in Handler : /\ WF_vars(hpc[h] # "idle" /\ HandlerStep(h))
                          /\ WF_vars(WorkerStep(h))
    /\ \A a \in Goroutine : WF_vars(AbortStep(a))

LiveSpec == Spec /\ Fairness
-----------------------------------------------------------------------------
(***************************************************************************)
(* Properties.                                                             *)
(***************************************************************************)
Working(h) == wpc[h] \in {"run", "save", "mark", "recheck", "load", "check",
                          "send"}

\* A Start that is delivered twice runs once: two runs of one task are never
\* under way together, unless the task is aborted, and the run that is under
\* way is the registered one.
OneRunPerTask ==
    \A h \in Handler : Working(h) /\ ~isTaskAborted(h) =>
        /\ keygenSessions[TaskOf[h]] = h
        /\ TaskOf[h] \in keygenActive
        /\ \A g \in Handler \ {h} : TaskOf[g] = TaskOf[h] => ~Working(g)

\* An abort cannot fall between Start's checks and the registration: the
\* run of an aborted task is cancelled, or a goroutine that aborts the task
\* will still find its session (task_abort.go:106-117, 297).
AbortReaches ==
    \A h \in Handler :
        wpc[h] \in {"run", "save", "mark", "recheck"} /\ isTaskAborted(h) =>
            \/ h \in cancelled
            \/ \E a \in Goroutine :
                 /\ atask[a] = TaskOf[h]
                 /\ \/ apc[a] = "lookup"
                    \/ apc[a] \in {"isClosed", "take"} /\ asess[a] = h

\* What a cancelled run may leave on disk.  The deletion is best effort
\* (task_abort.go:195, keystore.go:89), and once the run and its aborters are
\* finished a share is there for one of two reasons only: it was recorded after
\* the abort looked (the record is then still there), or the store has failed
\* when the abort deleted it.  No other order of the worker's save and record
\* and the abort's take and deletion leaves one.
CancelledRunCleansUp ==
    \A h \in Handler :
        /\ wpc[h] = "done" /\ h \in cancelled \ Single /\ h \in disk
        /\ \A a \in Goroutine : asess[a] # h
        => h \in persistedKey \union undeleted

\* A run has the keys it needs: the node's own and, unless it is single, those
\* of its peers.  Only a run of the same task that was over when this one
\* registered may take them away, or a key that the broker asked for again.
\* A worker that was replaced must not (keygen.go:601, 666).
RunHasKeys ==
    \A h \in Handler :
        LET t == TaskOf[h] IN
        wpc[h] = "run" /\ ~isTaskAborted(h) /\ created[t] = 1 =>
            \/ decapsKey[t] # 0 /\ (h \in Single \/ t \in peerKeys)
            \/ \E g \in Handler \ {h} :
                 /\ TaskOf[g] = t /\ g \notin closed
                 /\ wpc[g] \in {"clear", "clearPeers", "done"}

\* When the only Start of a task that was accepted has run, and no one is
\* aborting the task, its keys are gone, whoever ended the run
\* (keygen.go:601, 666, task_abort.go:251).
TempKeysCleared ==
    \A h \in Handler :
        LET t == TaskOf[h] IN
        /\ wpc[h] = "done" /\ created[t] = 1
        /\ \A g \in Handler \ {h} : TaskOf[g] = t => hpc[g] = "idle"
        /\ \A a \in Goroutine : atask[a] # t
        => decapsKey[t] = 0 /\ t \notin peerKeys

\* keystore.go:89: only an unconfirmed share is deleted.  A share whose key
\* the broker has acknowledged to this node stays on disk.
ConfirmedShareKept == \A h \in acked : h \in disk

\* A task that has begun ends, on every path, so that its id is not blocked
\* for good.
TaskEnds == \A t \in Task : t \in keygenActive ~> t \notin keygenActive
=============================================================================

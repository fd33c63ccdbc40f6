----------------------------- MODULE SignTasks -----------------------------
(***************************************************************************)
(* The life of the sign tasks of one MPC node: the mpcSignStart handlers   *)
(* (internal/protocol/sign.go), the workers they start, and the three ways *)
(* a task is aborted (internal/protocol/task_abort.go): a broker push, the *)
(* loss of the broker connection, and a handler that finds its own task    *)
(* already aborted.                                                        *)
(*                                                                         *)
(* Every handler runs in a goroutine of its own (internal/broker/client.go *)
(* 133-141), every worker in another one, pushes run on the connection's   *)
(* reader and the disconnect callback on its own goroutine.  A step of the *)
(* model is one critical section of the code.  The state is guarded by     *)
(* six different mutexes, so that what one section read may be stale in    *)
(* the next one.                                                           *)
(*                                                                         *)
(* A handler creates at most one session, so the handler stands for its    *)
(* session.  Protocol messages, temp keys and the material pool are left   *)
(* to other modules.                                                       *)
(***************************************************************************)
EXTENDS Naturals, FiniteSets

CONSTANTS
    Handler,      \* deliveries of mpcSignStart; several may carry one task
    Pusher,       \* goroutines that serve mpcTaskAbort pushes
    Disc,         \* goroutines that run the disconnect callback
    Task, Key,
    Lock,         \* keyID|participants, the domain of mpcKeySessionLocks
    TaskOf, KeyOf, LockOf, ModeOf,  \* the content of each Start message
    MaxPushes,    \* bound on the abort pushes
    MaxAttempts,  \* attempts of submitSignResultWithRetry (3 in the code)
    NoTask, NoKey, NoSession

Modes == {"single", "frost", "ecdsa", "warm"}

Aborter == Handler \union Pusher \union Disc

ASSUME StartAssumption ==
    /\ TaskOf \in [Handler -> Task]
    /\ KeyOf  \in [Handler -> Key]
    /\ LockOf \in [Handler -> Lock]
    /\ ModeOf \in [Handler -> Modes]
ASSUME NoneAssumption ==
    /\ NoTask \notin Task
    /\ NoKey \notin Key
    /\ NoSession \notin Handler
ASSUME ThreadAssumption ==
    /\ Handler \intersect Pusher = {}
    /\ Handler \intersect Disc = {}
    /\ Pusher \intersect Disc = {}
ASSUME BoundAssumption == MaxAttempts \in Nat \ {0} /\ MaxPushes \in Nat

VARIABLES
    startingTasks,  \* task_abort.go:72, tasks in their Start window
    abortedTasks,   \* task_abort.go:29
    signActive,     \* sign.go:494, task -> key
    signKeyActive,  \* sign.go:495, key -> task
    signSessions,   \* sign.go:491, task -> registered session
    closed,         \* sessions whose recvCh is closed
    cancelled,      \* sessions whose abortCtx is cancelled
    keyLock,        \* mpcKeySessionLocks: who holds the mutex
    warmCancels,    \* ecdsaWarmCancels: the warm a cancel would reach
    warmFns,        \* ecdsaWarmCancelFn: warms with a cancel function
    warmStopped,    \* warms whose cancel function was called
    hpc,            \* handler: control point
    busyTask, old,  \* handler: the task on its key, and that task's session
    wpc, attempt,   \* worker: control point, submit attempts made
    apc,            \* abortTaskSession: control point, per goroutine
    atask, asess,   \* its task and the session it found
    doGasp,         \* the goroutines that have a last gasp to send
    pushes,         \* abort pushes received
    dpc, seen,      \* disconnect callback: control point, tasks collected
    gasps,          \* last-gasp results sent since the task was marked
    stolen,         \* history: tasks whose slot a later task cleared
    uncovered,      \* history: handlers whose entry in startingTasks another
                    \* delivery of the task removed
    exposed         \* history: handlers alive when the callback began

registry == <<signActive, signKeyActive>>
warmReg  == <<warmCancels, warmFns, warmStopped>>
sessVars == <<signSessions, closed, cancelled>>
busyVars == <<busyTask, old>>
handVars == <<hpc, busyVars>>
abortVars == <<apc, atask, asess, doGasp>>
workVars == <<wpc, attempt, keyLock>>
discVars == <<pushes, dpc, seen, exposed>>
histVars == <<gasps, stolen, uncovered>>
shared   == <<startingTasks, abortedTasks, registry, sessVars, warmReg>>
vars == <<startingTasks, abortedTasks, registry, sessVars, warmReg, handVars,
          workVars, abortVars, discVars, histVars>>

HandlerPcs == {"idle", "noted", "stop1", "busy", "getBusy", "stale", "stop2",
               "begin", "register", "stop3", "aborting", "clear", "done"}
WorkerPcs  == {"none", "warm", "warmReg", "lock", "run", "warmEnd", "check",
               "send", "end", "unregister", "done"}
AbortPcs   == {"ready", "mark", "lookup", "isClosed", "cancel", "close",
               "unregister", "end", "gasp"}

\* The maps, sets and control points keep their types; a worker submits at
\* most MaxAttempts times (the loop of sign.go:111-154).
TypeOK ==
    /\ startingTasks \in SUBSET Task
    /\ abortedTasks \in SUBSET Task
    /\ signActive \in [Task -> Key \union {NoKey}]
    /\ signKeyActive \in [Key -> Task \union {NoTask}]
    /\ signSessions \in [Task -> Handler \union {NoSession}]
    /\ closed \in SUBSET Handler
    /\ cancelled \in SUBSET Handler
    /\ keyLock \in [Lock -> Handler \union {NoSession}]
    /\ warmCancels \in [Lock -> Handler \union {NoSession}]
    /\ warmFns \in SUBSET Handler
    /\ warmStopped \in SUBSET Handler
    /\ hpc \in [Handler -> HandlerPcs]
    /\ busyTask \in [Handler -> Task \union {NoTask}]
    /\ old \in [Handler -> Handler \union {NoSession}]
    /\ wpc \in [Handler -> WorkerPcs]
    /\ attempt \in [Handler -> 0 .. MaxAttempts]
    /\ apc \in [Aborter -> AbortPcs]
    /\ atask \in [Aborter -> Task \union {NoTask}]
    /\ asess \in [Aborter -> Handler \union {NoSession}]
    /\ doGasp \in SUBSET Aborter
    /\ pushes \in 0 .. MaxPushes
    /\ dpc \in [Disc -> {"idle", "sessions", "abort"}]
    /\ seen \in [Disc -> SUBSET Task]
    /\ gasps \in [Task -> Nat]
    /\ stolen \in SUBSET Task
    /\ uncovered \in SUBSET Handler
    /\ exposed \in [Disc -> SUBSET Handler]

Init ==
    /\ startingTasks = {} /\ abortedTasks = {}
    /\ signActive = [t \in Task |-> NoKey]
    /\ signKeyActive = [k \in Key |-> NoTask]
    /\ signSessions = [t \in Task |-> NoSession]
    /\ closed = {} /\ cancelled = {}
    /\ keyLock = [l \in Lock |-> NoSession]
    /\ warmCancels = [l \in Lock |-> NoSession]
    /\ warmFns = {} /\ warmStopped = {}
    /\ hpc = [h \in Handler |-> "idle"]
    /\ busyTask = [h \in Handler |-> NoTask]
    /\ old = [h \in Handler |-> NoSession]
    /\ wpc = [h \in Handler |-> "none"]
    /\ attempt = [h \in Handler |-> 0]
    /\ apc = [a \in Aborter |-> "ready"]
    /\ atask = [a \in Aborter |-> NoTask]
    /\ asess = [a \in Aborter |-> NoSession]
    /\ doGasp = {}
    /\ pushes = 0
    /\ dpc = [d \in Disc |-> "idle"]
    /\ seen = [d \in Disc |-> {}]
    /\ gasps = [t \in Task |-> 0]
    /\ stolen = {} /\ uncovered = {}
    /\ exposed = [d \in Disc |-> {}]
-----------------------------------------------------------------------------
(***************************************************************************)
(* The critical sections that handlers, workers and aborters share.        *)
(***************************************************************************)

\* A plausible bug: a Start of a task that is active already is let in.
CanBeginTwice(t, k) == signKeyActive[k] \in {NoTask, t}

CanBegin(t, k) == signActive[t] = NoKey /\ signKeyActive[k] \in {NoTask, t}

beginSignTask(t, k) ==
    /\ CanBegin(t, k)
    /\ signActive' = [signActive EXCEPT ![t] = k]
    /\ signKeyActive' = [signKeyActive EXCEPT ![k] = t]

\* A plausible bug: only the task is forgotten, the key stays taken.
endSignTaskKeepsKey(t) ==
    /\ signActive' = [signActive EXCEPT ![t] = NoKey]
    /\ UNCHANGED signKeyActive

endSignTask(t) ==
    /\ signActive' = [signActive EXCEPT ![t] = NoKey]
    /\ signKeyActive' =
         [k \in Key |-> IF signActive[t] = k /\ signKeyActive[k] = t
                          THEN NoTask ELSE signKeyActive[k]]

\* A plausible bug: whatever session is registered is dropped.
unregisterAny(t, s) ==
    signSessions' = [signSessions EXCEPT ![t] = NoSession]

unregisterSignSession(t, s) ==
    signSessions' = [signSessions EXCEPT ![t] = IF @ = s THEN NoSession ELSE @]

registerSignSession(t, s) ==
    /\ signSessions' = [signSessions EXCEPT ![t] = s]
    /\ closed' = closed \union ({signSessions[t]} \ {NoSession, s})

\* ecdsaWarmCancels and ecdsaWarmCancelFn, joined by the generation id
\* (the handler that registered).
cancelPriorEcdsaWarm(l) ==
    LET g == warmCancels[l] IN
    /\ warmStopped' = warmStopped \union ({g} \intersect warmFns)
    /\ warmFns' = warmFns \ {g}
    /\ warmCancels' = [warmCancels EXCEPT ![l] = NoSession]

registerEcdsaWarmCancel(l, h) ==
    /\ warmCancels' = [warmCancels EXCEPT ![l] = h]
    /\ warmFns' = warmFns \union {h}
    /\ UNCHANGED warmStopped

\* A plausible bug: nothing is removed once a newer warm has registered.
unregisterOnlyCurrent(l, h) ==
    /\ IF warmCancels[l] = h
         THEN /\ warmCancels' = [warmCancels EXCEPT ![l] = NoSession]
              /\ warmFns' = warmFns \ {h}
         ELSE UNCHANGED <<warmCancels, warmFns>>
    /\ UNCHANGED warmStopped

unregisterEcdsaWarmCancel(l, h) ==
    /\ warmCancels' = [warmCancels EXCEPT ![l] =
                         IF @ = h THEN NoSession ELSE @]
    /\ warmFns' = warmFns \ {h}
    /\ UNCHANGED warmStopped

\* abortTaskSession(taskID, lastGasp) begins in goroutine a.
BeginAbort(a, t, lastGasp) ==
    /\ apc' = [apc EXCEPT ![a] = "mark"]
    /\ atask' = [atask EXCEPT ![a] = t]
    /\ doGasp' = IF lastGasp THEN doGasp \union {a} ELSE doGasp
    /\ UNCHANGED asess
Goto(h, pc) == hpc' = [hpc EXCEPT ![h] = pc]
WorkerGoto(h, pc) == wpc' = [wpc EXCEPT ![h] = pc]
UsesAlice(h) == ModeOf[h] \in {"ecdsa", "warm"}

\* Handlers in their Start window.
InStart(h) == hpc[h] \notin {"idle", "aborting", "clear", "done"}
-----------------------------------------------------------------------------
(***************************************************************************)
(* HandleSignStart.                                                        *)
(***************************************************************************)

\* The Start is decrypted and parsed; the task enters its Start window.
HandlerNote(h) ==
    /\ hpc[h] = "idle"
    /\ startingTasks' = startingTasks \union {TaskOf[h]}
    /\ Goto(h, "noted")
    /\ UNCHANGED <<abortedTasks, registry, sessVars, warmReg, busyVars,
                   workVars, abortVars, discVars, histVars>>

\* The task has expired, a temp key cannot be stored, or the message is
\* malformed: an error is returned.
HandlerReject(h) ==
    /\ hpc[h] \in {"noted", "busy"}
    /\ Goto(h, "clear")
    /\ UNCHANGED <<shared, busyVars, workVars, abortVars, discVars, histVars>>

\* isTaskAborted, then the temp keys are refreshed and stored.
HandlerAdmit(h) ==
    /\ hpc[h] = "noted"
    /\ Goto(h, IF TaskOf[h] \in abortedTasks THEN "clear" ELSE "stop1")
    /\ UNCHANGED <<shared, busyVars, workVars, abortVars, discVars, histVars>>

\* stopIfTaskAborted finds the mark: the handler aborts its own task.
HandlerStop(h) ==
    /\ hpc[h] \in {"stop1", "stop2", "stop3"}
    /\ TaskOf[h] \in abortedTasks
    /\ BeginAbort(h, TaskOf[h], FALSE)
    /\ Goto(h, "aborting")
    /\ UNCHANGED <<shared, busyVars, workVars, discVars, histVars>>

\* stopIfTaskAborted before the session exists finds no mark.
HandlerPass(h) ==
    /\ hpc[h] \in {"stop1", "stop2"}
    /\ TaskOf[h] \notin abortedTasks
    /\ Goto(h, IF hpc[h] = "stop1" THEN "busy" ELSE "begin")
    /\ UNCHANGED <<shared, busyVars, workVars, abortVars, discVars, histVars>>

\* Only the MPC paths look for an abort again before beginSignTask.
BeforeBegin(h) == IF ModeOf[h] = "single" THEN "begin" ELSE "stop2"

\* activeSignTaskForKey.
HandlerBusy(h) ==
    /\ hpc[h] = "busy"
    /\ LET t == signKeyActive[KeyOf[h]] IN
       IF t \in {NoTask, TaskOf[h]}
         THEN /\ Goto(h, BeforeBegin(h))
              /\ UNCHANGED busyVars
         ELSE /\ Goto(h, "getBusy")
              /\ busyTask' = [busyTask EXCEPT ![h] = t]
              /\ UNCHANGED old
    /\ UNCHANGED <<shared, workVars, abortVars, discVars, histVars>>

\* getSignSession(busyTask).
HandlerGetBusy(h) ==
    /\ hpc[h] = "getBusy"
    /\ old' = [old EXCEPT ![h] = signSessions[busyTask[h]]]
    /\ UNCHANGED busyTask
    /\ Goto(h, "stale")
    /\ UNCHANGED <<shared, workVars, abortVars, discVars, histVars>>

\* The busy task's session is missing or closed: its slot is taken for a
\* stale one and cleared (a warm that the old session may have left is
\* cancelled, on the MPC path).
HandlerClearStale(h) ==
    /\ hpc[h] = "stale"
    /\ old[h] \in closed \union {NoSession}
    /\ IF /\ old[h] # NoSession
          /\ UsesAlice(old[h])
          /\ ModeOf[h] # "single"
         THEN cancelPriorEcdsaWarm(LockOf[old[h]])
         ELSE UNCHANGED warmReg
    /\ stolen' = IF signActive[busyTask[h]] # NoKey
                   THEN stolen \union {busyTask[h]} ELSE stolen
    /\ endSignTask(busyTask[h])
    /\ Goto(h, BeforeBegin(h))
    /\ busyTask' = [busyTask EXCEPT ![h] = NoTask]
    /\ old' = [old EXCEPT ![h] = NoSession]
    /\ UNCHANGED <<startingTasks, abortedTasks, sessVars, workVars, abortVars,
                   discVars, gasps, uncovered>>

\* The busy task is alive: a busy result is submitted and Start fails.
HandlerBusyReject(h) ==
    /\ hpc[h] = "stale"
    /\ old[h] \notin closed \union {NoSession}
    /\ Goto(h, "clear")
    /\ busyTask' = [busyTask EXCEPT ![h] = NoTask]
    /\ old' = [old EXCEPT ![h] = NoSession]
    /\ UNCHANGED <<shared, workVars, abortVars, discVars, histVars>>

HandlerBegin(h) ==
    /\ hpc[h] = "begin"
    /\ IF CanBegin(TaskOf[h], KeyOf[h])
         THEN beginSignTask(TaskOf[h], KeyOf[h]) /\ Goto(h, "register")
         ELSE UNCHANGED registry /\ Goto(h, "clear")
    /\ UNCHANGED <<startingTasks, abortedTasks, sessVars, warmReg, busyVars,
                   workVars, abortVars, discVars, histVars>>

HandlerRegister(h) ==
    /\ hpc[h] = "register"
    /\ registerSignSession(TaskOf[h], h)
    /\ Goto(h, "stop3")
    /\ UNCHANGED <<startingTasks, abortedTasks, registry, cancelled, warmReg,
                   busyVars, workVars, abortVars, discVars, histVars>>

\* A plausible bug: the abort mark is not read again after the registration.
MayStartUnchecked(h) == TRUE

MayStart(h) == TaskOf[h] \notin abortedTasks

\* stopIfTaskAborted after the registration finds no mark: the worker is
\* started and the handler returns.
HandlerStartWorker(h) ==
    /\ hpc[h] = "stop3"
    /\ MayStart(h)
    /\ WorkerGoto(h, CASE ModeOf[h] = "single" -> "run"
                       [] ModeOf[h] = "warm"   -> "warm"
                       [] OTHER                -> "lock")
    /\ Goto(h, "clear")
    /\ UNCHANGED <<shared, busyVars, attempt, keyLock, abortVars, discVars,
                   histVars>>

\* The handler returns from stopIfTaskAborted with an error.
HandlerAborted(h) ==
    /\ hpc[h] = "aborting"
    /\ apc[h] = "ready"
    /\ Goto(h, "clear")
    /\ UNCHANGED <<shared, busyVars, workVars, abortVars, discVars, histVars>>

\* The deferred clearStartingTask: startingTasks is a set without a count,
\* so that the other deliveries of the task lose their entry as well.
HandlerClear(h) ==
    /\ hpc[h] = "clear"
    /\ startingTasks' = startingTasks \ {TaskOf[h]}
    /\ uncovered' = uncovered \union
         {g \in Handler : TaskOf[g] = TaskOf[h] /\ InStart(g)}
    /\ Goto(h, "done")
    /\ UNCHANGED <<abortedTasks, registry, sessVars, warmReg, busyVars,
                   workVars, abortVars, discVars, gasps, stolen>>

HandlerStep(h) ==
    \/ HandlerNote(h)     \/ HandlerReject(h)     \/ HandlerAdmit(h)
    \/ HandlerStop(h)     \/ HandlerPass(h)       \/ HandlerBusy(h)
    \/ HandlerGetBusy(h)  \/ HandlerClearStale(h) \/ HandlerBusyReject(h)
    \/ HandlerBegin(h)    \/ HandlerRegister(h)   \/ HandlerStartWorker(h)
    \/ HandlerAborted(h)  \/ HandlerClear(h)
-----------------------------------------------------------------------------
(***************************************************************************)
(* The worker goroutine.                                                   *)
(***************************************************************************)
Env == <<startingTasks, abortedTasks, handVars, abortVars, discVars, histVars>>

\* runWarmRefreshNodeECDSA first cancels the warm registered before it.
WorkerCancelPrior(h) ==
    /\ wpc[h] = "warm"
    /\ cancelPriorEcdsaWarm(LockOf[h])
    /\ WorkerGoto(h, "warmReg")
    /\ UNCHANGED <<Env, registry, sessVars, attempt, keyLock>>

WorkerRegisterWarm(h) ==
    /\ wpc[h] = "warmReg"
    /\ registerEcdsaWarmCancel(LockOf[h], h)
    /\ WorkerGoto(h, "lock")
    /\ UNCHANGED <<Env, registry, sessVars, attempt, keyLock>>

\* lock.Lock() on mpcKeySessionLock: the wait does not watch the context.
WorkerLock(h) ==
    /\ wpc[h] = "lock"
    /\ keyLock[LockOf[h]] = NoSession
    /\ keyLock' = [keyLock EXCEPT ![LockOf[h]] = h]
    /\ WorkerGoto(h, "run")
    /\ UNCHANGED <<Env, registry, sessVars, warmReg, attempt>>

\* A sign whose path or number of participants is wrong fails before the
\* lock.
WorkerRefuse(h) ==
    /\ wpc[h] = "lock"
    /\ ModeOf[h] \in {"frost", "ecdsa"}
    /\ WorkerGoto(h, "check")
    /\ UNCHANGED <<Env, registry, sessVars, warmReg, attempt, keyLock>>

\* The protocol returns (a signature, an error, the context's end or its
\* 12 minute limit) and the deferred Unlock runs.  A failed run of a task
\* that is aborted, and a single sign that sees the abort, submit nothing.
WorkerFinish(h) ==
    /\ wpc[h] = "run"
    /\ keyLock' = IF ModeOf[h] = "single" THEN keyLock
                  ELSE [keyLock EXCEPT ![LockOf[h]] = NoSession]
    /\ WorkerGoto(h, IF ModeOf[h] = "warm" THEN "warmEnd" ELSE "check")
    /\ UNCHANGED <<Env, registry, sessVars, warmReg, attempt>>

WorkerUnregisterWarm(h) ==
    /\ wpc[h] = "warmEnd"
    /\ unregisterEcdsaWarmCancel(LockOf[h], h)
    /\ WorkerGoto(h, "check")
    /\ UNCHANGED <<Env, registry, sessVars, attempt, keyLock>>

\* submitSignResultWithRetry asks isTaskAborted before every attempt.
WorkerCheck(h) ==
    /\ wpc[h] = "check"
    /\ WorkerGoto(h, IF TaskOf[h] \in abortedTasks THEN "end" ELSE "send")
    /\ UNCHANGED <<Env, registry, sessVars, warmReg, attempt, keyLock>>

\* A plausible bug: the loop runs once more than it should.
MayRetryOnceMore(h) == attempt[h] < MaxAttempts

\* There is an attempt left after this one.
MayRetry(h) == attempt[h] + 1 < MaxAttempts

\* One attempt, answered OK or not.
WorkerSend(h) ==
    /\ wpc[h] = "send"
    /\ attempt' = [attempt EXCEPT ![h] = @ + 1]
    /\ \/ WorkerGoto(h, "end")
       \/ MayRetry(h) /\ WorkerGoto(h, "check")
    /\ UNCHANGED <<Env, registry, sessVars, warmReg, keyLock>>

WorkerEnd(h) ==
    /\ wpc[h] = "end"
    /\ endSignTask(TaskOf[h])
    /\ WorkerGoto(h, "unregister")
    /\ UNCHANGED <<Env, sessVars, warmReg, attempt, keyLock>>

\* The single path also cancels its context on the way out.
WorkerUnregister(h) ==
    /\ wpc[h] = "unregister"
    /\ unregisterSignSession(TaskOf[h], h)
    /\ cancelled' = IF ModeOf[h] = "single" THEN cancelled \union {h}
                    ELSE cancelled
    /\ WorkerGoto(h, "done")
    /\ UNCHANGED <<Env, registry, closed, warmReg, attempt, keyLock>>

WorkerStep(h) ==
    \/ WorkerCancelPrior(h) \/ WorkerRegisterWarm(h) \/ WorkerLock(h)
    \/ WorkerRefuse(h)      \/ WorkerFinish(h) \/ WorkerUnregisterWarm(h)
    \/ WorkerCheck(h)       \/ WorkerSend(h)
    \/ WorkerEnd(h)         \/ WorkerUnregister(h)
-----------------------------------------------------------------------------
(***************************************************************************)
(* abortTaskSession, run by goroutine a for the task atask[a].             *)
(***************************************************************************)
AbortGoto(a, pc) == apc' = [apc EXCEPT ![a] = pc]
AbortReturn(a) ==
    /\ AbortGoto(a, "ready")
    /\ atask' = [atask EXCEPT ![a] = NoTask]
    /\ asess' = [asess EXCEPT ![a] = NoSession]
    /\ doGasp' = doGasp \ {a}

\* A plausible bug: every caller believes it is the first to mark.
tryMarkAlwaysFirst(t) == TRUE

\* tryMarkTaskAborted: only the first to mark a task sends the last gasp.
tryMarkTaskAborted(t) == t \notin abortedTasks

AbortMark(a) ==
    /\ apc[a] = "mark"
    /\ abortedTasks' = abortedTasks \union {atask[a]}
    /\ doGasp' = IF tryMarkTaskAborted(atask[a]) THEN doGasp ELSE doGasp \ {a}
    /\ AbortGoto(a, "lookup")
    /\ UNCHANGED <<startingTasks, registry, sessVars, warmReg, handVars,
                   workVars, atask, asess, discVars, histVars>>

\* getSignSession.
AbortLookup(a) ==
    /\ apc[a] = "lookup"
    /\ LET s == signSessions[atask[a]] IN
         /\ asess' = [asess EXCEPT ![a] = s]
         /\ AbortGoto(a, IF s = NoSession THEN "gasp" ELSE "isClosed")
    /\ UNCHANGED <<shared, atask, doGasp, handVars, workVars, discVars,
                   histVars>>

\* abortSignSession leaves a session alone that is closed already.
AbortIsClosed(a) ==
    /\ apc[a] = "isClosed"
    /\ IF asess[a] \in closed
         THEN AbortReturn(a)
         ELSE AbortGoto(a, "cancel") /\ UNCHANGED <<atask, asess, doGasp>>
    /\ UNCHANGED <<shared, handVars, workVars, discVars, histVars>>

\* cancelPriorEcdsaWarm and abortCancel.
AbortCancel(a) ==
    /\ apc[a] = "cancel"
    /\ IF UsesAlice(asess[a])
         THEN cancelPriorEcdsaWarm(LockOf[asess[a]])
         ELSE UNCHANGED warmReg
    /\ cancelled' = cancelled \union {asess[a]}
    /\ AbortGoto(a, "close")
    /\ UNCHANGED <<atask, asess, doGasp, startingTasks, abortedTasks,
                   registry, signSessions, closed, handVars, workVars,
                   discVars, histVars>>

AbortClose(a) ==
    /\ apc[a] = "close"
    /\ closed' = closed \union {asess[a]}
    /\ AbortGoto(a, "unregister")
    /\ UNCHANGED <<atask, asess, doGasp, startingTasks, abortedTasks,
                   registry, signSessions, cancelled, warmReg, handVars,
                   workVars, discVars, histVars>>

AbortUnregister(a) ==
    /\ apc[a] = "unregister"
    /\ unregisterSignSession(atask[a], asess[a])
    /\ AbortGoto(a, "end")
    /\ UNCHANGED <<atask, asess, doGasp, startingTasks, abortedTasks,
                   registry, closed, cancelled, warmReg, handVars, workVars,
                   discVars, histVars>>

\* A plausible bug: the abort leaves the slot to the worker, also when no
\* worker was ever started.
AbortEndSkips(a) ==
    /\ apc[a] = "end"
    /\ AbortGoto(a, "gasp")
    /\ UNCHANGED <<atask, asess, doGasp, shared, handVars, workVars, discVars,
                   histVars>>

AbortEnd(a) ==
    /\ apc[a] = "end"
    /\ endSignTask(atask[a])
    /\ AbortGoto(a, "gasp")
    /\ UNCHANGED <<atask, asess, doGasp, startingTasks, abortedTasks,
                   sessVars, warmReg, handVars, workVars, discVars, histVars>>

\* The last-gasp result, on the connection that is being lost.
AbortGasp(a) ==
    /\ apc[a] = "gasp"
    /\ gasps' = [gasps EXCEPT ![atask[a]] =
                   IF a \in doGasp THEN @ + 1 ELSE @]
    /\ AbortReturn(a)
    /\ UNCHANGED <<shared, handVars, workVars, discVars, stolen, uncovered>>

AbortStep(a) ==
    \/ AbortMark(a)   \/ AbortLookup(a)     \/ AbortIsClosed(a)
    \/ AbortCancel(a) \/ AbortClose(a)      \/ AbortUnregister(a)
    \/ AbortEnd(a)    \/ AbortGasp(a)
-----------------------------------------------------------------------------
(***************************************************************************)
(* Who aborts: the broker's push (HandleMpcTaskAbort, and DeliverSignMsg   *)
(* when the decapsulation key is lost) and OnBrokerWsDisconnected.         *)
(***************************************************************************)
PushAbort(p, t) ==
    /\ pushes < MaxPushes
    /\ pushes' = pushes + 1
    /\ apc[p] = "ready"
    /\ BeginAbort(p, t, FALSE)
    /\ UNCHANGED <<shared, handVars, workVars, dpc, seen, exposed, histVars>>

\* Workers that still run the protocol or have a result to submit.
Working(h) == wpc[h] \in {"warm", "warmReg", "lock", "run", "warmEnd",
                          "check", "send"}

ListStarting == startingTasks
ListActiveSign == {t \in Task : signSessions[t] # NoSession}

\* The two lists of OnBrokerWsDisconnected, in the order they are taken.
\* A plausible bug takes them in the other one.
ScanOrderSwapped == <<ListActiveSign, ListStarting>>
ScanOrder == <<ListStarting, ListActiveSign>>

DiscStarting(d) ==
    /\ dpc[d] = "idle"
    /\ seen' = [seen EXCEPT ![d] = ScanOrder[1]]
    /\ exposed' = [exposed EXCEPT ![d] =
                     {h \in Handler : InStart(h) \/ Working(h)}]
    /\ dpc' = [dpc EXCEPT ![d] = "sessions"]
    /\ UNCHANGED <<shared, handVars, workVars, pushes, abortVars, histVars>>

DiscSessions(d) ==
    /\ dpc[d] = "sessions"
    /\ seen' = [seen EXCEPT ![d] = @ \union ScanOrder[2]]
    /\ dpc' = [dpc EXCEPT ![d] = "abort"]
    /\ UNCHANGED <<shared, handVars, workVars, pushes, abortVars, exposed,
                   histVars>>

DiscAbort(d) ==
    /\ dpc[d] = "abort" /\ apc[d] = "ready"
    /\ \E t \in seen[d] :
         /\ BeginAbort(d, t, TRUE)
         /\ seen' = [seen EXCEPT ![d] = @ \ {t}]
    /\ UNCHANGED <<shared, handVars, workVars, pushes, dpc, exposed,
                   histVars>>

DiscReturn(d) ==
    /\ dpc[d] = "abort" /\ apc[d] = "ready" /\ seen[d] = {}
    /\ dpc' = [dpc EXCEPT ![d] = "idle"]
    /\ exposed' = [exposed EXCEPT ![d] = {}]
    /\ UNCHANGED <<shared, handVars, workVars, pushes, abortVars, seen,
                   histVars>>

DiscStep(d) ==
    DiscStarting(d) \/ DiscSessions(d) \/ DiscAbort(d) \/ DiscReturn(d)

\* pruneAbortedTasksLocked forgets a mark after 15 minutes, longer than a
\* Start window, a protocol run (12 minutes) or an abort lasts: nothing of
\* the task is under way by then.
Quiet(t) ==
    /\ \A h \in Handler : TaskOf[h] = t =>
         hpc[h] \in {"idle", "done"} /\ wpc[h] \in {"none", "done"}
    /\ \A a \in Aborter : atask[a] # t
    /\ \A d \in Disc : t \notin seen[d]

PruneAborted(t) ==
    /\ t \in abortedTasks /\ Quiet(t)
    /\ abortedTasks' = abortedTasks \ {t}
    /\ gasps' = [gasps EXCEPT ![t] = 0]
    /\ UNCHANGED <<startingTasks, registry, sessVars, warmReg, handVars,
                   workVars, abortVars, discVars, stolen, uncovered>>

\* Every Start has been served: the node waits for more.
AllServed ==
    /\ \A h \in Handler : hpc[h] = "done" /\ wpc[h] \in {"none", "done"}
    /\ \A a \in Aborter : apc[a] = "ready"
    /\ UNCHANGED vars

Next ==
    \/ \E h \in Handler : HandlerStep(h) \/ WorkerStep(h)
    \/ \E a \in Aborter : AbortStep(a)
    \/ \E p \in Pusher, t \in Task : PushAbort(p, t)
    \/ \E d \in Disc : DiscStep(d)
    \/ \E t \in Task : PruneAborted(t)
    \/ AllServed

Spec == Init /\ [][Next]_vars

\* Goroutines are scheduled, every protocol run is bounded by its context,
\* every submit by its timeout, and sync.Mutex does not starve a waiter.
\* Starts, pushes and disconnects need not happen.
Fairness ==
    /\ \A h \in Handler : /\ WF_vars(hpc[h] # "idle" /\ HandlerStep(h))
                          /\ WF_vars(WorkerStep(h))
                          /\ SF_vars(WorkerLock(h))
    /\ \A a \in Aborter : WF_vars(AbortStep(a))
    /\ \A d \in Disc : WF_vars(dpc[d] # "idle" /\ DiscStep(d))

LiveSpec == Spec /\ Fairness
-----------------------------------------------------------------------------
(***************************************************************************)
(* Properties.                                                             *)
(***************************************************************************)
\* sign.go:494-495 keep one relation in two maps: a task is active on a key
\* exactly when the key is taken by the task.  In particular no key is
\* taken by two active tasks, whatever begins, ends and aborts interleave.
RegistryConsistent ==
    /\ \A t \in Task : signActive[t] # NoKey
         => signKeyActive[signActive[t]] = t
    /\ \A k \in Key : signKeyActive[k] # NoTask
         => signActive[signKeyActive[k]] = k

\* The abort has taken the task over, or a later Start cleared its slot.
Lost(h) == TaskOf[h] \in abortedTasks \union stolen

\* From beginSignTask until its result is submitted a task occupies the
\* slot of its key (no other goroutine ends it), unless it was aborted or
\* taken for stale.
LiveHoldsSlot ==
    \A h \in Handler :
        (hpc[h] \in {"register", "stop3"} \/ Working(h)) /\ ~Lost(h)
            => signActive[TaskOf[h]] = KeyOf[h]

\* A running worker's session is the one registered for its task, so that
\* messages and aborts find it: the late unregister of an earlier session
\* of the same task (sign.go:580) never removes it.
RunningIsRegistered ==
    \A h \in Handler :
        Working(h) /\ ~Lost(h) => signSessions[TaskOf[h]] = h

\* An abort cannot fall between Start's checks (task_abort.go:106-117,
\* 297): a worker of an aborted task has its context cancelled, or a
\* goroutine that aborts the task is still on its way to the session.
AbortReaches ==
    \A h \in Handler :
        /\ wpc[h] \in {"warm", "warmReg", "lock", "run"}
        /\ TaskOf[h] \in abortedTasks \ stolen
        => \/ h \in cancelled
           \/ \E a \in Aborter :
                /\ atask[a] = TaskOf[h]
                /\ \/ apc[a] = "lookup"
                   \/ apc[a] \in {"isClosed", "cancel"} /\ asess[a] = h

\* Of all goroutines that abort a task only one reports the last gasp
\* (doGasp, task_abort.go:306).
AtMostOneGasp == \A t \in Task : gasps[t] <= 1

\* What the disconnect callback must find: the task of a handler in its
\* Start window, or of a worker whose session no other one has replaced.
Found(d, h) ==
    InStart(h) \/ (Working(h) /\ h \notin closed) =>
        TaskOf[h] \in seen[d] \union abortedTasks \union {atask[d]}

\* The disconnect callback finds every task that was in its Start window or
\* at work when the callback began, if it still is.  There is one exception, a
\* Start whose entry another delivery of the task has removed and that has not
\* registered yet, although task_abort.go:68-69 demands it, too: startingTasks
\* has no count (task_abort.go:84-91).
DisconnectCovers ==
    \A d \in Disc : dpc[d] = "abort" =>
        \A h \in exposed[d] \ uncovered : Found(d, h)

\* The cancel functions kept for warms belong to warms that are still under
\* way: a finished one leaves nothing behind (ecdsa.go:59-66), also when a
\* newer warm has overwritten its entry.
WarmRegistryLive ==
    /\ \A g \in warmFns : wpc[g] \in {"lock", "run", "warmEnd"}
    /\ \A l \in Lock : warmCancels[l] # NoSession =>
         warmCancels[l] \in warmFns /\ LockOf[warmCancels[l]] = l

\* The slot a task holds is released in the end, on every path: completion,
\* failure, abort before or after the registration.
SlotReleased ==
    \A t \in Task : signActive[t] # NoKey ~> signActive[t] = NoKey
=============================================================================

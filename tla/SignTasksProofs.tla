-------------------------- MODULE SignTasksProofs --------------------------
(***************************************************************************)
(* Proofs about SignTasks, for every number of handlers, tasks, keys and   *)
(* goroutines that abort: its types, the agreement of the two maps that    *)
(* say which task is active on which key, who owns a task, and that an     *)
(* abort or a lost connection reaches it.                                  *)
(***************************************************************************)
EXTENDS SignTasks, TLAPS

\* A goroutine in the middle of an abort knows the task, and the session
\* once it has found one.
AbortOK ==
    \A a \in Aborter :
        /\ apc[a] # "ready" => atask[a] \in Task
        /\ apc[a] \in {"isClosed", "cancel", "close", "unregister", "end"}
             => asess[a] \in Handler

\* A handler that found its key busy knows the task that holds it.
BusyOK ==
    \A h \in Handler :
        hpc[h] \in {"getBusy", "stale"} => busyTask[h] \in Task

\* TypeOK alone is not inductive: the domains of atask, asess and busyTask
\* depend on control points, and so does the bound of attempt.
TypeInv == TypeOK /\ AbortOK /\ BusyOK

\* A worker that has not finished submitting has an attempt left; there is
\* no worker before the handler starts it.
AttemptOK ==
    \A h \in Handler :
        /\ wpc[h] \notin {"end", "unregister", "done"}
             => attempt[h] < MaxAttempts
        /\ hpc[h] \notin {"clear", "done"} => wpc[h] = "none"

\* A step of HandleSignStart keeps the types.
LEMMA HandlerType ==
    ASSUME TypeInv, NEW h \in Handler, HandlerStep(h)
    PROVE  TypeInv'
<1> USE StartAssumption, NoneAssumption, BoundAssumption
      DEF TypeInv, TypeOK, AbortOK, BusyOK, Aborter, HandlerPcs,
          WorkerPcs, AbortPcs, Modes, shared, registry, sessVars, warmReg,
          busyVars, handVars, abortVars, workVars, discVars, histVars
<1>1. CASE HandlerNote(h)
  BY <1>1 DEF HandlerNote, Goto
<1>2. CASE HandlerReject(h)
  BY <1>2 DEF HandlerReject, Goto
<1>3. CASE HandlerAdmit(h)
  BY <1>3 DEF HandlerAdmit, Goto
<1>4. CASE HandlerStop(h)
  BY <1>4 DEF HandlerStop, Goto, BeginAbort
<1>5. CASE HandlerPass(h)
  BY <1>5 DEF HandlerPass, Goto
<1>6. CASE HandlerBusy(h)
  <2>1. CASE signKeyActive[KeyOf[h]] \in {NoTask, TaskOf[h]}
    BY <1>6, <2>1, SMTT(30) DEF HandlerBusy, Goto, BeforeBegin
  <2>2. CASE signKeyActive[KeyOf[h]] \notin {NoTask, TaskOf[h]}
    <3>1. /\ signKeyActive[KeyOf[h]] \in Task
          /\ busyTask' = [busyTask EXCEPT ![h] = signKeyActive[KeyOf[h]]]
          /\ hpc' = [hpc EXCEPT ![h] = "getBusy"]
      BY <1>6, <2>2 DEF HandlerBusy, Goto
    <3>2. TypeOK'
      BY <1>6, <2>2, <3>1 DEF HandlerBusy
    <3>3. AbortOK' /\ BusyOK'
      BY <1>6, <2>2, <3>1 DEF HandlerBusy
    <3> QED BY <3>2, <3>3
  <2> QED BY <2>1, <2>2
<1>7. CASE HandlerGetBusy(h)
  BY <1>7 DEF HandlerGetBusy, Goto
<1>8. CASE HandlerClearStale(h)
  BY <1>8 DEF HandlerClearStale, Goto, BeforeBegin, endSignTask,
              cancelPriorEcdsaWarm
<1>9. CASE HandlerBusyReject(h)
  BY <1>9 DEF HandlerBusyReject, Goto
<1>10. CASE HandlerBegin(h)
  <2>1. CASE CanBegin(TaskOf[h], KeyOf[h])
    <3>0. /\ signActive' = [signActive EXCEPT ![TaskOf[h]] = KeyOf[h]]
          /\ signKeyActive' = [signKeyActive EXCEPT ![KeyOf[h]] = TaskOf[h]]
          /\ hpc' = [hpc EXCEPT ![h] = "register"]
      BY <1>10, <2>1, Zenon DEF HandlerBegin, beginSignTask, Goto
    <3>1. TypeOK'
      BY <1>10, <3>0 DEF HandlerBegin
    <3>2. AbortOK' /\ BusyOK'
      BY <1>10, <2>1 DEF HandlerBegin, Goto
    <3> HIDE DEF TypeOK, AbortOK, BusyOK
    <3> QED BY <3>1, <3>2 DEF TypeInv
  <2>2. CASE ~CanBegin(TaskOf[h], KeyOf[h])
    BY <1>10, <2>2 DEF HandlerBegin, Goto
  <2> QED BY <2>1, <2>2
<1>11. CASE HandlerRegister(h)
  BY <1>11 DEF HandlerRegister, Goto, registerSignSession
<1>12. CASE HandlerStartWorker(h)
  BY <1>12 DEF HandlerStartWorker, MayStart, Goto, WorkerGoto
<1>13. CASE HandlerAborted(h)
  BY <1>13 DEF HandlerAborted, Goto
<1>14. CASE HandlerClear(h)
  BY <1>14 DEF HandlerClear, Goto
<1> HIDE DEF TypeInv, TypeOK, AbortOK, BusyOK, Aborter, HandlerPcs,
             WorkerPcs, AbortPcs, Modes, shared, registry, sessVars, warmReg,
             busyVars, handVars, abortVars, workVars, discVars, histVars
<1> QED
  BY <1>1, <1>2, <1>3, <1>4, <1>5, <1>6, <1>7, <1>8, <1>9, <1>10, <1>11,
     <1>12, <1>13, <1>14 DEF HandlerStep

\* A step of a worker keeps the types.
LEMMA WorkerType ==
    ASSUME TypeInv, AttemptOK, NEW h \in Handler, WorkerStep(h)
    PROVE  TypeInv'
<1> USE StartAssumption, NoneAssumption, BoundAssumption
      DEF TypeInv, TypeOK, AbortOK, BusyOK, Aborter, HandlerPcs,
          WorkerPcs, AbortPcs, Modes, shared, registry, sessVars, warmReg,
          busyVars, handVars, abortVars, workVars, discVars, histVars, Env
<1>1. CASE WorkerCancelPrior(h)
  BY <1>1 DEF WorkerCancelPrior, WorkerGoto, cancelPriorEcdsaWarm
<1>2. CASE WorkerRegisterWarm(h)
  BY <1>2 DEF WorkerRegisterWarm, WorkerGoto, registerEcdsaWarmCancel
<1>3. CASE WorkerLock(h)
  BY <1>3 DEF WorkerLock, WorkerGoto
<1>4. CASE WorkerFinish(h)
  BY <1>4 DEF WorkerFinish, WorkerGoto
<1>5. CASE WorkerUnregisterWarm(h)
  BY <1>5 DEF WorkerUnregisterWarm, WorkerGoto, unregisterEcdsaWarmCancel
<1>6. CASE WorkerCheck(h)
  BY <1>6 DEF WorkerCheck, WorkerGoto
<1>7. CASE WorkerSend(h)
  BY <1>7, SMTT(30) DEF WorkerSend, MayRetry, WorkerGoto, AttemptOK
<1>8. CASE WorkerEnd(h)
  BY <1>8 DEF WorkerEnd, WorkerGoto, endSignTask
<1>9. CASE WorkerUnregister(h)
  BY <1>9 DEF WorkerUnregister, WorkerGoto, unregisterSignSession
<1>10. CASE WorkerRefuse(h)
  BY <1>10 DEF WorkerRefuse, WorkerGoto
<1> HIDE DEF TypeInv, TypeOK, AbortOK, BusyOK, Aborter, HandlerPcs,
             WorkerPcs, AbortPcs, Modes, shared, registry, sessVars, warmReg,
             busyVars, handVars, abortVars, workVars, discVars, histVars, Env
<1> QED
  BY <1>1, <1>2, <1>3, <1>4, <1>5, <1>6, <1>7, <1>8, <1>9, <1>10
     DEF WorkerStep

\* A step of abortTaskSession keeps the types.
LEMMA AbortType ==
    ASSUME TypeInv, NEW a \in Aborter, AbortStep(a)
    PROVE  TypeInv'
<1> USE StartAssumption, NoneAssumption, BoundAssumption
      DEF TypeInv, TypeOK, AbortOK, BusyOK, Aborter, HandlerPcs,
          WorkerPcs, AbortPcs, Modes, shared, registry, sessVars, warmReg,
          busyVars, handVars, abortVars, workVars, discVars, histVars
<1>1. CASE AbortMark(a)
  BY <1>1 DEF AbortMark, AbortGoto
<1>2. CASE AbortLookup(a)
  BY <1>2 DEF AbortLookup, AbortGoto
<1>3. CASE AbortIsClosed(a)
  <2>1. CASE asess[a] \in closed
    <3>1. /\ AbortReturn(a)
          /\ UNCHANGED <<shared, handVars, workVars, discVars, histVars>>
      BY <1>3, <2>1 DEF AbortIsClosed
    <3>2. TypeOK'
      BY <3>1 DEF AbortReturn, AbortGoto
    <3>3. AbortOK' /\ BusyOK'
      BY <3>1 DEF AbortReturn, AbortGoto
    <3> QED BY <3>2, <3>3
  <2>2. CASE asess[a] \notin closed
    BY <1>3, <2>2 DEF AbortIsClosed, AbortGoto
  <2> QED BY <2>1, <2>2
<1>4. CASE AbortCancel(a)
  BY <1>4, SMTT(30) DEF AbortCancel, AbortGoto, cancelPriorEcdsaWarm
<1>5. CASE AbortUnregister(a)
  BY <1>5 DEF AbortUnregister, AbortGoto, unregisterSignSession
<1>6. CASE AbortEnd(a)
  BY <1>6 DEF AbortEnd, AbortGoto, endSignTask
<1>7. CASE AbortGasp(a)
  BY <1>7 DEF AbortGasp, AbortReturn, AbortGoto
<1>8. CASE AbortClose(a)
  BY <1>8 DEF AbortClose, AbortGoto
<1> HIDE DEF TypeInv, TypeOK, AbortOK, BusyOK, Aborter, HandlerPcs,
             WorkerPcs, AbortPcs, Modes, shared, registry, sessVars, warmReg,
             busyVars, handVars, abortVars, workVars, discVars, histVars
<1> QED
  BY <1>1, <1>2, <1>3, <1>4, <1>5, <1>6, <1>7, <1>8 DEF AbortStep

\* A step of the disconnect callback keeps the types.
LEMMA DiscType ==
    ASSUME TypeInv, NEW d \in Disc, DiscStep(d)
    PROVE  TypeInv'
<1> USE StartAssumption, NoneAssumption, BoundAssumption
      DEF TypeInv, TypeOK, AbortOK, BusyOK, Aborter, HandlerPcs,
          WorkerPcs, AbortPcs, Modes, shared, registry, sessVars, warmReg,
          busyVars, handVars, abortVars, workVars, discVars, histVars
<1>1. CASE DiscStarting(d)
  BY <1>1 DEF DiscStarting, ScanOrder, ListStarting
<1>2. CASE DiscSessions(d)
  BY <1>2 DEF DiscSessions, ScanOrder, ListActiveSign
<1>3. CASE DiscAbort(d)
  BY <1>3 DEF DiscAbort, BeginAbort
<1>4. CASE DiscReturn(d)
  BY <1>4 DEF DiscReturn
<1> QED BY <1>1, <1>2, <1>3, <1>4 DEF DiscStep

\* Every step keeps the types, and a goroutine that is in the middle of an
\* abort or of the busy check has a task to work on.
LEMMA TypeStep ==
    ASSUME TypeInv, AttemptOK, [Next]_vars
    PROVE  TypeInv'
<1> USE DEF TypeInv
<1>1. CASE \E h \in Handler : HandlerStep(h) \/ WorkerStep(h)
  BY <1>1, HandlerType, WorkerType
<1>2. CASE \E a \in Aborter : AbortStep(a)
  BY <1>2, AbortType
<1>3. CASE \E p \in Pusher, t \in Task : PushAbort(p, t)
  BY <1>3, BoundAssumption
     DEF PushAbort, BeginAbort, TypeOK, AbortOK, BusyOK, Aborter, AbortPcs,
         shared, registry, sessVars, warmReg, busyVars, handVars, workVars,
         histVars
<1>4. CASE \E d \in Disc : DiscStep(d)
  BY <1>4, DiscType
<1>5. CASE \E t \in Task : PruneAborted(t)
  BY <1>5
     DEF PruneAborted, TypeOK, AbortOK, BusyOK, registry, sessVars, warmReg,
         busyVars, handVars, workVars, abortVars, discVars
<1>6. CASE UNCHANGED vars
  BY <1>6
     DEF vars, TypeOK, AbortOK, BusyOK, registry, sessVars, warmReg,
         busyVars, handVars, workVars, abortVars, discVars, histVars
<1> QED BY <1>1, <1>2, <1>3, <1>4, <1>5, <1>6 DEF Next, AllServed

\* Only WorkerSend counts an attempt, and it leaves the loop after the last.
LEMMA AttemptStep ==
    ASSUME TypeInv, AttemptOK, [Next]_vars
    PROVE  AttemptOK'
<1> USE DEF TypeInv, TypeOK, AttemptOK
<1>1. CASE UNCHANGED <<hpc, wpc, attempt>>
  BY <1>1
<1>2. ASSUME NEW h \in Handler, HandlerStep(h)
      PROVE  AttemptOK'
  <2>1. CASE HandlerStartWorker(h)
    BY <2>1 DEF HandlerStartWorker, WorkerGoto, Goto
  <2>2. CASE /\ UNCHANGED <<wpc, attempt>>
             /\ \E pc \in HandlerPcs :
                  /\ Goto(h, pc)
                  /\ hpc[h] \in {"clear", "done"} => pc = "done"
    BY <2>2 DEF Goto
  <2> QED
    BY <1>2, <2>1, <2>2
       DEF HandlerStep, workVars, HandlerNote, HandlerReject, HandlerAdmit,
           HandlerStop, HandlerPass, HandlerBusy, HandlerGetBusy,
           HandlerClearStale, HandlerBusyReject, HandlerBegin,
           HandlerRegister, HandlerAborted, HandlerClear, BeforeBegin,
           HandlerPcs
<1>3. ASSUME NEW h \in Handler, WorkerStep(h)
      PROVE  AttemptOK'
  <2>1. CASE WorkerSend(h)
    BY <1>3, <2>1, BoundAssumption
       DEF WorkerSend, MayRetry, WorkerGoto, Env, handVars
  <2>2. CASE /\ UNCHANGED <<hpc, attempt>>
             /\ wpc[h] # "none"
             /\ \E pc \in WorkerPcs :
                  /\ WorkerGoto(h, pc)
                  /\ wpc[h] \in {"end", "unregister", "done"}
                       => pc \in {"end", "unregister", "done"}
    BY <2>2 DEF WorkerGoto
  <2> QED
    BY <1>3, <2>1, <2>2
       DEF WorkerStep, WorkerCancelPrior, WorkerRegisterWarm, WorkerLock,
           WorkerRefuse, WorkerFinish, WorkerUnregisterWarm, WorkerCheck,
           WorkerEnd,
           WorkerUnregister, WorkerPcs, Env, handVars
<1>4. ASSUME NEW a \in Aborter, AbortStep(a)
      PROVE  UNCHANGED <<hpc, wpc, attempt>>
  BY <1>4
     DEF AbortStep, workVars, handVars, AbortMark, AbortLookup,
         AbortIsClosed, AbortCancel, AbortClose, AbortUnregister, AbortEnd,
         AbortGasp
<1>5. ASSUME NEW d \in Disc, DiscStep(d)
      PROVE  UNCHANGED <<hpc, wpc, attempt>>
  BY <1>5 DEF DiscStep, DiscStarting, DiscSessions, DiscAbort, DiscReturn,
              workVars, handVars
<1>6. CASE \E p \in Pusher, t \in Task : PushAbort(p, t)
  BY <1>6, <1>1 DEF PushAbort, workVars, handVars
<1>7. CASE \E t \in Task : PruneAborted(t)
  BY <1>7, <1>1 DEF PruneAborted, workVars, handVars
<1>8. CASE UNCHANGED vars
  BY <1>8, <1>1 DEF vars, workVars, handVars
<1> HIDE DEF TypeInv, TypeOK, AttemptOK
<1> QED
  BY <1>1, <1>2, <1>3, <1>4, <1>5, <1>6, <1>7, <1>8 DEF Next, AllServed

\* The type invariant of the sign task lifecycle, for every number of
\* handlers, tasks, keys and abort goroutines.
THEOREM TypeCorrect == Spec => []TypeOK
<1>1. Init => TypeInv /\ AttemptOK
  BY BoundAssumption
     DEF Init, TypeInv, TypeOK, AbortOK, BusyOK, AttemptOK, HandlerPcs,
         WorkerPcs,
         AbortPcs, Aborter
<1>2. TypeInv /\ AttemptOK /\ [Next]_vars => (TypeInv /\ AttemptOK)'
  BY TypeStep, AttemptStep
<1>3. TypeInv => TypeOK
  BY DEF TypeInv
<1> QED BY <1>1, <1>2, <1>3, PTL DEF Spec
-----------------------------------------------------------------------------
(***************************************************************************)
(* signActive and signKeyActive stay one relation.                         *)
(***************************************************************************)
\* beginSignTask takes a free task and a free key.
LEMMA BeginKeepsRegistry ==
    ASSUME TypeOK, RegistryConsistent, NEW t \in Task, NEW k \in Key,
           beginSignTask(t, k)
    PROVE  RegistryConsistent'
BY NoneAssumption DEF TypeOK, RegistryConsistent, beginSignTask, CanBegin

\* endSignTask frees the task together with its key, or nothing.
LEMMA EndKeepsRegistry ==
    ASSUME TypeOK, RegistryConsistent, NEW t \in Task, endSignTask(t)
    PROVE  RegistryConsistent'
BY NoneAssumption DEF TypeOK, RegistryConsistent, endSignTask

\* A step that leaves both maps alone keeps their agreement.
LEMMA UnchangedKeepsRegistry ==
    ASSUME RegistryConsistent, UNCHANGED registry
    PROVE  RegistryConsistent'
BY DEF RegistryConsistent, registry

\* Only beginSignTask and endSignTask write the two maps, and both keep
\* their agreement, whoever calls them.
LEMMA RegistryStep ==
    ASSUME TypeInv, RegistryConsistent, [Next]_vars
    PROVE  RegistryConsistent'
<1> USE DEF TypeInv
<1>1. ASSUME NEW h \in Handler, HandlerStep(h)
      PROVE  RegistryConsistent'
  <2>1. CASE HandlerClearStale(h)
    BY <2>1, EndKeepsRegistry DEF HandlerClearStale, BusyOK
  <2>2. CASE HandlerBegin(h)
    BY <2>2, StartAssumption, BeginKeepsRegistry, UnchangedKeepsRegistry
       DEF HandlerBegin
  <2>3. CASE UNCHANGED registry
    BY <2>3, UnchangedKeepsRegistry
  <2> QED
    BY <1>1, <2>1, <2>2, <2>3
       DEF HandlerStep, shared, HandlerNote, HandlerReject, HandlerAdmit,
           HandlerStop, HandlerPass, HandlerBusy, HandlerGetBusy,
           HandlerBusyReject, HandlerRegister, HandlerStartWorker,
           HandlerAborted, HandlerClear
<1>2. ASSUME NEW h \in Handler, WorkerStep(h)
      PROVE  RegistryConsistent'
  <2>1. CASE WorkerEnd(h)
    BY <2>1, StartAssumption, EndKeepsRegistry DEF WorkerEnd
  <2>2. CASE UNCHANGED registry
    BY <2>2, UnchangedKeepsRegistry
  <2> QED
    BY <1>2, <2>1, <2>2
       DEF WorkerStep, WorkerCancelPrior, WorkerRegisterWarm, WorkerLock,
           WorkerRefuse, WorkerFinish, WorkerUnregisterWarm, WorkerCheck,
           WorkerSend,
           WorkerUnregister
<1>3. ASSUME NEW a \in Aborter, AbortStep(a)
      PROVE  RegistryConsistent'
  <2>1. CASE AbortEnd(a)
    BY <2>1, EndKeepsRegistry DEF AbortEnd, AbortOK
  <2>2. CASE UNCHANGED registry
    BY <2>2, UnchangedKeepsRegistry
  <2> QED
    BY <1>3, <2>1, <2>2
       DEF AbortStep, shared, AbortMark, AbortLookup, AbortIsClosed,
           AbortCancel, AbortClose, AbortUnregister, AbortGasp
<1>4. CASE \E p \in Pusher, t \in Task : PushAbort(p, t)
  BY <1>4, UnchangedKeepsRegistry DEF PushAbort, shared
<1>5. CASE \E d \in Disc : DiscStep(d)
  BY <1>5, UnchangedKeepsRegistry
     DEF DiscStep, DiscStarting, DiscSessions, DiscAbort, DiscReturn, shared
<1>6. CASE \E t \in Task : PruneAborted(t)
  BY <1>6, UnchangedKeepsRegistry DEF PruneAborted
<1>7. CASE UNCHANGED vars
  BY <1>7, UnchangedKeepsRegistry DEF vars
<1> HIDE DEF TypeInv
<1> QED
  BY <1>1, <1>2, <1>3, <1>4, <1>5, <1>6, <1>7 DEF Next, AllServed

\* At most one task is active on a key, and the two maps agree, however
\* many Starts, workers and aborts interleave.
THEOREM RegistryCorrect == Spec => []RegistryConsistent
<1>1. Init => TypeInv /\ AttemptOK /\ RegistryConsistent
  BY BoundAssumption
     DEF Init, TypeInv, TypeOK, AbortOK, BusyOK, AttemptOK, HandlerPcs,
         WorkerPcs,
         AbortPcs, Aborter, RegistryConsistent
<1>2. TypeInv /\ AttemptOK /\ RegistryConsistent /\ [Next]_vars
        => (TypeInv /\ AttemptOK /\ RegistryConsistent)'
  BY TypeStep, AttemptStep, RegistryStep
<1> QED BY <1>1, <1>2, PTL DEF Spec
-----------------------------------------------------------------------------
(***************************************************************************)
(* Who owns a task.                                                        *)
(***************************************************************************)
\* The goroutine that aborts: what it knows once it has marked its task, has
\* found a session and has cancelled it.  A handler that aborts does nothing
\* else meanwhile.  Only a handler past its registration has a session.
Registered == {"stop3", "aborting", "clear", "done"}
CtlInv ==
    /\ \A a \in Aborter :
         /\ apc[a] = "ready" => atask[a] = NoTask
         /\ apc[a] \notin {"ready", "mark"} => atask[a] \in abortedTasks
         /\ apc[a] \in {"isClosed", "cancel", "close", "unregister", "end"}
              => TaskOf[asess[a]] = atask[a] /\ hpc[asess[a]] \in Registered
         /\ apc[a] \in {"close", "unregister", "end"}
              => asess[a] \in cancelled
    /\ \A h \in Handler : apc[h] # "ready" => hpc[h] = "aborting"
    /\ \A t \in Task : signSessions[t] # NoSession =>
         TaskOf[signSessions[t]] = t /\ hpc[signSessions[t]] \in Registered
    /\ \A h \in closed : hpc[h] \in Registered

\* From beginSignTask to endSignTask.
Owner(h) == hpc[h] \in {"register", "stop3"} \/ Working(h) \/ wpc[h] = "end"
Running(h) == wpc[h] \in {"warm", "warmReg", "lock", "run"}

\* Nothing has taken the task away yet: it is not marked, or the abort has
\* not come to the session.
Entitled(h) ==
    /\ TaskOf[h] \notin stolen
    /\ \/ Owner(h) /\ TaskOf[h] \notin abortedTasks
       \/ Running(h) /\ h \notin cancelled

\* An entitled owner holds the slot and is the only one of its task; once it
\* has registered it is found under its task; and an abort of the task that
\* has looked for the session has found this one.
OwnInv ==
    \A h \in Handler : Entitled(h) =>
        /\ signActive[TaskOf[h]] = KeyOf[h]
        /\ \A g \in Handler : TaskOf[g] = TaskOf[h] /\ Owner(g) => g = h
        /\ hpc[h] = "stop3" \/ Working(h) =>
             signSessions[TaskOf[h]] = h /\ h \notin closed
FoundInv ==
    \A h \in Handler, a \in Aborter :
        /\ Entitled(h) /\ Running(h) /\ atask[a] = TaskOf[h]
        /\ apc[a] \in {"isClosed", "cancel", "close", "unregister", "end"}
        => asess[a] = h

\* A worker of an aborted task that is still entitled to it: an abort is on
\* its way.
OnItsWay(a, h) ==
    /\ atask[a] = TaskOf[h]
    /\ \/ apc[a] = "lookup"
       \/ apc[a] \in {"isClosed", "cancel"} /\ asess[a] = h
ReachInv ==
    \A h \in Handler :
        Entitled(h) /\ Running(h) /\ TaskOf[h] \in abortedTasks =>
            \E a \in Aborter : OnItsWay(a, h)

\* The goroutine that has marked a task first is the only one with a last
\* gasp to send, and nobody has sent one.
Gasping(a) == a \in doGasp /\ apc[a] \notin {"ready", "mark"}
GaspInv ==
    /\ \A t \in Task : gasps[t] \in {0, 1}
    /\ \A t \in Task \ abortedTasks : gasps[t] = 0
    /\ \A a \in Aborter : Gasping(a) =>
         /\ gasps[atask[a]] = 0
         /\ \A b \in Aborter : Gasping(b) /\ atask[b] = atask[a] => b = a

\* Only warms have cancel functions.
WarmInv ==
    /\ WarmRegistryLive
    /\ \A h \in Handler : h \in warmFns \/ wpc[h] \in {"warm", "warmReg"}
         => ModeOf[h] = "warm"

\* Where the callback finds the tasks: under startingTasks, unless another
\* delivery removed the entry, and then under the session, unless another
\* session has replaced it.  Who was exposed and is not seen yet has moved to
\* the sessions, which are read second.
CoverInv ==
    /\ \A h \in Handler :
         /\ InStart(h) => TaskOf[h] \in startingTasks \/ h \in uncovered
         /\ /\ hpc[h] = "stop3" \/ Working(h)
            /\ TaskOf[h] \notin abortedTasks /\ h \notin closed
            => signSessions[TaskOf[h]] = h
    /\ \A d \in Disc : \A h \in exposed[d] \ uncovered :
         /\ hpc[h] # "idle"
         /\ dpc[d] = "sessions" /\ (InStart(h) \/ Working(h)) =>
              \/ TaskOf[h] \in seen[d] \union abortedTasks
              \/ Working(h) /\ ~InStart(h)
         /\ dpc[d] = "abort" => Found(d, h)

\* A mark stays while an abort of its task is under way, and an abort
\* works on a session of its own task.
LEMMA CtlInvStep ==
    ASSUME TypeInv, AttemptOK, CtlInv, [Next]_vars
    PROVE  CtlInv'
<1> USE StartAssumption, NoneAssumption
      DEF CtlInv, Registered, TypeInv, TypeOK, AbortOK, AttemptOK, Aborter,
         shared, registry, sessVars, warmReg, busyVars, handVars, abortVars,
         workVars, discVars, histVars, Env
<1>1. ASSUME NEW h \in Handler, HandlerNote(h) PROVE CtlInv'
  BY <1>1 DEF HandlerNote, Goto
<1>2. ASSUME NEW h \in Handler, HandlerReject(h) PROVE CtlInv'
  BY <1>2 DEF HandlerReject, Goto
<1>3. ASSUME NEW h \in Handler, HandlerAdmit(h) PROVE CtlInv'
  BY <1>3 DEF HandlerAdmit, Goto
<1>4. ASSUME NEW h \in Handler, HandlerStop(h) PROVE CtlInv'
  BY <1>4 DEF HandlerStop, Goto, BeginAbort
<1>5. ASSUME NEW h \in Handler, HandlerPass(h) PROVE CtlInv'
  BY <1>5 DEF HandlerPass, Goto
<1>6. ASSUME NEW h \in Handler, HandlerBusy(h) PROVE CtlInv'
  <2>1. PICK pc \in {"begin", "stop2", "getBusy"} :
          hpc[h] = "busy" /\ hpc' = [hpc EXCEPT ![h] = pc]
    BY <1>6 DEF HandlerBusy, Goto, BeforeBegin
  <2> QED BY <1>6, <2>1 DEF HandlerBusy
<1>7. ASSUME NEW h \in Handler, HandlerGetBusy(h) PROVE CtlInv'
  BY <1>7 DEF HandlerGetBusy, Goto
<1>8. ASSUME NEW h \in Handler, HandlerClearStale(h) PROVE CtlInv'
  BY <1>8 DEF HandlerClearStale, Goto, BeforeBegin, endSignTask,
     cancelPriorEcdsaWarm
<1>9. ASSUME NEW h \in Handler, HandlerBusyReject(h) PROVE CtlInv'
  BY <1>9 DEF HandlerBusyReject, Goto
<1>10. ASSUME NEW h \in Handler, HandlerBegin(h) PROVE CtlInv'
  BY <1>10, SMTT(30) DEF HandlerBegin, Goto, CanBegin, beginSignTask
<1>11. ASSUME NEW h \in Handler, HandlerRegister(h) PROVE CtlInv'
  BY <1>11 DEF HandlerRegister, Goto, registerSignSession
<1>12. ASSUME NEW h \in Handler, HandlerStartWorker(h) PROVE CtlInv'
  BY <1>12 DEF HandlerStartWorker, Goto, WorkerGoto, MayStart
<1>13. ASSUME NEW h \in Handler, HandlerAborted(h) PROVE CtlInv'
  BY <1>13 DEF HandlerAborted, Goto
<1>14. ASSUME NEW h \in Handler, HandlerClear(h) PROVE CtlInv'
  BY <1>14 DEF HandlerClear, Goto
<1>15. ASSUME NEW h \in Handler, WorkerCancelPrior(h) PROVE CtlInv'
  BY <1>15 DEF WorkerCancelPrior, WorkerGoto, cancelPriorEcdsaWarm
<1>16. ASSUME NEW h \in Handler, WorkerRegisterWarm(h) PROVE CtlInv'
  BY <1>16 DEF WorkerRegisterWarm, WorkerGoto, registerEcdsaWarmCancel
<1>17. ASSUME NEW h \in Handler, WorkerLock(h) PROVE CtlInv'
  BY <1>17 DEF WorkerLock, WorkerGoto
<1>18. ASSUME NEW h \in Handler, WorkerRefuse(h) PROVE CtlInv'
  BY <1>18 DEF WorkerRefuse, WorkerGoto
<1>19. ASSUME NEW h \in Handler, WorkerFinish(h) PROVE CtlInv'
  BY <1>19 DEF WorkerFinish, WorkerGoto
<1>20. ASSUME NEW h \in Handler, WorkerUnregisterWarm(h) PROVE CtlInv'
  BY <1>20 DEF WorkerUnregisterWarm, WorkerGoto, unregisterEcdsaWarmCancel
<1>21. ASSUME NEW h \in Handler, WorkerCheck(h) PROVE CtlInv'
  BY <1>21 DEF WorkerCheck, WorkerGoto
<1>22. ASSUME NEW h \in Handler, WorkerSend(h) PROVE CtlInv'
  BY <1>22 DEF WorkerSend, WorkerGoto
<1>23. ASSUME NEW h \in Handler, WorkerEnd(h) PROVE CtlInv'
  BY <1>23 DEF WorkerEnd, WorkerGoto, endSignTask
<1>24. ASSUME NEW h \in Handler, WorkerUnregister(h) PROVE CtlInv'
  BY <1>24 DEF WorkerUnregister, WorkerGoto, unregisterSignSession
<1>25. ASSUME NEW a \in Aborter, AbortMark(a) PROVE CtlInv'
  BY <1>25 DEF AbortMark, AbortGoto, tryMarkTaskAborted
<1>26. ASSUME NEW a \in Aborter, AbortLookup(a) PROVE CtlInv'
  BY <1>26 DEF AbortLookup, AbortGoto
<1>27. ASSUME NEW a \in Aborter, AbortIsClosed(a) PROVE CtlInv'
  <2>1. CASE asess[a] \in closed
    BY <1>27, <2>1 DEF AbortIsClosed, AbortGoto, AbortReturn
  <2>2. CASE asess[a] \notin closed
    BY <1>27, <2>2 DEF AbortIsClosed, AbortGoto
  <2> QED BY <2>1, <2>2
<1>28. ASSUME NEW a \in Aborter, AbortCancel(a) PROVE CtlInv'
  BY <1>28 DEF AbortCancel, AbortGoto, cancelPriorEcdsaWarm
<1>29. ASSUME NEW a \in Aborter, AbortClose(a) PROVE CtlInv'
  BY <1>29 DEF AbortClose, AbortGoto
<1>30. ASSUME NEW a \in Aborter, AbortUnregister(a) PROVE CtlInv'
  BY <1>30 DEF AbortUnregister, AbortGoto, unregisterSignSession
<1>31. ASSUME NEW a \in Aborter, AbortEnd(a) PROVE CtlInv'
  BY <1>31 DEF AbortEnd, AbortGoto, endSignTask
<1>32. ASSUME NEW a \in Aborter, AbortGasp(a) PROVE CtlInv'
  BY <1>32 DEF AbortGasp, AbortGoto, AbortReturn
<1>33. ASSUME NEW p \in Pusher, NEW t \in Task, PushAbort(p, t) PROVE CtlInv'
  BY <1>33, ThreadAssumption DEF PushAbort, BeginAbort
<1>34. ASSUME NEW d \in Disc, DiscStarting(d) PROVE CtlInv'
  BY <1>34 DEF DiscStarting, ScanOrder, ListStarting
<1>35. ASSUME NEW d \in Disc, DiscSessions(d) PROVE CtlInv'
  BY <1>35 DEF DiscSessions, ScanOrder, ListActiveSign
<1>36. ASSUME NEW d \in Disc, DiscAbort(d) PROVE CtlInv'
  BY <1>36, ThreadAssumption DEF DiscAbort, BeginAbort
<1>37. ASSUME NEW d \in Disc, DiscReturn(d) PROVE CtlInv'
  BY <1>37 DEF DiscReturn
<1>38. ASSUME NEW t \in Task, PruneAborted(t) PROVE CtlInv'
  BY <1>38 DEF PruneAborted, Quiet
<1>39. CASE UNCHANGED vars
  BY <1>39 DEF vars
<1> HIDE DEF CtlInv, Registered, TypeInv, TypeOK, AbortOK, AttemptOK,
             Aborter, shared, registry, sessVars, warmReg, busyVars,
             handVars, abortVars, workVars, discVars, histVars, Env
<1> QED
  BY <1>1, <1>2, <1>3, <1>4, <1>5, <1>6, <1>7, <1>8, <1>9, <1>10, <1>11,
     <1>12, <1>13, <1>14, <1>15, <1>16, <1>17, <1>18, <1>19, <1>20, <1>21,
     <1>22, <1>23, <1>24, <1>25, <1>26, <1>27, <1>28, <1>29, <1>30, <1>31,
     <1>32, <1>33, <1>34, <1>35, <1>36, <1>37, <1>38, <1>39
     DEF Next, HandlerStep, WorkerStep, AbortStep, DiscStep, AllServed

\* beginSignTask lets no second Start in while the first one holds the
\* slot; endSignTask is only called for a task that its caller owns, that
\* is aborted, or that is taken for stale.
LEMMA OwnInvStep ==
    ASSUME TypeInv, AttemptOK, CtlInv, OwnInv, FoundInv, [Next]_vars
    PROVE  OwnInv'
<1> USE StartAssumption, NoneAssumption
      DEF CtlInv, OwnInv, FoundInv, Entitled, Owner, Working, Running,
         TypeInv, TypeOK, AbortOK, AttemptOK, Aborter, shared, registry,
         sessVars, warmReg, busyVars, handVars, abortVars, workVars,
         discVars, histVars, Env
<1>1. ASSUME NEW h \in Handler, HandlerNote(h) PROVE OwnInv'
  BY <1>1 DEF HandlerNote, Goto
<1>2. ASSUME NEW h \in Handler, HandlerReject(h) PROVE OwnInv'
  BY <1>2 DEF HandlerReject, Goto
<1>3. ASSUME NEW h \in Handler, HandlerAdmit(h) PROVE OwnInv'
  BY <1>3 DEF HandlerAdmit, Goto
<1>4. ASSUME NEW h \in Handler, HandlerStop(h) PROVE OwnInv'
  BY <1>4 DEF HandlerStop, Goto, BeginAbort
<1>5. ASSUME NEW h \in Handler, HandlerPass(h) PROVE OwnInv'
  BY <1>5 DEF HandlerPass, Goto
<1>6. ASSUME NEW h \in Handler, HandlerBusy(h) PROVE OwnInv'
  BY <1>6 DEF HandlerBusy, Goto, BeforeBegin
<1>7. ASSUME NEW h \in Handler, HandlerGetBusy(h) PROVE OwnInv'
  BY <1>7 DEF HandlerGetBusy, Goto
<1>8. ASSUME NEW h \in Handler, HandlerClearStale(h) PROVE OwnInv'
  BY <1>8 DEF HandlerClearStale, Goto, BeforeBegin, endSignTask,
     cancelPriorEcdsaWarm
<1>9. ASSUME NEW h \in Handler, HandlerBusyReject(h) PROVE OwnInv'
  BY <1>9 DEF HandlerBusyReject, Goto
<1>10. ASSUME NEW h \in Handler, HandlerBegin(h) PROVE OwnInv'
  BY <1>10 DEF HandlerBegin, Goto, CanBegin, beginSignTask
<1>11. ASSUME NEW h \in Handler, HandlerRegister(h) PROVE OwnInv'
  <2>1. /\ hpc[h] = "register" /\ wpc[h] = "none" /\ h \notin closed
        /\ hpc' = [hpc EXCEPT ![h] = "stop3"]
        /\ signSessions' = [signSessions EXCEPT ![TaskOf[h]] = h]
        /\ closed' = closed \union
                       ({signSessions[TaskOf[h]]} \ {NoSession, h})
        /\ UNCHANGED <<signActive, stolen, abortedTasks, wpc, cancelled>>
    BY <1>11 DEF HandlerRegister, Goto, registerSignSession, Registered
  <2>2. \A k \in Handler \ {h} : /\ Owner(k)' <=> Owner(k)
                                /\ Entitled(k)' <=> Entitled(k)
    BY <2>1
  <2>3. Owner(h) /\ Owner(h)' /\ (Entitled(h)' <=> Entitled(h))
    BY <2>1
  <2>4. ASSUME NEW k \in Handler \ {h}, Entitled(k),
               hpc[k] = "stop3" \/ Working(k)
        PROVE  signSessions'[TaskOf[k]] = k /\ k \notin closed'
    <3>1. signSessions[TaskOf[k]] = k /\ k \notin closed
      BY <2>4
    <3>2. TaskOf[k] # TaskOf[h]
      BY <2>3, <2>4
    <3> QED BY <2>1, <3>1, <3>2
  <2>5. hpc'[h] = "stop3" /\ signSessions'[TaskOf[h]] = h /\ h \notin closed'
    BY <2>1
  <2>6. ASSUME NEW k \in Handler, Entitled(k)'
        PROVE  /\ signActive'[TaskOf[k]] = KeyOf[k]
               /\ \A g \in Handler :
                    TaskOf[g] = TaskOf[k] /\ Owner(g)' => g = k
    <3>1. Entitled(k) /\ signActive' = signActive
      BY <2>1, <2>2, <2>3, <2>6
    <3>2. \A g \in Handler : Owner(g)' => Owner(g)
      BY <2>1
    <3> HIDE DEF Owner, Entitled, CtlInv, FoundInv, TypeInv, AttemptOK
    <3> QED BY <3>1, <3>2
  <2>7. ASSUME NEW k \in Handler, Entitled(k)',
               hpc'[k] = "stop3" \/ Working(k)'
        PROVE  signSessions'[TaskOf[k]] = k /\ k \notin closed'
    <3>1. CASE k = h
      BY <2>5, <3>1
    <3>2. CASE k # h
      <4>1. Entitled(k)
        BY <2>1, <2>7, <3>2
      <4>2. hpc[k] = "stop3" \/ Working(k)
        BY <2>1, <2>7, <3>2
      <4> QED BY <2>4, <3>2, <4>1, <4>2
    <3> QED BY <3>1, <3>2
  <2> HIDE DEF Owner, Entitled, Working, CtlInv, FoundInv
  <2> QED BY <2>6, <2>7
<1>12. ASSUME NEW h \in Handler, HandlerStartWorker(h) PROVE OwnInv'
  BY <1>12 DEF HandlerStartWorker, Goto, WorkerGoto, MayStart
<1>13. ASSUME NEW h \in Handler, HandlerAborted(h) PROVE OwnInv'
  BY <1>13 DEF HandlerAborted, Goto
<1>14. ASSUME NEW h \in Handler, HandlerClear(h) PROVE OwnInv'
  BY <1>14 DEF HandlerClear, Goto
<1>15. ASSUME NEW h \in Handler, WorkerCancelPrior(h) PROVE OwnInv'
  BY <1>15 DEF WorkerCancelPrior, WorkerGoto, cancelPriorEcdsaWarm
<1>16. ASSUME NEW h \in Handler, WorkerRegisterWarm(h) PROVE OwnInv'
  BY <1>16 DEF WorkerRegisterWarm, WorkerGoto, registerEcdsaWarmCancel
<1>17. ASSUME NEW h \in Handler, WorkerLock(h) PROVE OwnInv'
  BY <1>17 DEF WorkerLock, WorkerGoto
<1>18. ASSUME NEW h \in Handler, WorkerRefuse(h) PROVE OwnInv'
  BY <1>18 DEF WorkerRefuse, WorkerGoto
<1>19. ASSUME NEW h \in Handler, WorkerFinish(h) PROVE OwnInv'
  BY <1>19 DEF WorkerFinish, WorkerGoto
<1>20. ASSUME NEW h \in Handler, WorkerUnregisterWarm(h) PROVE OwnInv'
  BY <1>20 DEF WorkerUnregisterWarm, WorkerGoto, unregisterEcdsaWarmCancel
<1>21. ASSUME NEW h \in Handler, WorkerCheck(h) PROVE OwnInv'
  BY <1>21 DEF WorkerCheck, WorkerGoto
<1>22. ASSUME NEW h \in Handler, WorkerSend(h) PROVE OwnInv'
  BY <1>22 DEF WorkerSend, WorkerGoto
<1>23. ASSUME NEW h \in Handler, WorkerEnd(h) PROVE OwnInv'
  <2>1. /\ wpc[h] = "end" /\ wpc' = [wpc EXCEPT ![h] = "unregister"]
        /\ signActive' = [signActive EXCEPT ![TaskOf[h]] = NoKey]
        /\ UNCHANGED <<signSessions, closed, stolen, abortedTasks, hpc,
                       cancelled>>
    BY <1>23 DEF WorkerEnd, WorkerGoto, endSignTask
  <2>2. ASSUME NEW k \in Handler, Entitled(k)'
        PROVE  /\ Entitled(k) /\ TaskOf[k] # TaskOf[h]
               /\ Working(k)' <=> Working(k)
    <3>1. k # h
      <4>1. hpc[h] \in {"clear", "done"} /\ wpc'[h] = "unregister"
        BY <2>1
      <4>2. ~Owner(h)' /\ ~Running(h)'
        BY <2>1, <4>1
      <4> QED BY <2>2, <4>2
    <3>2. Entitled(k) /\ (Working(k)' <=> Working(k))
      BY <2>1, <2>2, <3>1
    <3> QED BY <2>1, <3>1, <3>2
  <2>3. \A g \in Handler : Owner(g)' => Owner(g)
    BY <2>1
  <2>4. \A k \in Handler : TaskOf[k] # TaskOf[h] =>
          signActive'[TaskOf[k]] = signActive[TaskOf[k]]
    BY <2>1
  <2> HIDE DEF Owner, Entitled, Working
  <2> QED BY <2>1, <2>2, <2>3, <2>4
<1>24. ASSUME NEW h \in Handler, WorkerUnregister(h) PROVE OwnInv'
  BY <1>24, SMTT(30) DEF WorkerUnregister, WorkerGoto, unregisterSignSession
<1>25. ASSUME NEW a \in Aborter, AbortMark(a) PROVE OwnInv'
  BY <1>25 DEF AbortMark, AbortGoto, tryMarkTaskAborted
<1>26. ASSUME NEW a \in Aborter, AbortLookup(a) PROVE OwnInv'
  BY <1>26 DEF AbortLookup, AbortGoto
<1>27. ASSUME NEW a \in Aborter, AbortIsClosed(a) PROVE OwnInv'
  BY <1>27 DEF AbortIsClosed, AbortGoto, AbortReturn
<1>28. ASSUME NEW a \in Aborter, AbortCancel(a) PROVE OwnInv'
  BY <1>28 DEF AbortCancel, AbortGoto, cancelPriorEcdsaWarm
<1>29. ASSUME NEW a \in Aborter, AbortClose(a) PROVE OwnInv'
  BY <1>29 DEF AbortClose, AbortGoto
<1>30. ASSUME NEW a \in Aborter, AbortUnregister(a) PROVE OwnInv'
  BY <1>30 DEF AbortUnregister, AbortGoto, unregisterSignSession
<1>31. ASSUME NEW a \in Aborter, AbortEnd(a) PROVE OwnInv'
  BY <1>31 DEF AbortEnd, AbortGoto, endSignTask
<1>32. ASSUME NEW a \in Aborter, AbortGasp(a) PROVE OwnInv'
  BY <1>32 DEF AbortGasp, AbortGoto, AbortReturn
<1>33. ASSUME NEW p \in Pusher, NEW t \in Task, PushAbort(p, t) PROVE OwnInv'
  BY <1>33 DEF PushAbort, BeginAbort
<1>34. ASSUME NEW d \in Disc, DiscStarting(d) PROVE OwnInv'
  BY <1>34 DEF DiscStarting, ScanOrder, ListStarting
<1>35. ASSUME NEW d \in Disc, DiscSessions(d) PROVE OwnInv'
  BY <1>35 DEF DiscSessions, ScanOrder, ListActiveSign
<1>36. ASSUME NEW d \in Disc, DiscAbort(d) PROVE OwnInv'
  BY <1>36 DEF DiscAbort, BeginAbort
<1>37. ASSUME NEW d \in Disc, DiscReturn(d) PROVE OwnInv'
  BY <1>37 DEF DiscReturn
<1>38. ASSUME NEW t \in Task, PruneAborted(t) PROVE OwnInv'
  <2>1. /\ UNCHANGED <<signActive, signSessions, closed, stolen, hpc, wpc,
                       cancelled>>
        /\ abortedTasks' = abortedTasks \ {t}
    BY <1>38 DEF PruneAborted
  <2>2. \A k \in Handler : TaskOf[k] = t => ~Owner(k) /\ ~Running(k)
    BY <1>38 DEF PruneAborted, Quiet
  <2>3. \A k \in Handler : Entitled(k)' => Entitled(k)
    BY <2>1, <2>2
  <2> QED BY <2>1, <2>3
<1>39. CASE UNCHANGED vars
  BY <1>39 DEF vars
<1> HIDE DEF CtlInv, OwnInv, FoundInv, Entitled, Owner, Working, Running,
             TypeInv, TypeOK, AbortOK, AttemptOK, Aborter, shared, registry,
             sessVars, warmReg, busyVars, handVars, abortVars, workVars,
             discVars, histVars, Env
<1> QED
  BY <1>1, <1>2, <1>3, <1>4, <1>5, <1>6, <1>7, <1>8, <1>9, <1>10, <1>11,
     <1>12, <1>13, <1>14, <1>15, <1>16, <1>17, <1>18, <1>19, <1>20, <1>21,
     <1>22, <1>23, <1>24, <1>25, <1>26, <1>27, <1>28, <1>29, <1>30, <1>31,
     <1>32, <1>33, <1>34, <1>35, <1>36, <1>37, <1>38, <1>39
     DEF Next, HandlerStep, WorkerStep, AbortStep, DiscStep, AllServed

\* A session that is registered when the mark is set is found.
LEMMA FoundInvStep ==
    ASSUME TypeInv, AttemptOK, CtlInv, OwnInv, FoundInv, [Next]_vars
    PROVE  FoundInv'
<1> USE StartAssumption, NoneAssumption
      DEF CtlInv, OwnInv, FoundInv, Entitled, Owner, Working, Running,
         TypeInv, TypeOK, AbortOK, AttemptOK, Aborter, shared, registry,
         sessVars, warmReg, busyVars, handVars, abortVars, workVars,
         discVars, histVars, Env
<1>1. ASSUME NEW h \in Handler, HandlerNote(h) PROVE FoundInv'
  BY <1>1 DEF HandlerNote, Goto
<1>2. ASSUME NEW h \in Handler, HandlerReject(h) PROVE FoundInv'
  BY <1>2 DEF HandlerReject, Goto
<1>3. ASSUME NEW h \in Handler, HandlerAdmit(h) PROVE FoundInv'
  BY <1>3 DEF HandlerAdmit, Goto
<1>4. ASSUME NEW h \in Handler, HandlerStop(h) PROVE FoundInv'
  BY <1>4 DEF HandlerStop, Goto, BeginAbort
<1>5. ASSUME NEW h \in Handler, HandlerPass(h) PROVE FoundInv'
  BY <1>5 DEF HandlerPass, Goto
<1>6. ASSUME NEW h \in Handler, HandlerBusy(h) PROVE FoundInv'
  BY <1>6 DEF HandlerBusy, Goto, BeforeBegin
<1>7. ASSUME NEW h \in Handler, HandlerGetBusy(h) PROVE FoundInv'
  BY <1>7 DEF HandlerGetBusy, Goto
<1>8. ASSUME NEW h \in Handler, HandlerClearStale(h) PROVE FoundInv'
  BY <1>8 DEF HandlerClearStale, Goto, BeforeBegin, endSignTask,
     cancelPriorEcdsaWarm
<1>9. ASSUME NEW h \in Handler, HandlerBusyReject(h) PROVE FoundInv'
  BY <1>9 DEF HandlerBusyReject, Goto
<1>10. ASSUME NEW h \in Handler, HandlerBegin(h) PROVE FoundInv'
  BY <1>10 DEF HandlerBegin, Goto, CanBegin, beginSignTask
<1>11. ASSUME NEW h \in Handler, HandlerRegister(h) PROVE FoundInv'
  BY <1>11 DEF HandlerRegister, Goto, registerSignSession
<1>12. ASSUME NEW h \in Handler, HandlerStartWorker(h) PROVE FoundInv'
  BY <1>12, SMTT(30) DEF HandlerStartWorker, Goto, WorkerGoto, MayStart
<1>13. ASSUME NEW h \in Handler, HandlerAborted(h) PROVE FoundInv'
  BY <1>13 DEF HandlerAborted, Goto
<1>14. ASSUME NEW h \in Handler, HandlerClear(h) PROVE FoundInv'
  BY <1>14 DEF HandlerClear, Goto
<1>15. ASSUME NEW h \in Handler, WorkerCancelPrior(h) PROVE FoundInv'
  BY <1>15 DEF WorkerCancelPrior, WorkerGoto, cancelPriorEcdsaWarm
<1>16. ASSUME NEW h \in Handler, WorkerRegisterWarm(h) PROVE FoundInv'
  BY <1>16 DEF WorkerRegisterWarm, WorkerGoto, registerEcdsaWarmCancel
<1>17. ASSUME NEW h \in Handler, WorkerLock(h) PROVE FoundInv'
  BY <1>17 DEF WorkerLock, WorkerGoto
<1>18. ASSUME NEW h \in Handler, WorkerRefuse(h) PROVE FoundInv'
  BY <1>18 DEF WorkerRefuse, WorkerGoto
<1>19. ASSUME NEW h \in Handler, WorkerFinish(h) PROVE FoundInv'
  BY <1>19 DEF WorkerFinish, WorkerGoto
<1>20. ASSUME NEW h \in Handler, WorkerUnregisterWarm(h) PROVE FoundInv'
  BY <1>20 DEF WorkerUnregisterWarm, WorkerGoto, unregisterEcdsaWarmCancel
<1>21. ASSUME NEW h \in Handler, WorkerCheck(h) PROVE FoundInv'
  BY <1>21 DEF WorkerCheck, WorkerGoto
<1>22. ASSUME NEW h \in Handler, WorkerSend(h) PROVE FoundInv'
  BY <1>22 DEF WorkerSend, WorkerGoto
<1>23. ASSUME NEW h \in Handler, WorkerEnd(h) PROVE FoundInv'
  BY <1>23 DEF WorkerEnd, WorkerGoto, endSignTask
<1>24. ASSUME NEW h \in Handler, WorkerUnregister(h) PROVE FoundInv'
  BY <1>24 DEF WorkerUnregister, WorkerGoto, unregisterSignSession
<1>25. ASSUME NEW a \in Aborter, AbortMark(a) PROVE FoundInv'
  BY <1>25 DEF AbortMark, AbortGoto, tryMarkTaskAborted
<1>26. ASSUME NEW a \in Aborter, AbortLookup(a) PROVE FoundInv'
  BY <1>26 DEF AbortLookup, AbortGoto
<1>27. ASSUME NEW a \in Aborter, AbortIsClosed(a) PROVE FoundInv'
  BY <1>27, SMTT(30) DEF AbortIsClosed, AbortGoto, AbortReturn
<1>28. ASSUME NEW a \in Aborter, AbortCancel(a) PROVE FoundInv'
  BY <1>28 DEF AbortCancel, AbortGoto, cancelPriorEcdsaWarm
<1>29. ASSUME NEW a \in Aborter, AbortClose(a) PROVE FoundInv'
  BY <1>29 DEF AbortClose, AbortGoto
<1>30. ASSUME NEW a \in Aborter, AbortUnregister(a) PROVE FoundInv'
  BY <1>30 DEF AbortUnregister, AbortGoto, unregisterSignSession
<1>31. ASSUME NEW a \in Aborter, AbortEnd(a) PROVE FoundInv'
  BY <1>31 DEF AbortEnd, AbortGoto, endSignTask
<1>32. ASSUME NEW a \in Aborter, AbortGasp(a) PROVE FoundInv'
  BY <1>32 DEF AbortGasp, AbortGoto, AbortReturn
<1>33. ASSUME NEW p \in Pusher, NEW t \in Task, PushAbort(p, t)
      PROVE  FoundInv'
  BY <1>33 DEF PushAbort, BeginAbort
<1>34. ASSUME NEW d \in Disc, DiscStarting(d) PROVE FoundInv'
  BY <1>34 DEF DiscStarting, ScanOrder, ListStarting
<1>35. ASSUME NEW d \in Disc, DiscSessions(d) PROVE FoundInv'
  BY <1>35 DEF DiscSessions, ScanOrder, ListActiveSign
<1>36. ASSUME NEW d \in Disc, DiscAbort(d) PROVE FoundInv'
  BY <1>36 DEF DiscAbort, BeginAbort
<1>37. ASSUME NEW d \in Disc, DiscReturn(d) PROVE FoundInv'
  BY <1>37 DEF DiscReturn
<1>38. ASSUME NEW t \in Task, PruneAborted(t) PROVE FoundInv'
  BY <1>38 DEF PruneAborted, Quiet
<1>39. CASE UNCHANGED vars
  BY <1>39 DEF vars
<1> HIDE DEF CtlInv, OwnInv, FoundInv, Entitled, Owner, Working, Running,
             TypeInv, TypeOK, AbortOK, AttemptOK, Aborter, shared, registry,
             sessVars, warmReg, busyVars, handVars, abortVars, workVars,
             discVars, histVars, Env
<1> QED
  BY <1>1, <1>2, <1>3, <1>4, <1>5, <1>6, <1>7, <1>8, <1>9, <1>10, <1>11,
     <1>12, <1>13, <1>14, <1>15, <1>16, <1>17, <1>18, <1>19, <1>20, <1>21,
     <1>22, <1>23, <1>24, <1>25, <1>26, <1>27, <1>28, <1>29, <1>30, <1>31,
     <1>32, <1>33, <1>34, <1>35, <1>36, <1>37, <1>38, <1>39
     DEF Next, HandlerStep, WorkerStep, AbortStep, DiscStep, AllServed

\* The goroutine that sets the mark is on its way to the session, and who
\* stops on the way has cancelled it.
LEMMA ReachInvStep ==
    ASSUME TypeInv, AttemptOK, CtlInv, OwnInv, ReachInv, [Next]_vars
    PROVE  ReachInv'
<1> USE StartAssumption, NoneAssumption
      DEF CtlInv, OwnInv, ReachInv, OnItsWay, Entitled, Owner, Working,
         Running, TypeInv, TypeOK, AbortOK, AttemptOK, Aborter, shared,
         registry, sessVars, warmReg, busyVars, handVars, abortVars,
         workVars, discVars, histVars, Env
<1>1. ASSUME NEW h \in Handler, HandlerNote(h) PROVE ReachInv'
  BY <1>1 DEF HandlerNote, Goto
<1>2. ASSUME NEW h \in Handler, HandlerReject(h) PROVE ReachInv'
  BY <1>2 DEF HandlerReject, Goto
<1>3. ASSUME NEW h \in Handler, HandlerAdmit(h) PROVE ReachInv'
  BY <1>3 DEF HandlerAdmit, Goto
<1>4. ASSUME NEW h \in Handler, HandlerStop(h) PROVE ReachInv'
  BY <1>4 DEF HandlerStop, Goto, BeginAbort
<1>5. ASSUME NEW h \in Handler, HandlerPass(h) PROVE ReachInv'
  BY <1>5 DEF HandlerPass, Goto
<1>6. ASSUME NEW h \in Handler, HandlerBusy(h) PROVE ReachInv'
  BY <1>6 DEF HandlerBusy, Goto, BeforeBegin
<1>7. ASSUME NEW h \in Handler, HandlerGetBusy(h) PROVE ReachInv'
  BY <1>7 DEF HandlerGetBusy, Goto
<1>8. ASSUME NEW h \in Handler, HandlerClearStale(h) PROVE ReachInv'
  BY <1>8 DEF HandlerClearStale, Goto, BeforeBegin, endSignTask,
     cancelPriorEcdsaWarm
<1>9. ASSUME NEW h \in Handler, HandlerBusyReject(h) PROVE ReachInv'
  BY <1>9 DEF HandlerBusyReject, Goto
<1>10. ASSUME NEW h \in Handler, HandlerBegin(h) PROVE ReachInv'
  BY <1>10 DEF HandlerBegin, Goto, CanBegin, beginSignTask
<1>11. ASSUME NEW h \in Handler, HandlerRegister(h) PROVE ReachInv'
  BY <1>11 DEF HandlerRegister, Goto, registerSignSession
<1>12. ASSUME NEW h \in Handler, HandlerStartWorker(h) PROVE ReachInv'
  BY <1>12 DEF HandlerStartWorker, Goto, WorkerGoto, MayStart
<1>13. ASSUME NEW h \in Handler, HandlerAborted(h) PROVE ReachInv'
  BY <1>13 DEF HandlerAborted, Goto
<1>14. ASSUME NEW h \in Handler, HandlerClear(h) PROVE ReachInv'
  BY <1>14 DEF HandlerClear, Goto
<1>15. ASSUME NEW h \in Handler, WorkerCancelPrior(h) PROVE ReachInv'
  BY <1>15 DEF WorkerCancelPrior, WorkerGoto, cancelPriorEcdsaWarm
<1>16. ASSUME NEW h \in Handler, WorkerRegisterWarm(h) PROVE ReachInv'
  BY <1>16 DEF WorkerRegisterWarm, WorkerGoto, registerEcdsaWarmCancel
<1>17. ASSUME NEW h \in Handler, WorkerLock(h) PROVE ReachInv'
  BY <1>17 DEF WorkerLock, WorkerGoto
<1>18. ASSUME NEW h \in Handler, WorkerRefuse(h) PROVE ReachInv'
  BY <1>18 DEF WorkerRefuse, WorkerGoto
<1>19. ASSUME NEW h \in Handler, WorkerFinish(h) PROVE ReachInv'
  BY <1>19 DEF WorkerFinish, WorkerGoto
<1>20. ASSUME NEW h \in Handler, WorkerUnregisterWarm(h) PROVE ReachInv'
  BY <1>20 DEF WorkerUnregisterWarm, WorkerGoto, unregisterEcdsaWarmCancel
<1>21. ASSUME NEW h \in Handler, WorkerCheck(h) PROVE ReachInv'
  BY <1>21 DEF WorkerCheck, WorkerGoto
<1>22. ASSUME NEW h \in Handler, WorkerSend(h) PROVE ReachInv'
  BY <1>22, SMTT(30) DEF WorkerSend, WorkerGoto
<1>23. ASSUME NEW h \in Handler, WorkerEnd(h) PROVE ReachInv'
  BY <1>23 DEF WorkerEnd, WorkerGoto, endSignTask
<1>24. ASSUME NEW h \in Handler, WorkerUnregister(h) PROVE ReachInv'
  BY <1>24 DEF WorkerUnregister, WorkerGoto, unregisterSignSession
<1>25. ASSUME NEW a \in Aborter, AbortMark(a) PROVE ReachInv'
  BY <1>25 DEF AbortMark, AbortGoto, tryMarkTaskAborted
<1>26. ASSUME NEW a \in Aborter, AbortLookup(a) PROVE ReachInv'
  BY <1>26 DEF AbortLookup, AbortGoto
<1>27. ASSUME NEW a \in Aborter, AbortIsClosed(a) PROVE ReachInv'
  <2> HIDE DEF Entitled
  <2>1. /\ apc[a] = "isClosed"
        /\ UNCHANGED <<stolen, hpc, wpc, abortedTasks, cancelled>>
    BY <1>27 DEF AbortIsClosed
  <2>2. \A k \in Handler : Entitled(k)' <=> Entitled(k)
    BY <2>1 DEF Entitled
  <2>3. CASE asess[a] \in closed
    <3>1. \A k \in Handler : Entitled(k) /\ Running(k) => ~OnItsWay(a, k)
      BY <2>1, <2>3
    <3>2. \A b \in Aborter \ {a} : /\ apc'[b] = apc[b] /\ atask'[b] = atask[b]
                                  /\ asess'[b] = asess[b]
      BY <1>27, <2>3 DEF AbortIsClosed, AbortGoto, AbortReturn
    <3>3. ASSUME NEW k \in Handler, Entitled(k)', Running(k)',
                 TaskOf[k] \in abortedTasks'
          PROVE  \E b \in Aborter : OnItsWay(b, k)'
      <4>1. Entitled(k) /\ Running(k) /\ TaskOf[k] \in abortedTasks
        BY <2>1, <2>2, <3>3
      <4>2. PICK b \in Aborter : OnItsWay(b, k)
        BY <4>1
      <4>3. b # a
        BY <3>1, <4>1, <4>2
      <4> QED BY <3>2, <4>2, <4>3
    <3> QED BY <3>3
  <2>4. CASE asess[a] \notin closed
    <3>1. /\ apc' = [apc EXCEPT ![a] = "cancel"]
          /\ UNCHANGED <<atask, asess>>
      BY <1>27, <2>4 DEF AbortIsClosed, AbortGoto
    <3> QED BY <2>1, <2>2, <3>1
  <2> QED BY <2>3, <2>4
<1>28. ASSUME NEW a \in Aborter, AbortCancel(a) PROVE ReachInv'
  BY <1>28 DEF AbortCancel, AbortGoto, cancelPriorEcdsaWarm
<1>29. ASSUME NEW a \in Aborter, AbortClose(a) PROVE ReachInv'
  BY <1>29 DEF AbortClose, AbortGoto
<1>30. ASSUME NEW a \in Aborter, AbortUnregister(a) PROVE ReachInv'
  BY <1>30 DEF AbortUnregister, AbortGoto, unregisterSignSession
<1>31. ASSUME NEW a \in Aborter, AbortEnd(a) PROVE ReachInv'
  BY <1>31 DEF AbortEnd, AbortGoto, endSignTask
<1>32. ASSUME NEW a \in Aborter, AbortGasp(a) PROVE ReachInv'
  BY <1>32 DEF AbortGasp, AbortGoto, AbortReturn
<1>33. ASSUME NEW p \in Pusher, NEW t \in Task, PushAbort(p, t)
      PROVE  ReachInv'
  BY <1>33 DEF PushAbort, BeginAbort
<1>34. ASSUME NEW d \in Disc, DiscStarting(d) PROVE ReachInv'
  BY <1>34 DEF DiscStarting, ScanOrder, ListStarting
<1>35. ASSUME NEW d \in Disc, DiscSessions(d) PROVE ReachInv'
  BY <1>35 DEF DiscSessions, ScanOrder, ListActiveSign
<1>36. ASSUME NEW d \in Disc, DiscAbort(d) PROVE ReachInv'
  BY <1>36 DEF DiscAbort, BeginAbort
<1>37. ASSUME NEW d \in Disc, DiscReturn(d) PROVE ReachInv'
  BY <1>37 DEF DiscReturn
<1>38. ASSUME NEW t \in Task, PruneAborted(t) PROVE ReachInv'
  BY <1>38 DEF PruneAborted, Quiet
<1>39. CASE UNCHANGED vars
  BY <1>39 DEF vars
<1> HIDE DEF CtlInv, OwnInv, ReachInv, OnItsWay, Entitled, Owner, Working,
             Running, TypeInv, TypeOK, AbortOK, AttemptOK, Aborter, shared,
             registry, sessVars, warmReg, busyVars, handVars, abortVars,
             workVars, discVars, histVars, Env
<1> QED
  BY <1>1, <1>2, <1>3, <1>4, <1>5, <1>6, <1>7, <1>8, <1>9, <1>10, <1>11,
     <1>12, <1>13, <1>14, <1>15, <1>16, <1>17, <1>18, <1>19, <1>20, <1>21,
     <1>22, <1>23, <1>24, <1>25, <1>26, <1>27, <1>28, <1>29, <1>30, <1>31,
     <1>32, <1>33, <1>34, <1>35, <1>36, <1>37, <1>38, <1>39, SMTT(30)
     DEF Next, HandlerStep, WorkerStep, AbortStep, DiscStep, AllServed

\* tryMarkTaskAborted is true for one caller.
LEMMA GaspInvStep ==
    ASSUME TypeInv, CtlInv, GaspInv, [Next]_vars
    PROVE  GaspInv'
<1> USE StartAssumption, NoneAssumption
      DEF CtlInv, GaspInv, Gasping, TypeInv, TypeOK, AbortOK, AttemptOK,
         Aborter, shared, registry, sessVars, warmReg, busyVars, handVars,
         abortVars, workVars, discVars, histVars, Env
<1>1. ASSUME NEW h \in Handler, HandlerNote(h) PROVE GaspInv'
  BY <1>1 DEF HandlerNote, Goto
<1>2. ASSUME NEW h \in Handler, HandlerReject(h) PROVE GaspInv'
  BY <1>2 DEF HandlerReject, Goto
<1>3. ASSUME NEW h \in Handler, HandlerAdmit(h) PROVE GaspInv'
  BY <1>3 DEF HandlerAdmit, Goto
<1>4. ASSUME NEW h \in Handler, HandlerStop(h) PROVE GaspInv'
  BY <1>4 DEF HandlerStop, Goto, BeginAbort
<1>5. ASSUME NEW h \in Handler, HandlerPass(h) PROVE GaspInv'
  BY <1>5 DEF HandlerPass, Goto
<1>6. ASSUME NEW h \in Handler, HandlerBusy(h) PROVE GaspInv'
  BY <1>6 DEF HandlerBusy, Goto, BeforeBegin
<1>7. ASSUME NEW h \in Handler, HandlerGetBusy(h) PROVE GaspInv'
  BY <1>7 DEF HandlerGetBusy, Goto
<1>8. ASSUME NEW h \in Handler, HandlerClearStale(h) PROVE GaspInv'
  BY <1>8 DEF HandlerClearStale, Goto, BeforeBegin, endSignTask,
     cancelPriorEcdsaWarm
<1>9. ASSUME NEW h \in Handler, HandlerBusyReject(h) PROVE GaspInv'
  BY <1>9 DEF HandlerBusyReject, Goto
<1>10. ASSUME NEW h \in Handler, HandlerBegin(h) PROVE GaspInv'
  BY <1>10 DEF HandlerBegin, Goto, CanBegin, beginSignTask
<1>11. ASSUME NEW h \in Handler, HandlerRegister(h) PROVE GaspInv'
  BY <1>11 DEF HandlerRegister, Goto, registerSignSession
<1>12. ASSUME NEW h \in Handler, HandlerStartWorker(h) PROVE GaspInv'
  BY <1>12 DEF HandlerStartWorker, Goto, WorkerGoto, MayStart
<1>13. ASSUME NEW h \in Handler, HandlerAborted(h) PROVE GaspInv'
  BY <1>13 DEF HandlerAborted, Goto
<1>14. ASSUME NEW h \in Handler, HandlerClear(h) PROVE GaspInv'
  BY <1>14 DEF HandlerClear, Goto
<1>15. ASSUME NEW h \in Handler, WorkerCancelPrior(h) PROVE GaspInv'
  BY <1>15 DEF WorkerCancelPrior, WorkerGoto, cancelPriorEcdsaWarm
<1>16. ASSUME NEW h \in Handler, WorkerRegisterWarm(h) PROVE GaspInv'
  BY <1>16 DEF WorkerRegisterWarm, WorkerGoto, registerEcdsaWarmCancel
<1>17. ASSUME NEW h \in Handler, WorkerLock(h) PROVE GaspInv'
  BY <1>17 DEF WorkerLock, WorkerGoto
<1>18. ASSUME NEW h \in Handler, WorkerRefuse(h) PROVE GaspInv'
  BY <1>18 DEF WorkerRefuse, WorkerGoto
<1>19. ASSUME NEW h \in Handler, WorkerFinish(h) PROVE GaspInv'
  BY <1>19 DEF WorkerFinish, WorkerGoto
<1>20. ASSUME NEW h \in Handler, WorkerUnregisterWarm(h) PROVE GaspInv'
  BY <1>20 DEF WorkerUnregisterWarm, WorkerGoto, unregisterEcdsaWarmCancel
<1>21. ASSUME NEW h \in Handler, WorkerCheck(h) PROVE GaspInv'
  BY <1>21 DEF WorkerCheck, WorkerGoto
<1>22. ASSUME NEW h \in Handler, WorkerSend(h) PROVE GaspInv'
  BY <1>22 DEF WorkerSend, WorkerGoto
<1>23. ASSUME NEW h \in Handler, WorkerEnd(h) PROVE GaspInv'
  BY <1>23 DEF WorkerEnd, WorkerGoto, endSignTask
<1>24. ASSUME NEW h \in Handler, WorkerUnregister(h) PROVE GaspInv'
  BY <1>24 DEF WorkerUnregister, WorkerGoto, unregisterSignSession
<1>25. ASSUME NEW a \in Aborter, AbortMark(a) PROVE GaspInv'
  BY <1>25 DEF AbortMark, AbortGoto, tryMarkTaskAborted
<1>26. ASSUME NEW a \in Aborter, AbortLookup(a) PROVE GaspInv'
  BY <1>26 DEF AbortLookup, AbortGoto
<1>27. ASSUME NEW a \in Aborter, AbortIsClosed(a) PROVE GaspInv'
  BY <1>27 DEF AbortIsClosed, AbortGoto, AbortReturn
<1>28. ASSUME NEW a \in Aborter, AbortCancel(a) PROVE GaspInv'
  BY <1>28 DEF AbortCancel, AbortGoto, cancelPriorEcdsaWarm
<1>29. ASSUME NEW a \in Aborter, AbortClose(a) PROVE GaspInv'
  BY <1>29 DEF AbortClose, AbortGoto
<1>30. ASSUME NEW a \in Aborter, AbortUnregister(a) PROVE GaspInv'
  BY <1>30 DEF AbortUnregister, AbortGoto, unregisterSignSession
<1>31. ASSUME NEW a \in Aborter, AbortEnd(a) PROVE GaspInv'
  BY <1>31 DEF AbortEnd, AbortGoto, endSignTask
<1>32. ASSUME NEW a \in Aborter, AbortGasp(a) PROVE GaspInv'
  BY <1>32 DEF AbortGasp, AbortGoto, AbortReturn
<1>33. ASSUME NEW p \in Pusher, NEW t \in Task, PushAbort(p, t) PROVE GaspInv'
  BY <1>33 DEF PushAbort, BeginAbort
<1>34. ASSUME NEW d \in Disc, DiscStarting(d) PROVE GaspInv'
  BY <1>34 DEF DiscStarting, ScanOrder, ListStarting
<1>35. ASSUME NEW d \in Disc, DiscSessions(d) PROVE GaspInv'
  BY <1>35 DEF DiscSessions, ScanOrder, ListActiveSign
<1>36. ASSUME NEW d \in Disc, DiscAbort(d) PROVE GaspInv'
  BY <1>36 DEF DiscAbort, BeginAbort
<1>37. ASSUME NEW d \in Disc, DiscReturn(d) PROVE GaspInv'
  BY <1>37 DEF DiscReturn
<1>38. ASSUME NEW t \in Task, PruneAborted(t) PROVE GaspInv'
  BY <1>38 DEF PruneAborted, Quiet
<1>39. CASE UNCHANGED vars
  BY <1>39 DEF vars
<1> HIDE DEF CtlInv, GaspInv, Gasping, TypeInv, TypeOK, AbortOK, AttemptOK,
             Aborter, shared, registry, sessVars, warmReg, busyVars,
             handVars, abortVars, workVars, discVars, histVars, Env
<1> QED
  BY <1>1, <1>2, <1>3, <1>4, <1>5, <1>6, <1>7, <1>8, <1>9, <1>10, <1>11,
     <1>12, <1>13, <1>14, <1>15, <1>16, <1>17, <1>18, <1>19, <1>20, <1>21,
     <1>22, <1>23, <1>24, <1>25, <1>26, <1>27, <1>28, <1>29, <1>30, <1>31,
     <1>32, <1>33, <1>34, <1>35, <1>36, <1>37, <1>38, <1>39
     DEF Next, HandlerStep, WorkerStep, AbortStep, DiscStep, AllServed

\* A warm registers before it locks and unregisters after it unlocks.
LEMMA WarmInvStep ==
    ASSUME TypeInv, AttemptOK, WarmInv, [Next]_vars
    PROVE  WarmInv'
<1> USE StartAssumption, NoneAssumption
      DEF WarmInv, WarmRegistryLive, TypeInv, TypeOK, AbortOK, AttemptOK,
         Aborter, shared, registry, sessVars, warmReg, busyVars, handVars,
         abortVars, workVars, discVars, histVars, Env
<1>1. ASSUME NEW h \in Handler, HandlerNote(h) PROVE WarmInv'
  BY <1>1 DEF HandlerNote, Goto
<1>2. ASSUME NEW h \in Handler, HandlerReject(h) PROVE WarmInv'
  BY <1>2 DEF HandlerReject, Goto
<1>3. ASSUME NEW h \in Handler, HandlerAdmit(h) PROVE WarmInv'
  BY <1>3 DEF HandlerAdmit, Goto
<1>4. ASSUME NEW h \in Handler, HandlerStop(h) PROVE WarmInv'
  BY <1>4 DEF HandlerStop, Goto, BeginAbort
<1>5. ASSUME NEW h \in Handler, HandlerPass(h) PROVE WarmInv'
  BY <1>5 DEF HandlerPass, Goto
<1>6. ASSUME NEW h \in Handler, HandlerBusy(h) PROVE WarmInv'
  BY <1>6 DEF HandlerBusy, Goto, BeforeBegin
<1>7. ASSUME NEW h \in Handler, HandlerGetBusy(h) PROVE WarmInv'
  BY <1>7 DEF HandlerGetBusy, Goto
<1>8. ASSUME NEW h \in Handler, HandlerClearStale(h) PROVE WarmInv'
  BY <1>8 DEF HandlerClearStale, Goto, BeforeBegin, endSignTask,
     cancelPriorEcdsaWarm
<1>9. ASSUME NEW h \in Handler, HandlerBusyReject(h) PROVE WarmInv'
  BY <1>9 DEF HandlerBusyReject, Goto
<1>10. ASSUME NEW h \in Handler, HandlerBegin(h) PROVE WarmInv'
  BY <1>10 DEF HandlerBegin, Goto, CanBegin, beginSignTask
<1>11. ASSUME NEW h \in Handler, HandlerRegister(h) PROVE WarmInv'
  BY <1>11 DEF HandlerRegister, Goto, registerSignSession
<1>12. ASSUME NEW h \in Handler, HandlerStartWorker(h) PROVE WarmInv'
  BY <1>12, SMTT(30) DEF HandlerStartWorker, Goto, WorkerGoto, MayStart
<1>13. ASSUME NEW h \in Handler, HandlerAborted(h) PROVE WarmInv'
  BY <1>13 DEF HandlerAborted, Goto
<1>14. ASSUME NEW h \in Handler, HandlerClear(h) PROVE WarmInv'
  BY <1>14 DEF HandlerClear, Goto
<1>15. ASSUME NEW h \in Handler, WorkerCancelPrior(h) PROVE WarmInv'
  BY <1>15 DEF WorkerCancelPrior, WorkerGoto, cancelPriorEcdsaWarm
<1>16. ASSUME NEW h \in Handler, WorkerRegisterWarm(h) PROVE WarmInv'
  BY <1>16 DEF WorkerRegisterWarm, WorkerGoto, registerEcdsaWarmCancel
<1>17. ASSUME NEW h \in Handler, WorkerLock(h) PROVE WarmInv'
  BY <1>17 DEF WorkerLock, WorkerGoto
<1>18. ASSUME NEW h \in Handler, WorkerRefuse(h) PROVE WarmInv'
  BY <1>18 DEF WorkerRefuse, WorkerGoto
<1>19. ASSUME NEW h \in Handler, WorkerFinish(h) PROVE WarmInv'
  BY <1>19 DEF WorkerFinish, WorkerGoto
<1>20. ASSUME NEW h \in Handler, WorkerUnregisterWarm(h) PROVE WarmInv'
  BY <1>20 DEF WorkerUnregisterWarm, WorkerGoto, unregisterEcdsaWarmCancel
<1>21. ASSUME NEW h \in Handler, WorkerCheck(h) PROVE WarmInv'
  BY <1>21 DEF WorkerCheck, WorkerGoto
<1>22. ASSUME NEW h \in Handler, WorkerSend(h) PROVE WarmInv'
  BY <1>22 DEF WorkerSend, WorkerGoto
<1>23. ASSUME NEW h \in Handler, WorkerEnd(h) PROVE WarmInv'
  BY <1>23 DEF WorkerEnd, WorkerGoto, endSignTask
<1>24. ASSUME NEW h \in Handler, WorkerUnregister(h) PROVE WarmInv'
  BY <1>24 DEF WorkerUnregister, WorkerGoto, unregisterSignSession
<1>25. ASSUME NEW a \in Aborter, AbortMark(a) PROVE WarmInv'
  BY <1>25 DEF AbortMark, AbortGoto, tryMarkTaskAborted
<1>26. ASSUME NEW a \in Aborter, AbortLookup(a) PROVE WarmInv'
  BY <1>26 DEF AbortLookup, AbortGoto
<1>27. ASSUME NEW a \in Aborter, AbortIsClosed(a) PROVE WarmInv'
  BY <1>27 DEF AbortIsClosed, AbortGoto, AbortReturn
<1>28. ASSUME NEW a \in Aborter, AbortCancel(a) PROVE WarmInv'
  BY <1>28, SMTT(30) DEF AbortCancel, AbortGoto, cancelPriorEcdsaWarm
<1>29. ASSUME NEW a \in Aborter, AbortClose(a) PROVE WarmInv'
  BY <1>29 DEF AbortClose, AbortGoto
<1>30. ASSUME NEW a \in Aborter, AbortUnregister(a) PROVE WarmInv'
  BY <1>30 DEF AbortUnregister, AbortGoto, unregisterSignSession
<1>31. ASSUME NEW a \in Aborter, AbortEnd(a) PROVE WarmInv'
  BY <1>31 DEF AbortEnd, AbortGoto, endSignTask
<1>32. ASSUME NEW a \in Aborter, AbortGasp(a) PROVE WarmInv'
  BY <1>32 DEF AbortGasp, AbortGoto, AbortReturn
<1>33. ASSUME NEW p \in Pusher, NEW t \in Task, PushAbort(p, t) PROVE WarmInv'
  BY <1>33 DEF PushAbort, BeginAbort
<1>34. ASSUME NEW d \in Disc, DiscStarting(d) PROVE WarmInv'
  BY <1>34 DEF DiscStarting, ScanOrder, ListStarting
<1>35. ASSUME NEW d \in Disc, DiscSessions(d) PROVE WarmInv'
  BY <1>35 DEF DiscSessions, ScanOrder, ListActiveSign
<1>36. ASSUME NEW d \in Disc, DiscAbort(d) PROVE WarmInv'
  BY <1>36 DEF DiscAbort, BeginAbort
<1>37. ASSUME NEW d \in Disc, DiscReturn(d) PROVE WarmInv'
  BY <1>37 DEF DiscReturn
<1>38. ASSUME NEW t \in Task, PruneAborted(t) PROVE WarmInv'
  BY <1>38 DEF PruneAborted, Quiet
<1>39. CASE UNCHANGED vars
  BY <1>39 DEF vars
<1> HIDE DEF WarmInv, WarmRegistryLive, TypeInv, TypeOK, AbortOK, AttemptOK,
             Aborter, shared, registry, sessVars, warmReg, busyVars,
             handVars, abortVars, workVars, discVars, histVars, Env
<1> QED
  BY <1>1, <1>2, <1>3, <1>4, <1>5, <1>6, <1>7, <1>8, <1>9, <1>10, <1>11,
     <1>12, <1>13, <1>14, <1>15, <1>16, <1>17, <1>18, <1>19, <1>20, <1>21,
     <1>22, <1>23, <1>24, <1>25, <1>26, <1>27, <1>28, <1>29, <1>30, <1>31,
     <1>32, <1>33, <1>34, <1>35, <1>36, <1>37, <1>38, <1>39
     DEF Next, HandlerStep, WorkerStep, AbortStep, DiscStep, AllServed

\* A task is under startingTasks until its session is registered.
LEMMA CoverInvStep ==
    ASSUME TypeInv, AttemptOK, CtlInv, CoverInv, [Next]_vars
    PROVE  CoverInv'
<1> USE StartAssumption, NoneAssumption
      DEF CtlInv, CoverInv, Found, InStart, Working, TypeInv, TypeOK,
         AbortOK, AttemptOK, Aborter, shared, registry, sessVars, warmReg,
         busyVars, handVars, abortVars, workVars, discVars, histVars, Env
<1>1. ASSUME NEW h \in Handler, HandlerNote(h) PROVE CoverInv'
  BY <1>1 DEF HandlerNote, Goto
<1>2. ASSUME NEW h \in Handler, HandlerReject(h) PROVE CoverInv'
  BY <1>2 DEF HandlerReject, Goto
<1>3. ASSUME NEW h \in Handler, HandlerAdmit(h) PROVE CoverInv'
  BY <1>3 DEF HandlerAdmit, Goto
<1>4. ASSUME NEW h \in Handler, HandlerStop(h) PROVE CoverInv'
  BY <1>4 DEF HandlerStop, Goto, BeginAbort
<1>5. ASSUME NEW h \in Handler, HandlerPass(h) PROVE CoverInv'
  BY <1>5 DEF HandlerPass, Goto
<1>6. ASSUME NEW h \in Handler, HandlerBusy(h) PROVE CoverInv'
  BY <1>6 DEF HandlerBusy, Goto, BeforeBegin
<1>7. ASSUME NEW h \in Handler, HandlerGetBusy(h) PROVE CoverInv'
  BY <1>7 DEF HandlerGetBusy, Goto
<1>8. ASSUME NEW h \in Handler, HandlerClearStale(h) PROVE CoverInv'
  BY <1>8 DEF HandlerClearStale, Goto, BeforeBegin, endSignTask,
     cancelPriorEcdsaWarm
<1>9. ASSUME NEW h \in Handler, HandlerBusyReject(h) PROVE CoverInv'
  BY <1>9 DEF HandlerBusyReject, Goto
<1>10. ASSUME NEW h \in Handler, HandlerBegin(h) PROVE CoverInv'
  <2>1. PICK pc \in {"register", "clear"} :
          hpc[h] = "begin" /\ hpc' = [hpc EXCEPT ![h] = pc]
    BY <1>10 DEF HandlerBegin, Goto
  <2>2. UNCHANGED <<startingTasks, abortedTasks, wpc, signSessions, exposed,
                    dpc, seen, atask, closed, uncovered>>
    BY <1>10 DEF HandlerBegin
  <2> QED BY <2>1, <2>2
<1>11. ASSUME NEW h \in Handler, HandlerRegister(h) PROVE CoverInv'
  BY <1>11 DEF HandlerRegister, Goto, registerSignSession
<1>12. ASSUME NEW h \in Handler, HandlerStartWorker(h) PROVE CoverInv'
  BY <1>12 DEF HandlerStartWorker, Goto, WorkerGoto, MayStart
<1>13. ASSUME NEW h \in Handler, HandlerAborted(h) PROVE CoverInv'
  BY <1>13 DEF HandlerAborted, Goto
<1>14. ASSUME NEW h \in Handler, HandlerClear(h) PROVE CoverInv'
  BY <1>14 DEF HandlerClear, Goto
<1>15. ASSUME NEW h \in Handler, WorkerCancelPrior(h) PROVE CoverInv'
  BY <1>15 DEF WorkerCancelPrior, WorkerGoto, cancelPriorEcdsaWarm
<1>16. ASSUME NEW h \in Handler, WorkerRegisterWarm(h) PROVE CoverInv'
  BY <1>16 DEF WorkerRegisterWarm, WorkerGoto, registerEcdsaWarmCancel
<1>17. ASSUME NEW h \in Handler, WorkerLock(h) PROVE CoverInv'
  BY <1>17 DEF WorkerLock, WorkerGoto
<1>18. ASSUME NEW h \in Handler, WorkerRefuse(h) PROVE CoverInv'
  BY <1>18 DEF WorkerRefuse, WorkerGoto
<1>19. ASSUME NEW h \in Handler, WorkerFinish(h) PROVE CoverInv'
  BY <1>19 DEF WorkerFinish, WorkerGoto
<1>20. ASSUME NEW h \in Handler, WorkerUnregisterWarm(h) PROVE CoverInv'
  BY <1>20 DEF WorkerUnregisterWarm, WorkerGoto, unregisterEcdsaWarmCancel
<1>21. ASSUME NEW h \in Handler, WorkerCheck(h) PROVE CoverInv'
  BY <1>21 DEF WorkerCheck, WorkerGoto
<1>22. ASSUME NEW h \in Handler, WorkerSend(h) PROVE CoverInv'
  BY <1>22 DEF WorkerSend, WorkerGoto
<1>23. ASSUME NEW h \in Handler, WorkerEnd(h) PROVE CoverInv'
  BY <1>23 DEF WorkerEnd, WorkerGoto, endSignTask
<1>24. ASSUME NEW h \in Handler, WorkerUnregister(h) PROVE CoverInv'
  BY <1>24 DEF WorkerUnregister, WorkerGoto, unregisterSignSession
<1>25. ASSUME NEW a \in Aborter, AbortMark(a) PROVE CoverInv'
  BY <1>25 DEF AbortMark, AbortGoto, tryMarkTaskAborted
<1>26. ASSUME NEW a \in Aborter, AbortLookup(a) PROVE CoverInv'
  BY <1>26 DEF AbortLookup, AbortGoto
<1>27. ASSUME NEW a \in Aborter, AbortIsClosed(a) PROVE CoverInv'
  BY <1>27 DEF AbortIsClosed, AbortGoto, AbortReturn
<1>28. ASSUME NEW a \in Aborter, AbortCancel(a) PROVE CoverInv'
  BY <1>28 DEF AbortCancel, AbortGoto, cancelPriorEcdsaWarm
<1>29. ASSUME NEW a \in Aborter, AbortClose(a) PROVE CoverInv'
  BY <1>29 DEF AbortClose, AbortGoto
<1>30. ASSUME NEW a \in Aborter, AbortUnregister(a) PROVE CoverInv'
  BY <1>30 DEF AbortUnregister, AbortGoto, unregisterSignSession
<1>31. ASSUME NEW a \in Aborter, AbortEnd(a) PROVE CoverInv'
  BY <1>31 DEF AbortEnd, AbortGoto, endSignTask
<1>32. ASSUME NEW a \in Aborter, AbortGasp(a) PROVE CoverInv'
  BY <1>32 DEF AbortGasp, AbortGoto, AbortReturn
<1>33. ASSUME NEW p \in Pusher, NEW t \in Task, PushAbort(p, t)
      PROVE  CoverInv'
  BY <1>33 DEF PushAbort, BeginAbort
<1>34. ASSUME NEW d \in Disc, DiscStarting(d) PROVE CoverInv'
  BY <1>34 DEF DiscStarting, ScanOrder, ListStarting
<1>35. ASSUME NEW d \in Disc, DiscSessions(d) PROVE CoverInv'
  BY <1>35 DEF DiscSessions, ScanOrder, ListActiveSign
<1>36. ASSUME NEW d \in Disc, DiscAbort(d) PROVE CoverInv'
  BY <1>36 DEF DiscAbort, BeginAbort
<1>37. ASSUME NEW d \in Disc, DiscReturn(d) PROVE CoverInv'
  BY <1>37 DEF DiscReturn
<1>38. ASSUME NEW t \in Task, PruneAborted(t) PROVE CoverInv'
  BY <1>38 DEF PruneAborted, Quiet
<1>39. CASE UNCHANGED vars
  BY <1>39 DEF vars
<1> HIDE DEF CtlInv, CoverInv, Found, InStart, Working, TypeInv, TypeOK,
             AbortOK, AttemptOK, Aborter, shared, registry, sessVars,
             warmReg, busyVars, handVars, abortVars, workVars, discVars,
             histVars, Env
<1> QED
  BY <1>1, <1>2, <1>3, <1>4, <1>5, <1>6, <1>7, <1>8, <1>9, <1>10, <1>11,
     <1>12, <1>13, <1>14, <1>15, <1>16, <1>17, <1>18, <1>19, <1>20, <1>21,
     <1>22, <1>23, <1>24, <1>25, <1>26, <1>27, <1>28, <1>29, <1>30, <1>31,
     <1>32, <1>33, <1>34, <1>35, <1>36, <1>37, <1>38, <1>39, SMTT(30)
     DEF Next, HandlerStep, WorkerStep, AbortStep, DiscStep, AllServed
-----------------------------------------------------------------------------
(***************************************************************************)
(* The theorems.                                                           *)
(***************************************************************************)
Inv == /\ TypeInv /\ AttemptOK /\ CtlInv /\ OwnInv /\ FoundInv /\ ReachInv
       /\ GaspInv /\ WarmInv

LEMMA InvInit == Init => Inv
<1> SUFFICES ASSUME Init PROVE Inv
  OBVIOUS
<1> USE StartAssumption, NoneAssumption DEF Init
<1>1. TypeInv /\ AttemptOK
  BY BoundAssumption
     DEF TypeInv, TypeOK, AbortOK, BusyOK, AttemptOK, HandlerPcs, WorkerPcs,
         AbortPcs, Aborter
<1>2. CtlInv
  BY DEF CtlInv, Aborter
<1>3. OwnInv /\ FoundInv /\ ReachInv
  BY DEF OwnInv, FoundInv, ReachInv, Entitled, Owner, Working, Running
<1>4. GaspInv /\ WarmInv
  BY DEF GaspInv, Gasping, WarmInv, WarmRegistryLive
<1> QED BY <1>1, <1>2, <1>3, <1>4 DEF Inv

LEMMA InvCorrect == Spec => []Inv
<1>1. Inv /\ [Next]_vars => Inv'
  BY TypeStep, AttemptStep, CtlInvStep, OwnInvStep, FoundInvStep,
     ReachInvStep, GaspInvStep, WarmInvStep DEF Inv
<1> QED BY <1>1, InvInit, PTL DEF Spec

\* From beginSignTask until its result is submitted a task that nobody has
\* aborted or taken for stale occupies the slot of its key: no late worker,
\* duplicate Start or abort of another task ends it.
THEOREM SlotCorrect == Spec => []LiveHoldsSlot
<1>1. Inv => LiveHoldsSlot
  BY DEF Inv, OwnInv, Entitled, Owner, Lost, LiveHoldsSlot
<1> QED BY <1>1, InvCorrect, PTL

\* The session of a running worker is the one under its task, so that
\* messages and aborts find it: no late unregister removes it, and no
\* duplicate Start replaces it.
THEOREM RegisteredCorrect == Spec => []RunningIsRegistered
<1>1. Inv => RunningIsRegistered
  BY DEF Inv, OwnInv, Entitled, Owner, Lost, RunningIsRegistered
<1> QED BY <1>1, InvCorrect, PTL

\* An abort cannot fall between the checks of Start: at every moment the
\* worker of an aborted task is cancelled or about to be.
THEOREM AbortCorrect == Spec => []AbortReaches
<1>1. Inv => AbortReaches
  BY DEF Inv, ReachInv, Entitled, Running, OnItsWay, AbortReaches
<1> QED BY <1>1, InvCorrect, PTL

\* However many goroutines abort a task at the same time, one last gasp is
\* sent at most.
THEOREM GaspCorrect == Spec => []AtMostOneGasp
<1>1. Inv => AtMostOneGasp
  BY DEF Inv, GaspInv, AtMostOneGasp
<1> QED BY <1>1, InvCorrect, PTL

\* A warm that is over leaves neither its cancel function nor an entry behind,
\* and an entry always leads to a cancel function of a warm on its lock.
THEOREM WarmCorrect == Spec => []WarmRegistryLive
<1>1. Inv => WarmRegistryLive
  BY DEF Inv, WarmInv
<1> QED BY <1>1, InvCorrect, PTL

\* The disconnect callback finds every task that was starting or at work when
\* it began, however often a Start is delivered: the two lists are taken in
\* the order in which a task moves from one to the other.  Only a Start whose
\* entry another delivery of the task has removed is not found.
THEOREM DisconnectCorrect == Spec => []DisconnectCovers
<1>1. Init => Inv /\ CoverInv
  BY InvInit, NoneAssumption DEF Init, CoverInv, InStart, Working
<1>2. Inv /\ CoverInv /\ [Next]_vars => CoverInv'
  BY CoverInvStep DEF Inv
<1>3. CoverInv => DisconnectCovers
  BY DEF CoverInv, DisconnectCovers
<1> QED BY <1>1, <1>2, <1>3, InvCorrect, PTL DEF Spec
=============================================================================

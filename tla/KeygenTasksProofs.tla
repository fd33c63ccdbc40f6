------------------------- MODULE KeygenTasksProofs -------------------------
(***************************************************************************)
(* Proofs about KeygenTasks, for any Starts, aborts, tasks, attempts and   *)
(* temporary keys.                                                         *)
(***************************************************************************)
EXTENDS KeygenTasks, TLAPS

\* Control points of an abort: it has found a session; it has taken the key.
Found == {"isClosed", "take", "close", "unregister", "end", "clear",
          "clearPeers", "delete"}
Taken == Found \ {"isClosed", "take"}

\* A handler whose session is, or was, registered.
MayBeRegistered(h) == hpc[h] \in {"stop3", "aborting", "done"}

\* What the control points of the goroutines say about each other and about
\* the sessions.
CtlInv ==
    /\ TypeOK
    /\ \A h \in Handler : /\ wpc[h] # "none" => hpc[h] = "done"
                          /\ hpc[h] # "aborting" => apc[h] = "ready"
    /\ \A a \in Goroutine :
         /\ apc[a] = "ready" => atask[a] = NoTask
         /\ apc[a] # "ready" => atask[a] \in Task
         /\ apc[a] \notin {"ready", "mark"} => atask[a] \in abortedTasks
         /\ apc[a] \notin Found => asess[a] = NoSession
         /\ apc[a] \in Found => /\ asess[a] \in Handler
                                /\ TaskOf[asess[a]] = atask[a]
                                /\ MayBeRegistered(asess[a])
         /\ a \in persisted => apc[a] \in Taken
    /\ \A t \in Task : keygenSessions[t] # NoSession =>
         /\ TaskOf[keygenSessions[t]] = t
         /\ MayBeRegistered(keygenSessions[t])
    /\ \A h \in closed : MayBeRegistered(h)

\* The worker runs, or its handler is about to start it: the task is its own.
Owner(h) == hpc[h] \in {"register", "stop3"} \/ Working(h) \/ wpc[h] = "end"

Running(h) == wpc[h] \in {"run", "save", "mark", "recheck"}

\* An owner has its task to itself.  An abort ends that, but not before it
\* has cancelled the run: until then it has found this very session.
OwnInv ==
    \A h \in Handler :
        Owner(h) /\ (isTaskAborted(h) => Running(h) /\ h \notin cancelled) =>
            /\ TaskOf[h] \in keygenActive
            /\ hpc[h] # "register" => keygenSessions[TaskOf[h]] = h
            /\ \A g \in Handler \ {h} : TaskOf[g] = TaskOf[h] => ~Owner(g)
            /\ \A a \in Goroutine :
                 atask[a] = TaskOf[h] /\ apc[a] \in Found =>
                     asess[a] = h /\ apc[a] \in {"isClosed", "take"}
            /\ h \notin closed

ReachInv ==
    \A h \in Handler :
        Running(h) /\ isTaskAborted(h) /\ h \notin cancelled =>
            \E a \in Goroutine : /\ atask[a] = TaskOf[h]
                                 /\ apc[a] \in {"lookup", "isClosed", "take"}

\* A share on disk has its record: in the session, with an abort that is about
\* to delete it, or at the worker's next step.  Otherwise its deletion failed.
DiskInv ==
    \A h \in disk : \/ wpc[h] = "mark" \/ h \in persistedKey \union undeleted
                    \/ \E a \in persisted : asess[a] = h

\* The session that is registered for a task is open until the task is
\* aborted, and a run that has unregistered its own is not registered again.
OpenInv ==
    /\ \A t \in Task \ abortedTasks : keygenSessions[t] \notin closed
    /\ \A h \in Handler :
         /\ wpc[h] \in {"clear", "clearPeers", "done"} =>
              keygenSessions[TaskOf[h]] # h
         /\ wpc[h] \in {"clear", "clearPeers"} /\ ~isTaskAborted(h) =>
              h \notin closed

\* A handler that went on has a key, which somebody created.
Keyed(h) == KeysFresh(h) /\ ~isTaskAborted(h)
KeyInv ==
    /\ \A t \in Task : decapsKey[t] # 0 => created[t] # 0
    /\ \A h \in Handler :
         /\ hpc[h] = "put" => refreshKey[h] # 0
         /\ hpc[h] \notin {"idle", "done"} \/ wpc[h] # "none" =>
              created[TaskOf[h]] # 0
         /\ Keyed(h) =>
              \/ /\ decapsKey[TaskOf[h]] # 0
                 /\ \/ hpc[h] = "peers" \/ h \in Single
                    \/ TaskOf[h] \in peerKeys
              \/ \E g \in Handler \ {h} :
                   /\ TaskOf[g] = TaskOf[h] /\ g \notin closed
                   /\ wpc[g] \in {"clear", "clearPeers", "done"}

\* The only Start of a task: until the keys are gone there is one who will
\* clear them.
Only(h) == /\ wpc[h] # "none" /\ created[TaskOf[h]] = 1
           /\ \A g \in Handler \ {h} : TaskOf[g] = TaskOf[h] => hpc[g] = "idle"
ClearInv ==
    \A h \in Handler : LET t == TaskOf[h] IN Only(h) =>
        \/ keygenSessions[t] = h
        \/ wpc[h] = "clear"
        \/ wpc[h] = "clearPeers" /\ decapsKey[t] = 0
        \/ \E a \in Goroutine :
             /\ atask[a] = t
             /\ \/ apc[a] \in {"end", "clear"}
                \/ apc[a] = "clearPeers" /\ decapsKey[t] = 0
        \/ decapsKey[t] = 0 /\ t \notin peerKeys
-----------------------------------------------------------------------------
LEMMA InvInit ==
    Init => /\ CtlInv /\ OwnInv /\ ReachInv /\ DiskInv /\ OpenInv /\ KeyInv
            /\ ClearInv
<1> SUFFICES ASSUME Init
             PROVE  /\ CtlInv /\ OwnInv /\ ReachInv /\ DiskInv /\ OpenInv
                    /\ KeyInv /\ ClearInv
  OBVIOUS
<1> USE KeygenConstants DEF Init
<1>1. TypeOK
  BY DEF TypeOK
<1>2. CtlInv
  BY <1>1 DEF CtlInv, Found, Goroutine
<1>3. OwnInv
  BY DEF OwnInv, Owner, Working
<1>4. ReachInv /\ DiskInv /\ OpenInv
  BY DEF ReachInv, Running, DiskInv, OpenInv
<1>5. KeyInv
  BY DEF KeyInv, Keyed, KeysFresh
<1>6. ClearInv
  BY DEF ClearInv, Only
<1> QED BY <1>2, <1>3, <1>4, <1>5, <1>6

\* The control points: an abort works on a session of its own task.
LEMMA CtlInvStep ==
    ASSUME CtlInv, [Next]_vars
    PROVE  CtlInv'
<1> USE KeygenConstants
    DEF CtlInv, MayBeRegistered, Found, Taken, Goto, WorkerGoto, AbortGoto,
        isTaskAborted, sessVars, workVars, brokVars, abortVars, keyVars,
        HandlerRest, CacheVars, HandlerSame, AbortRest, KeyRest, Goroutine,
        TypeOK
<1>1. ASSUME NEW h \in Handler, HandlerNote(h) PROVE CtlInv'
  BY <1>1 DEF HandlerNote
<1>2. ASSUME NEW h \in Handler, HandlerReject(h) PROVE CtlInv'
  BY <1>2 DEF HandlerReject
<1>3. ASSUME NEW h \in Handler, HandlerAdmit(h) PROVE CtlInv'
  BY <1>3 DEF HandlerAdmit
<1>4. ASSUME NEW h \in Handler, HandlerRefresh(h) PROVE CtlInv'
  BY <1>4 DEF HandlerRefresh
<1>5. ASSUME NEW h \in Handler, HandlerPut(h) PROVE CtlInv'
  BY <1>5 DEF HandlerPut
<1>6. ASSUME NEW h \in Handler, PutPeerPublicKey(h) PROVE CtlInv'
  BY <1>6 DEF PutPeerPublicKey
<1>7. ASSUME NEW h \in Handler, HandlerStop(h) PROVE CtlInv'
  BY <1>7 DEF HandlerStop, BeginAbort
<1>8. ASSUME NEW h \in Handler, HandlerPass(h) PROVE CtlInv'
  BY <1>8 DEF HandlerPass
<1>9. ASSUME NEW h \in Handler, HandlerBegin(h) PROVE CtlInv'
  BY <1>9 DEF HandlerBegin, CanBegin
<1>10. ASSUME NEW h \in Handler, HandlerRegister(h) PROVE CtlInv'
  BY <1>10 DEF HandlerRegister
<1>11. ASSUME NEW h \in Handler, HandlerStartWorker(h) PROVE CtlInv'
  BY <1>11 DEF HandlerStartWorker, MayStart
<1>12. ASSUME NEW h \in Handler, HandlerAborted(h) PROVE CtlInv'
  BY <1>12 DEF HandlerAborted
<1>13. ASSUME NEW h \in Handler, WorkerRun(h) PROVE CtlInv'
  BY <1>13 DEF WorkerRun, Submit
<1>14. ASSUME NEW h \in Handler, WorkerSave(h) PROVE CtlInv'
  BY <1>14 DEF WorkerSave, Submit
<1>15. ASSUME NEW h \in Handler, WorkerMark(h) PROVE CtlInv'
  BY <1>15 DEF WorkerMark
<1>16. ASSUME NEW h \in Handler, WorkerRecheck(h) PROVE CtlInv'
  BY <1>16 DEF WorkerRecheck, Submit
<1>17. ASSUME NEW h \in Handler, WorkerLoad(h) PROVE CtlInv'
  BY <1>17 DEF WorkerLoad, Submit
<1>18. ASSUME NEW h \in Handler, WorkerCheck(h) PROVE CtlInv'
  BY <1>18 DEF WorkerCheck
<1>19. ASSUME NEW h \in Handler, WorkerSendOK(h) PROVE CtlInv'
  BY <1>19 DEF WorkerSendOK
<1>20. ASSUME NEW h \in Handler, WorkerSendFail(h) PROVE CtlInv'
  BY <1>20 DEF WorkerSendFail, Submit, MayRetry
<1>21. ASSUME NEW h \in Handler, WorkerEnd(h) PROVE CtlInv'
  BY <1>21 DEF WorkerEnd
<1>22. ASSUME NEW h \in Handler, WorkerUnregister(h) PROVE CtlInv'
  BY <1>22 DEF WorkerUnregister, Unregistered, ClearsKeys, WorkerReturn
<1>23. ASSUME NEW h \in Handler, WorkerClear(h) PROVE CtlInv'
  BY <1>23 DEF WorkerClear, ClearDecapsKey, ClearPeerKeys, WorkerReturn
<1>24. ASSUME NEW a \in Goroutine, AbortMark(a) PROVE CtlInv'
  BY <1>24 DEF AbortMark
<1>25. ASSUME NEW a \in Goroutine, AbortLookup(a) PROVE CtlInv'
  BY <1>25, SMTT(30) DEF AbortLookup, AbortReturn
<1>26. ASSUME NEW a \in Goroutine, AbortIsClosed(a) PROVE CtlInv'
  BY <1>26 DEF AbortIsClosed, AbortReturn
<1>27. ASSUME NEW a \in Goroutine, AbortTake(a) PROVE CtlInv'
  BY <1>27 DEF AbortTake
<1>28. ASSUME NEW a \in Goroutine, AbortClose(a) PROVE CtlInv'
  BY <1>28 DEF AbortClose
<1>29. ASSUME NEW a \in Goroutine, AbortUnregister(a) PROVE CtlInv'
  BY <1>29 DEF AbortUnregister, Unregistered
<1>30. ASSUME NEW a \in Goroutine, AbortEnd(a) PROVE CtlInv'
  BY <1>30 DEF AbortEnd, ActiveAfterAbort
<1>31. ASSUME NEW a \in Goroutine, AbortClear(a) PROVE CtlInv'
  BY <1>31 DEF AbortClear, ClearDecapsKey, ClearPeerKeys
<1>32. ASSUME NEW a \in Goroutine, AbortDelete(a) PROVE CtlInv'
  BY <1>32 DEF AbortDelete, AbortReturn, Deleted
<1>33. ASSUME NEW a \in Aborter, NEW t \in Task, AbortStart(a, t)
      PROVE  CtlInv'
  BY <1>33 DEF AbortStart, BeginAbort
<1>34. ASSUME NEW t \in Task, HandleTempPublicKey(t) PROVE CtlInv'
  BY <1>34 DEF HandleTempPublicKey
<1>35. ASSUME NEW t \in Task, Expire(t) PROVE CtlInv'
  BY <1>35 DEF Expire, ClearDecapsKey, ClearPeerKeys
<1>36. CASE UNCHANGED vars
  BY <1>36 DEF vars
<1> HIDE DEF CtlInv, MayBeRegistered, Found, Taken, Goto, WorkerGoto,
             AbortGoto, isTaskAborted, sessVars, workVars, brokVars,
             abortVars, keyVars, HandlerRest, CacheVars, HandlerSame,
             AbortRest, KeyRest, Goroutine, TypeOK
<1> QED
  BY <1>1, <1>2, <1>3, <1>4, <1>5, <1>6, <1>7, <1>8, <1>9, <1>10, <1>11,
     <1>12, <1>13, <1>14, <1>15, <1>16, <1>17, <1>18, <1>19, <1>20, <1>21,
     <1>22, <1>23, <1>24, <1>25, <1>26, <1>27, <1>28, <1>29, <1>30, <1>31,
     <1>32, <1>33, <1>34, <1>35, <1>36, SMTT(30)
     DEF Next, HandlerStep, WorkerStep, AbortStep, AllServed

\* A task that is begun has one owner.  A second Start is turned away by
\* beginKeygenTask, and a worker or an abort that ends a task has been its
\* owner or has cancelled it.
LEMMA OwnInvStep ==
    ASSUME CtlInv, CtlInv', OwnInv, [Next]_vars
    PROVE  OwnInv'
<1> USE KeygenConstants
    DEF CtlInv, MayBeRegistered, Found, Taken, Goto, WorkerGoto, AbortGoto,
        isTaskAborted, sessVars, workVars, brokVars, abortVars, keyVars,
        HandlerRest, CacheVars, HandlerSame, AbortRest, KeyRest, Goroutine,
        TypeOK, OwnInv, Owner, Working, Running
<1>1. ASSUME NEW h \in Handler, HandlerNote(h) PROVE OwnInv'
  BY <1>1 DEF HandlerNote
<1>2. ASSUME NEW h \in Handler, HandlerReject(h) PROVE OwnInv'
  BY <1>2 DEF HandlerReject
<1>3. ASSUME NEW h \in Handler, HandlerAdmit(h) PROVE OwnInv'
  BY <1>3 DEF HandlerAdmit
<1>4. ASSUME NEW h \in Handler, HandlerRefresh(h) PROVE OwnInv'
  BY <1>4 DEF HandlerRefresh
<1>5. ASSUME NEW h \in Handler, HandlerPut(h) PROVE OwnInv'
  BY <1>5 DEF HandlerPut
<1>6. ASSUME NEW h \in Handler, PutPeerPublicKey(h) PROVE OwnInv'
  BY <1>6 DEF PutPeerPublicKey
<1>7. ASSUME NEW h \in Handler, HandlerStop(h) PROVE OwnInv'
  BY <1>7 DEF HandlerStop, BeginAbort
<1>8. ASSUME NEW h \in Handler, HandlerPass(h) PROVE OwnInv'
  BY <1>8 DEF HandlerPass
<1>9. ASSUME NEW h \in Handler, HandlerBegin(h) PROVE OwnInv'
  BY <1>9 DEF HandlerBegin, CanBegin
<1>10. ASSUME NEW h \in Handler, HandlerRegister(h) PROVE OwnInv'
  BY <1>10 DEF HandlerRegister
<1>11. ASSUME NEW h \in Handler, HandlerStartWorker(h) PROVE OwnInv'
  BY <1>11 DEF HandlerStartWorker, MayStart
<1>12. ASSUME NEW h \in Handler, HandlerAborted(h) PROVE OwnInv'
  BY <1>12 DEF HandlerAborted
<1>13. ASSUME NEW h \in Handler, WorkerRun(h) PROVE OwnInv'
  BY <1>13 DEF WorkerRun, Submit
<1>14. ASSUME NEW h \in Handler, WorkerSave(h) PROVE OwnInv'
  BY <1>14 DEF WorkerSave, Submit
<1>15. ASSUME NEW h \in Handler, WorkerMark(h) PROVE OwnInv'
  BY <1>15 DEF WorkerMark
<1>16. ASSUME NEW h \in Handler, WorkerRecheck(h) PROVE OwnInv'
  BY <1>16 DEF WorkerRecheck, Submit
<1>17. ASSUME NEW h \in Handler, WorkerLoad(h) PROVE OwnInv'
  BY <1>17 DEF WorkerLoad, Submit
<1>18. ASSUME NEW h \in Handler, WorkerCheck(h) PROVE OwnInv'
  BY <1>18 DEF WorkerCheck
<1>19. ASSUME NEW h \in Handler, WorkerSendOK(h) PROVE OwnInv'
  BY <1>19 DEF WorkerSendOK
<1>20. ASSUME NEW h \in Handler, WorkerSendFail(h) PROVE OwnInv'
  BY <1>20 DEF WorkerSendFail, Submit, MayRetry
<1>21. ASSUME NEW h \in Handler, WorkerEnd(h) PROVE OwnInv'
  BY <1>21 DEF WorkerEnd
<1>22. ASSUME NEW h \in Handler, WorkerUnregister(h) PROVE OwnInv'
  BY <1>22 DEF WorkerUnregister, Unregistered, ClearsKeys, WorkerReturn
<1>23. ASSUME NEW h \in Handler, WorkerClear(h) PROVE OwnInv'
  BY <1>23 DEF WorkerClear, ClearDecapsKey, ClearPeerKeys, WorkerReturn
<1>24. ASSUME NEW a \in Goroutine, AbortMark(a) PROVE OwnInv'
  BY <1>24 DEF AbortMark
<1>25. ASSUME NEW a \in Goroutine, AbortLookup(a) PROVE OwnInv'
  BY <1>25 DEF AbortLookup, AbortReturn
<1>26. ASSUME NEW a \in Goroutine, AbortIsClosed(a) PROVE OwnInv'
  BY <1>26, SMTT(30) DEF AbortIsClosed, AbortReturn
<1>27. ASSUME NEW a \in Goroutine, AbortTake(a) PROVE OwnInv'
  BY <1>27 DEF AbortTake
<1>28. ASSUME NEW a \in Goroutine, AbortClose(a) PROVE OwnInv'
  BY <1>28 DEF AbortClose
<1>29. ASSUME NEW a \in Goroutine, AbortUnregister(a) PROVE OwnInv'
  BY <1>29 DEF AbortUnregister, Unregistered
<1>30. ASSUME NEW a \in Goroutine, AbortEnd(a) PROVE OwnInv'
  BY <1>30 DEF AbortEnd, ActiveAfterAbort
<1>31. ASSUME NEW a \in Goroutine, AbortClear(a) PROVE OwnInv'
  BY <1>31 DEF AbortClear, ClearDecapsKey, ClearPeerKeys
<1>32. ASSUME NEW a \in Goroutine, AbortDelete(a) PROVE OwnInv'
  BY <1>32 DEF AbortDelete, AbortReturn, Deleted
<1>33. ASSUME NEW a \in Aborter, NEW t \in Task, AbortStart(a, t)
      PROVE  OwnInv'
  BY <1>33 DEF AbortStart, BeginAbort
<1>34. ASSUME NEW t \in Task, HandleTempPublicKey(t) PROVE OwnInv'
  BY <1>34 DEF HandleTempPublicKey
<1>35. ASSUME NEW t \in Task, Expire(t) PROVE OwnInv'
  BY <1>35 DEF Expire, ClearDecapsKey, ClearPeerKeys
<1>36. CASE UNCHANGED vars
  BY <1>36 DEF vars
<1> HIDE DEF CtlInv, MayBeRegistered, Found, Taken, Goto, WorkerGoto,
             AbortGoto, isTaskAborted, sessVars, workVars, brokVars,
             abortVars, keyVars, HandlerRest, CacheVars, HandlerSame,
             AbortRest, KeyRest, Goroutine, TypeOK, OwnInv, Owner, Working,
             Running
<1> QED
  BY <1>1, <1>2, <1>3, <1>4, <1>5, <1>6, <1>7, <1>8, <1>9, <1>10, <1>11,
     <1>12, <1>13, <1>14, <1>15, <1>16, <1>17, <1>18, <1>19, <1>20, <1>21,
     <1>22, <1>23, <1>24, <1>25, <1>26, <1>27, <1>28, <1>29, <1>30, <1>31,
     <1>32, <1>33, <1>34, <1>35, <1>36, SMTT(30)
     DEF Next, HandlerStep, WorkerStep, AbortStep, AllServed

\* The abort that marks a task is the one that will cancel its run, unless
\* another one does.
LEMMA ReachInvStep ==
    ASSUME CtlInv, CtlInv', OwnInv, ReachInv, [Next]_vars
    PROVE  ReachInv'
<1> USE KeygenConstants
    DEF CtlInv, MayBeRegistered, Found, Taken, Goto, WorkerGoto, AbortGoto,
        isTaskAborted, sessVars, workVars, brokVars, abortVars, keyVars,
        HandlerRest, CacheVars, HandlerSame, AbortRest, KeyRest, Goroutine,
        TypeOK, ReachInv, Running
<1>r. \A h \in Handler :
        Running(h) /\ isTaskAborted(h) /\ h \notin cancelled =>
            /\ keygenSessions[TaskOf[h]] = h /\ h \notin closed
            /\ \A a \in Goroutine :
                 atask[a] = TaskOf[h] /\ apc[a] \in Found => asess[a] = h
  BY DEF OwnInv, Owner, Working
<1>1. ASSUME NEW h \in Handler, HandlerNote(h) PROVE ReachInv'
  BY <1>1 DEF HandlerNote
<1>2. ASSUME NEW h \in Handler, HandlerReject(h) PROVE ReachInv'
  BY <1>2 DEF HandlerReject
<1>3. ASSUME NEW h \in Handler, HandlerAdmit(h) PROVE ReachInv'
  BY <1>3 DEF HandlerAdmit
<1>4. ASSUME NEW h \in Handler, HandlerRefresh(h) PROVE ReachInv'
  BY <1>4 DEF HandlerRefresh
<1>5. ASSUME NEW h \in Handler, HandlerPut(h) PROVE ReachInv'
  BY <1>5 DEF HandlerPut
<1>6. ASSUME NEW h \in Handler, PutPeerPublicKey(h) PROVE ReachInv'
  BY <1>6 DEF PutPeerPublicKey
<1>7. ASSUME NEW h \in Handler, HandlerStop(h) PROVE ReachInv'
  BY <1>7 DEF HandlerStop, BeginAbort
<1>8. ASSUME NEW h \in Handler, HandlerPass(h) PROVE ReachInv'
  BY <1>8 DEF HandlerPass
<1>9. ASSUME NEW h \in Handler, HandlerBegin(h) PROVE ReachInv'
  BY <1>9 DEF HandlerBegin, CanBegin
<1>10. ASSUME NEW h \in Handler, HandlerRegister(h) PROVE ReachInv'
  BY <1>10 DEF HandlerRegister
<1>11. ASSUME NEW h \in Handler, HandlerStartWorker(h) PROVE ReachInv'
  BY <1>11 DEF HandlerStartWorker, MayStart
<1>12. ASSUME NEW h \in Handler, HandlerAborted(h) PROVE ReachInv'
  BY <1>12 DEF HandlerAborted
<1>13. ASSUME NEW h \in Handler, WorkerRun(h) PROVE ReachInv'
  BY <1>13 DEF WorkerRun, Submit
<1>14. ASSUME NEW h \in Handler, WorkerSave(h) PROVE ReachInv'
  BY <1>14 DEF WorkerSave, Submit
<1>15. ASSUME NEW h \in Handler, WorkerMark(h) PROVE ReachInv'
  BY <1>15 DEF WorkerMark
<1>16. ASSUME NEW h \in Handler, WorkerRecheck(h) PROVE ReachInv'
  BY <1>16 DEF WorkerRecheck, Submit
<1>17. ASSUME NEW h \in Handler, WorkerLoad(h) PROVE ReachInv'
  BY <1>17 DEF WorkerLoad, Submit
<1>18. ASSUME NEW h \in Handler, WorkerCheck(h) PROVE ReachInv'
  BY <1>18 DEF WorkerCheck
<1>19. ASSUME NEW h \in Handler, WorkerSendOK(h) PROVE ReachInv'
  BY <1>19 DEF WorkerSendOK
<1>20. ASSUME NEW h \in Handler, WorkerSendFail(h) PROVE ReachInv'
  BY <1>20 DEF WorkerSendFail, Submit, MayRetry
<1>21. ASSUME NEW h \in Handler, WorkerEnd(h) PROVE ReachInv'
  BY <1>21 DEF WorkerEnd
<1>22. ASSUME NEW h \in Handler, WorkerUnregister(h) PROVE ReachInv'
  BY <1>22 DEF WorkerUnregister, Unregistered, ClearsKeys, WorkerReturn
<1>23. ASSUME NEW h \in Handler, WorkerClear(h) PROVE ReachInv'
  BY <1>23 DEF WorkerClear, ClearDecapsKey, ClearPeerKeys, WorkerReturn
<1>24. ASSUME NEW a \in Goroutine, AbortMark(a) PROVE ReachInv'
  BY <1>24 DEF AbortMark
<1>25. ASSUME NEW a \in Goroutine, AbortLookup(a) PROVE ReachInv'
  BY <1>r, <1>25 DEF AbortLookup, AbortReturn
<1>26. ASSUME NEW a \in Goroutine, AbortIsClosed(a) PROVE ReachInv'
  BY <1>r, <1>26 DEF AbortIsClosed, AbortReturn
<1>27. ASSUME NEW a \in Goroutine, AbortTake(a) PROVE ReachInv'
  BY <1>r, <1>27 DEF AbortTake
<1>28. ASSUME NEW a \in Goroutine, AbortClose(a) PROVE ReachInv'
  BY <1>28 DEF AbortClose
<1>29. ASSUME NEW a \in Goroutine, AbortUnregister(a) PROVE ReachInv'
  BY <1>29 DEF AbortUnregister, Unregistered
<1>30. ASSUME NEW a \in Goroutine, AbortEnd(a) PROVE ReachInv'
  BY <1>30 DEF AbortEnd, ActiveAfterAbort
<1>31. ASSUME NEW a \in Goroutine, AbortClear(a) PROVE ReachInv'
  BY <1>31 DEF AbortClear, ClearDecapsKey, ClearPeerKeys
<1>32. ASSUME NEW a \in Goroutine, AbortDelete(a) PROVE ReachInv'
  BY <1>32 DEF AbortDelete, AbortReturn, Deleted
<1>33. ASSUME NEW a \in Aborter, NEW t \in Task, AbortStart(a, t)
      PROVE  ReachInv'
  BY <1>33 DEF AbortStart, BeginAbort
<1>34. ASSUME NEW t \in Task, HandleTempPublicKey(t) PROVE ReachInv'
  BY <1>34 DEF HandleTempPublicKey
<1>35. ASSUME NEW t \in Task, Expire(t) PROVE ReachInv'
  BY <1>35 DEF Expire, ClearDecapsKey, ClearPeerKeys
<1>36. CASE UNCHANGED vars
  BY <1>36 DEF vars
<1> HIDE DEF CtlInv, MayBeRegistered, Found, Taken, Goto, WorkerGoto,
             AbortGoto, isTaskAborted, sessVars, workVars, brokVars,
             abortVars, keyVars, HandlerRest, CacheVars, HandlerSame,
             AbortRest, KeyRest, Goroutine, TypeOK, ReachInv, Running
<1> QED
  BY <1>1, <1>2, <1>3, <1>4, <1>5, <1>6, <1>7, <1>8, <1>9, <1>10, <1>11,
     <1>12, <1>13, <1>14, <1>15, <1>16, <1>17, <1>18, <1>19, <1>20, <1>21,
     <1>22, <1>23, <1>24, <1>25, <1>26, <1>27, <1>28, <1>29, <1>30, <1>31,
     <1>32, <1>33, <1>34, <1>35, <1>36, SMTT(30)
     DEF Next, HandlerStep, WorkerStep, AbortStep, AllServed

\* A share and its record: Save, markPersistedKey and takePersistedKey.
LEMMA DiskInvStep ==
    ASSUME CtlInv, CtlInv', DiskInv, [Next]_vars
    PROVE  DiskInv'
<1> USE KeygenConstants
    DEF CtlInv, MayBeRegistered, Found, Taken, Goto, WorkerGoto, AbortGoto,
        isTaskAborted, sessVars, workVars, brokVars, abortVars, keyVars,
        HandlerRest, CacheVars, HandlerSame, AbortRest, KeyRest, Goroutine,
        TypeOK, DiskInv
<1>1. ASSUME NEW h \in Handler, HandlerNote(h) PROVE DiskInv'
  BY <1>1 DEF HandlerNote
<1>2. ASSUME NEW h \in Handler, HandlerReject(h) PROVE DiskInv'
  BY <1>2 DEF HandlerReject
<1>3. ASSUME NEW h \in Handler, HandlerAdmit(h) PROVE DiskInv'
  BY <1>3 DEF HandlerAdmit
<1>4. ASSUME NEW h \in Handler, HandlerRefresh(h) PROVE DiskInv'
  BY <1>4 DEF HandlerRefresh
<1>5. ASSUME NEW h \in Handler, HandlerPut(h) PROVE DiskInv'
  BY <1>5 DEF HandlerPut
<1>6. ASSUME NEW h \in Handler, PutPeerPublicKey(h) PROVE DiskInv'
  BY <1>6 DEF PutPeerPublicKey
<1>7. ASSUME NEW h \in Handler, HandlerStop(h) PROVE DiskInv'
  BY <1>7 DEF HandlerStop, BeginAbort
<1>8. ASSUME NEW h \in Handler, HandlerPass(h) PROVE DiskInv'
  BY <1>8 DEF HandlerPass
<1>9. ASSUME NEW h \in Handler, HandlerBegin(h) PROVE DiskInv'
  BY <1>9 DEF HandlerBegin, CanBegin
<1>10. ASSUME NEW h \in Handler, HandlerRegister(h) PROVE DiskInv'
  BY <1>10 DEF HandlerRegister
<1>11. ASSUME NEW h \in Handler, HandlerStartWorker(h) PROVE DiskInv'
  BY <1>11 DEF HandlerStartWorker, MayStart
<1>12. ASSUME NEW h \in Handler, HandlerAborted(h) PROVE DiskInv'
  BY <1>12 DEF HandlerAborted
<1>13. ASSUME NEW h \in Handler, WorkerRun(h) PROVE DiskInv'
  BY <1>13 DEF WorkerRun, Submit
<1>14. ASSUME NEW h \in Handler, WorkerSave(h) PROVE DiskInv'
  BY <1>14 DEF WorkerSave, Submit
<1>15. ASSUME NEW h \in Handler, WorkerMark(h) PROVE DiskInv'
  BY <1>15 DEF WorkerMark
<1>16. ASSUME NEW h \in Handler, WorkerRecheck(h) PROVE DiskInv'
  BY <1>16 DEF WorkerRecheck, Submit
<1>17. ASSUME NEW h \in Handler, WorkerLoad(h) PROVE DiskInv'
  BY <1>17 DEF WorkerLoad, Submit
<1>18. ASSUME NEW h \in Handler, WorkerCheck(h) PROVE DiskInv'
  BY <1>18 DEF WorkerCheck
<1>19. ASSUME NEW h \in Handler, WorkerSendOK(h) PROVE DiskInv'
  BY <1>19 DEF WorkerSendOK
<1>20. ASSUME NEW h \in Handler, WorkerSendFail(h) PROVE DiskInv'
  BY <1>20 DEF WorkerSendFail, Submit, MayRetry
<1>21. ASSUME NEW h \in Handler, WorkerEnd(h) PROVE DiskInv'
  BY <1>21 DEF WorkerEnd
<1>22. ASSUME NEW h \in Handler, WorkerUnregister(h) PROVE DiskInv'
  BY <1>22 DEF WorkerUnregister, Unregistered, ClearsKeys, WorkerReturn
<1>23. ASSUME NEW h \in Handler, WorkerClear(h) PROVE DiskInv'
  BY <1>23 DEF WorkerClear, ClearDecapsKey, ClearPeerKeys, WorkerReturn
<1>24. ASSUME NEW a \in Goroutine, AbortMark(a) PROVE DiskInv'
  BY <1>24 DEF AbortMark
<1>25. ASSUME NEW a \in Goroutine, AbortLookup(a) PROVE DiskInv'
  BY <1>25 DEF AbortLookup, AbortReturn
<1>26. ASSUME NEW a \in Goroutine, AbortIsClosed(a) PROVE DiskInv'
  BY <1>26 DEF AbortIsClosed, AbortReturn
<1>27. ASSUME NEW a \in Goroutine, AbortTake(a) PROVE DiskInv'
  BY <1>27 DEF AbortTake
<1>28. ASSUME NEW a \in Goroutine, AbortClose(a) PROVE DiskInv'
  BY <1>28 DEF AbortClose
<1>29. ASSUME NEW a \in Goroutine, AbortUnregister(a) PROVE DiskInv'
  BY <1>29 DEF AbortUnregister, Unregistered
<1>30. ASSUME NEW a \in Goroutine, AbortEnd(a) PROVE DiskInv'
  BY <1>30 DEF AbortEnd, ActiveAfterAbort
<1>31. ASSUME NEW a \in Goroutine, AbortClear(a) PROVE DiskInv'
  BY <1>31 DEF AbortClear, ClearDecapsKey, ClearPeerKeys
<1>32. ASSUME NEW a \in Goroutine, AbortDelete(a) PROVE DiskInv'
  BY <1>32 DEF AbortDelete, AbortReturn, Deleted
<1>33. ASSUME NEW a \in Aborter, NEW t \in Task, AbortStart(a, t)
      PROVE  DiskInv'
  BY <1>33 DEF AbortStart, BeginAbort
<1>34. ASSUME NEW t \in Task, HandleTempPublicKey(t) PROVE DiskInv'
  BY <1>34 DEF HandleTempPublicKey
<1>35. ASSUME NEW t \in Task, Expire(t) PROVE DiskInv'
  BY <1>35 DEF Expire, ClearDecapsKey, ClearPeerKeys
<1>36. CASE UNCHANGED vars
  BY <1>36 DEF vars
<1> HIDE DEF CtlInv, MayBeRegistered, Found, Taken, Goto, WorkerGoto,
             AbortGoto, isTaskAborted, sessVars, workVars, brokVars,
             abortVars, keyVars, HandlerRest, CacheVars, HandlerSame,
             AbortRest, KeyRest, Goroutine, TypeOK, DiskInv
<1> QED
  BY <1>1, <1>2, <1>3, <1>4, <1>5, <1>6, <1>7, <1>8, <1>9, <1>10, <1>11,
     <1>12, <1>13, <1>14, <1>15, <1>16, <1>17, <1>18, <1>19, <1>20, <1>21,
     <1>22, <1>23, <1>24, <1>25, <1>26, <1>27, <1>28, <1>29, <1>30, <1>31,
     <1>32, <1>33, <1>34, <1>35, <1>36, SMTT(30)
     DEF Next, HandlerStep, WorkerStep, AbortStep, AllServed

\* A registration closes what it replaces, and each registers only once.
LEMMA OpenInvStep ==
    ASSUME CtlInv, CtlInv', OwnInv, OpenInv, [Next]_vars
    PROVE  OpenInv'
<1> USE KeygenConstants
    DEF CtlInv, MayBeRegistered, Found, Taken, Goto, WorkerGoto, AbortGoto,
        isTaskAborted, sessVars, workVars, brokVars, abortVars, keyVars,
        HandlerRest, CacheVars, HandlerSame, AbortRest, KeyRest, Goroutine,
        TypeOK, OpenInv
<1>1. ASSUME NEW h \in Handler, HandlerNote(h) PROVE OpenInv'
  BY <1>1 DEF HandlerNote
<1>2. ASSUME NEW h \in Handler, HandlerReject(h) PROVE OpenInv'
  BY <1>2 DEF HandlerReject
<1>3. ASSUME NEW h \in Handler, HandlerAdmit(h) PROVE OpenInv'
  BY <1>3 DEF HandlerAdmit
<1>4. ASSUME NEW h \in Handler, HandlerRefresh(h) PROVE OpenInv'
  BY <1>4 DEF HandlerRefresh
<1>5. ASSUME NEW h \in Handler, HandlerPut(h) PROVE OpenInv'
  BY <1>5 DEF HandlerPut
<1>6. ASSUME NEW h \in Handler, PutPeerPublicKey(h) PROVE OpenInv'
  BY <1>6 DEF PutPeerPublicKey
<1>7. ASSUME NEW h \in Handler, HandlerStop(h) PROVE OpenInv'
  BY <1>7 DEF HandlerStop, BeginAbort
<1>8. ASSUME NEW h \in Handler, HandlerPass(h) PROVE OpenInv'
  BY <1>8 DEF HandlerPass
<1>9. ASSUME NEW h \in Handler, HandlerBegin(h) PROVE OpenInv'
  BY <1>9 DEF HandlerBegin, CanBegin
<1>10. ASSUME NEW h \in Handler, HandlerRegister(h) PROVE OpenInv'
  BY <1>10 DEF HandlerRegister
<1>11. ASSUME NEW h \in Handler, HandlerStartWorker(h) PROVE OpenInv'
  BY <1>11 DEF HandlerStartWorker, MayStart
<1>12. ASSUME NEW h \in Handler, HandlerAborted(h) PROVE OpenInv'
  BY <1>12 DEF HandlerAborted
<1>13. ASSUME NEW h \in Handler, WorkerRun(h) PROVE OpenInv'
  BY <1>13 DEF WorkerRun, Submit
<1>14. ASSUME NEW h \in Handler, WorkerSave(h) PROVE OpenInv'
  BY <1>14 DEF WorkerSave, Submit
<1>15. ASSUME NEW h \in Handler, WorkerMark(h) PROVE OpenInv'
  BY <1>15 DEF WorkerMark
<1>16. ASSUME NEW h \in Handler, WorkerRecheck(h) PROVE OpenInv'
  BY <1>16 DEF WorkerRecheck, Submit
<1>17. ASSUME NEW h \in Handler, WorkerLoad(h) PROVE OpenInv'
  BY <1>17 DEF WorkerLoad, Submit
<1>18. ASSUME NEW h \in Handler, WorkerCheck(h) PROVE OpenInv'
  BY <1>18 DEF WorkerCheck
<1>19. ASSUME NEW h \in Handler, WorkerSendOK(h) PROVE OpenInv'
  BY <1>19 DEF WorkerSendOK
<1>20. ASSUME NEW h \in Handler, WorkerSendFail(h) PROVE OpenInv'
  BY <1>20 DEF WorkerSendFail, Submit, MayRetry
<1>21. ASSUME NEW h \in Handler, WorkerEnd(h) PROVE OpenInv'
  BY <1>21 DEF WorkerEnd
<1>22. ASSUME NEW h \in Handler, WorkerUnregister(h) PROVE OpenInv'
  BY <1>22 DEF WorkerUnregister, Unregistered, ClearsKeys, WorkerReturn
<1>23. ASSUME NEW h \in Handler, WorkerClear(h) PROVE OpenInv'
  BY <1>23 DEF WorkerClear, ClearDecapsKey, ClearPeerKeys, WorkerReturn
<1>24. ASSUME NEW a \in Goroutine, AbortMark(a) PROVE OpenInv'
  BY <1>24 DEF AbortMark
<1>25. ASSUME NEW a \in Goroutine, AbortLookup(a) PROVE OpenInv'
  BY <1>25 DEF AbortLookup, AbortReturn
<1>26. ASSUME NEW a \in Goroutine, AbortIsClosed(a) PROVE OpenInv'
  BY <1>26 DEF AbortIsClosed, AbortReturn
<1>27. ASSUME NEW a \in Goroutine, AbortTake(a) PROVE OpenInv'
  BY <1>27 DEF AbortTake
<1>28. ASSUME NEW a \in Goroutine, AbortClose(a) PROVE OpenInv'
  BY <1>28 DEF AbortClose
<1>29. ASSUME NEW a \in Goroutine, AbortUnregister(a) PROVE OpenInv'
  BY <1>29 DEF AbortUnregister, Unregistered
<1>30. ASSUME NEW a \in Goroutine, AbortEnd(a) PROVE OpenInv'
  BY <1>30 DEF AbortEnd, ActiveAfterAbort
<1>31. ASSUME NEW a \in Goroutine, AbortClear(a) PROVE OpenInv'
  BY <1>31 DEF AbortClear, ClearDecapsKey, ClearPeerKeys
<1>32. ASSUME NEW a \in Goroutine, AbortDelete(a) PROVE OpenInv'
  BY <1>32 DEF AbortDelete, AbortReturn, Deleted
<1>33. ASSUME NEW a \in Aborter, NEW t \in Task, AbortStart(a, t)
      PROVE  OpenInv'
  BY <1>33 DEF AbortStart, BeginAbort
<1>34. ASSUME NEW t \in Task, HandleTempPublicKey(t) PROVE OpenInv'
  BY <1>34 DEF HandleTempPublicKey
<1>35. ASSUME NEW t \in Task, Expire(t) PROVE OpenInv'
  BY <1>35 DEF Expire, ClearDecapsKey, ClearPeerKeys
<1>36. CASE UNCHANGED vars
  BY <1>36 DEF vars
<1> HIDE DEF CtlInv, MayBeRegistered, Found, Taken, Goto, WorkerGoto,
             AbortGoto, isTaskAborted, sessVars, workVars, brokVars,
             abortVars, keyVars, HandlerRest, CacheVars, HandlerSame,
             AbortRest, KeyRest, Goroutine, TypeOK, OpenInv
<1> QED
  BY <1>1, <1>2, <1>3, <1>4, <1>5, <1>6, <1>7, <1>8, <1>9, <1>10, <1>11,
     <1>12, <1>13, <1>14, <1>15, <1>16, <1>17, <1>18, <1>19, <1>20, <1>21,
     <1>22, <1>23, <1>24, <1>25, <1>26, <1>27, <1>28, <1>29, <1>30, <1>31,
     <1>32, <1>33, <1>34, <1>35, <1>36, SMTT(30)
     DEF Next, HandlerStep, WorkerStep, AbortStep, AllServed

\* The keys of a run: only the worker of the session that was registered
\* clears them, and they do not expire under a run.
LEMMA KeyInvStep ==
    ASSUME CtlInv, CtlInv', OpenInv, OpenInv', KeyInv, [Next]_vars
    PROVE  KeyInv'
<1> USE KeygenConstants
    DEF CtlInv, MayBeRegistered, Found, Taken, Goto, WorkerGoto, AbortGoto,
        isTaskAborted, sessVars, workVars, brokVars, abortVars, keyVars,
        HandlerRest, CacheVars, HandlerSame, AbortRest, KeyRest, Goroutine,
        TypeOK, KeyInv, Keyed, KeysFresh
<1>1. ASSUME NEW h \in Handler, HandlerNote(h) PROVE KeyInv'
  BY <1>1 DEF HandlerNote
<1>2. ASSUME NEW h \in Handler, HandlerReject(h) PROVE KeyInv'
  BY <1>2 DEF HandlerReject
<1>3. ASSUME NEW h \in Handler, HandlerAdmit(h) PROVE KeyInv'
  BY <1>3 DEF HandlerAdmit
<1>4. ASSUME NEW h \in Handler, HandlerRefresh(h) PROVE KeyInv'
  BY <1>4 DEF HandlerRefresh
<1>5. ASSUME NEW h \in Handler, HandlerPut(h) PROVE KeyInv'
  BY <1>5 DEF HandlerPut
<1>6. ASSUME NEW h \in Handler, PutPeerPublicKey(h) PROVE KeyInv'
  BY <1>6 DEF PutPeerPublicKey
<1>7. ASSUME NEW h \in Handler, HandlerStop(h) PROVE KeyInv'
  BY <1>7 DEF HandlerStop, BeginAbort
<1>8. ASSUME NEW h \in Handler, HandlerPass(h) PROVE KeyInv'
  BY <1>8 DEF HandlerPass
<1>9. ASSUME NEW h \in Handler, HandlerBegin(h) PROVE KeyInv'
  BY <1>9 DEF HandlerBegin, CanBegin
<1>10. ASSUME NEW h \in Handler, HandlerRegister(h) PROVE KeyInv'
  BY <1>10 DEF HandlerRegister, OpenInv
<1>11. ASSUME NEW h \in Handler, HandlerStartWorker(h) PROVE KeyInv'
  BY <1>11 DEF HandlerStartWorker, MayStart
<1>12. ASSUME NEW h \in Handler, HandlerAborted(h) PROVE KeyInv'
  BY <1>12 DEF HandlerAborted
<1>13. ASSUME NEW h \in Handler, WorkerRun(h) PROVE KeyInv'
  BY <1>13 DEF WorkerRun, Submit
<1>14. ASSUME NEW h \in Handler, WorkerSave(h) PROVE KeyInv'
  BY <1>14 DEF WorkerSave, Submit
<1>15. ASSUME NEW h \in Handler, WorkerMark(h) PROVE KeyInv'
  BY <1>15 DEF WorkerMark
<1>16. ASSUME NEW h \in Handler, WorkerRecheck(h) PROVE KeyInv'
  BY <1>16 DEF WorkerRecheck, Submit
<1>17. ASSUME NEW h \in Handler, WorkerLoad(h) PROVE KeyInv'
  BY <1>17 DEF WorkerLoad, Submit
<1>18. ASSUME NEW h \in Handler, WorkerCheck(h) PROVE KeyInv'
  BY <1>18 DEF WorkerCheck
<1>19. ASSUME NEW h \in Handler, WorkerSendOK(h) PROVE KeyInv'
  BY <1>19 DEF WorkerSendOK
<1>20. ASSUME NEW h \in Handler, WorkerSendFail(h) PROVE KeyInv'
  BY <1>20 DEF WorkerSendFail, Submit, MayRetry
<1>21. ASSUME NEW h \in Handler, WorkerEnd(h) PROVE KeyInv'
  BY <1>21 DEF WorkerEnd
<1>22. ASSUME NEW h \in Handler, WorkerUnregister(h) PROVE KeyInv'
  BY <1>22 DEF WorkerUnregister, Unregistered, ClearsKeys, WorkerReturn
<1>23. ASSUME NEW h \in Handler, WorkerClear(h) PROVE KeyInv'
  BY <1>23 DEF WorkerClear, ClearDecapsKey, ClearPeerKeys, WorkerReturn,
             OpenInv
<1>24. ASSUME NEW a \in Goroutine, AbortMark(a) PROVE KeyInv'
  BY <1>24 DEF AbortMark
<1>25. ASSUME NEW a \in Goroutine, AbortLookup(a) PROVE KeyInv'
  BY <1>25 DEF AbortLookup, AbortReturn
<1>26. ASSUME NEW a \in Goroutine, AbortIsClosed(a) PROVE KeyInv'
  BY <1>26 DEF AbortIsClosed, AbortReturn
<1>27. ASSUME NEW a \in Goroutine, AbortTake(a) PROVE KeyInv'
  BY <1>27 DEF AbortTake
<1>28. ASSUME NEW a \in Goroutine, AbortClose(a) PROVE KeyInv'
  BY <1>28 DEF AbortClose
<1>29. ASSUME NEW a \in Goroutine, AbortUnregister(a) PROVE KeyInv'
  BY <1>29 DEF AbortUnregister, Unregistered
<1>30. ASSUME NEW a \in Goroutine, AbortEnd(a) PROVE KeyInv'
  BY <1>30 DEF AbortEnd, ActiveAfterAbort
<1>31. ASSUME NEW a \in Goroutine, AbortClear(a) PROVE KeyInv'
  BY <1>31 DEF AbortClear, ClearDecapsKey, ClearPeerKeys
<1>32. ASSUME NEW a \in Goroutine, AbortDelete(a) PROVE KeyInv'
  BY <1>32 DEF AbortDelete, AbortReturn, Deleted
<1>33. ASSUME NEW a \in Aborter, NEW t \in Task, AbortStart(a, t)
      PROVE  KeyInv'
  BY <1>33 DEF AbortStart, BeginAbort
<1>34. ASSUME NEW t \in Task, HandleTempPublicKey(t) PROVE KeyInv'
  BY <1>34 DEF HandleTempPublicKey
<1>35. ASSUME NEW t \in Task, Expire(t) PROVE KeyInv'
  BY <1>35 DEF Expire, ClearDecapsKey, ClearPeerKeys
<1>36. CASE UNCHANGED vars
  BY <1>36 DEF vars
<1> HIDE DEF CtlInv, MayBeRegistered, Found, Taken, Goto, WorkerGoto,
             AbortGoto, isTaskAborted, sessVars, workVars, brokVars,
             abortVars, keyVars, HandlerRest, CacheVars, HandlerSame,
             AbortRest, KeyRest, Goroutine, TypeOK, KeyInv, Keyed, KeysFresh
<1> QED
  BY <1>1, <1>2, <1>3, <1>4, <1>5, <1>6, <1>7, <1>8, <1>9, <1>10, <1>11,
     <1>12, <1>13, <1>14, <1>15, <1>16, <1>17, <1>18, <1>19, <1>20, <1>21,
     <1>22, <1>23, <1>24, <1>25, <1>26, <1>27, <1>28, <1>29, <1>30, <1>31,
     <1>32, <1>33, <1>34, <1>35, <1>36, SMTT(30)
     DEF Next, HandlerStep, WorkerStep, AbortStep, AllServed

\* Whoever takes the session out of the map clears the keys.
LEMMA ClearInvStep ==
    ASSUME CtlInv, CtlInv', OwnInv, OpenInv, KeyInv, ClearInv, [Next]_vars
    PROVE  ClearInv'
<1> USE KeygenConstants
    DEF CtlInv, MayBeRegistered, Found, Taken, Goto, WorkerGoto, AbortGoto,
        isTaskAborted, sessVars, workVars, brokVars, abortVars, keyVars,
        HandlerRest, CacheVars, HandlerSame, AbortRest, KeyRest, Goroutine,
        TypeOK, ClearInv, Only
<1>1. ASSUME NEW h \in Handler, HandlerNote(h) PROVE ClearInv'
  BY <1>1 DEF HandlerNote
<1>2. ASSUME NEW h \in Handler, HandlerReject(h) PROVE ClearInv'
  BY <1>2 DEF HandlerReject
<1>3. ASSUME NEW h \in Handler, HandlerAdmit(h) PROVE ClearInv'
  BY <1>3 DEF HandlerAdmit
<1>4. ASSUME NEW h \in Handler, HandlerRefresh(h) PROVE ClearInv'
  BY <1>4 DEF HandlerRefresh
<1>5. ASSUME NEW h \in Handler, HandlerPut(h) PROVE ClearInv'
  BY <1>5 DEF HandlerPut
<1>6. ASSUME NEW h \in Handler, PutPeerPublicKey(h) PROVE ClearInv'
  BY <1>6 DEF PutPeerPublicKey
<1>7. ASSUME NEW h \in Handler, HandlerStop(h) PROVE ClearInv'
  BY <1>7 DEF HandlerStop, BeginAbort
<1>8. ASSUME NEW h \in Handler, HandlerPass(h) PROVE ClearInv'
  BY <1>8 DEF HandlerPass
<1>9. ASSUME NEW h \in Handler, HandlerBegin(h) PROVE ClearInv'
  BY <1>9 DEF HandlerBegin, CanBegin
<1>10. ASSUME NEW h \in Handler, HandlerRegister(h) PROVE ClearInv'
  BY <1>10 DEF HandlerRegister
<1>11. ASSUME NEW h \in Handler, HandlerStartWorker(h) PROVE ClearInv'
  <2>1. keygenSessions[TaskOf[h]] = h
    BY <1>11 DEF HandlerStartWorker, MayStart, OwnInv, Owner
  <2> QED BY <1>11, <2>1 DEF HandlerStartWorker, MayStart
<1>12. ASSUME NEW h \in Handler, HandlerAborted(h) PROVE ClearInv'
  BY <1>12 DEF HandlerAborted
<1>13. ASSUME NEW h \in Handler, WorkerRun(h) PROVE ClearInv'
  BY <1>13 DEF WorkerRun, Submit
<1>14. ASSUME NEW h \in Handler, WorkerSave(h) PROVE ClearInv'
  BY <1>14 DEF WorkerSave, Submit
<1>15. ASSUME NEW h \in Handler, WorkerMark(h) PROVE ClearInv'
  BY <1>15 DEF WorkerMark
<1>16. ASSUME NEW h \in Handler, WorkerRecheck(h) PROVE ClearInv'
  BY <1>16 DEF WorkerRecheck, Submit
<1>17. ASSUME NEW h \in Handler, WorkerLoad(h) PROVE ClearInv'
  BY <1>17 DEF WorkerLoad, Submit
<1>18. ASSUME NEW h \in Handler, WorkerCheck(h) PROVE ClearInv'
  BY <1>18 DEF WorkerCheck
<1>19. ASSUME NEW h \in Handler, WorkerSendOK(h) PROVE ClearInv'
  BY <1>19 DEF WorkerSendOK
<1>20. ASSUME NEW h \in Handler, WorkerSendFail(h) PROVE ClearInv'
  BY <1>20 DEF WorkerSendFail, Submit, MayRetry
<1>21. ASSUME NEW h \in Handler, WorkerEnd(h) PROVE ClearInv'
  BY <1>21 DEF WorkerEnd
<1>22. ASSUME NEW h \in Handler, WorkerUnregister(h) PROVE ClearInv'
  BY <1>22 DEF WorkerUnregister, Unregistered, ClearsKeys, WorkerReturn
<1>23. ASSUME NEW h \in Handler, WorkerClear(h) PROVE ClearInv'
  BY <1>23 DEF WorkerClear, ClearDecapsKey, ClearPeerKeys, WorkerReturn
<1>24. ASSUME NEW a \in Goroutine, AbortMark(a) PROVE ClearInv'
  BY <1>24 DEF AbortMark
<1>25. ASSUME NEW a \in Goroutine, AbortLookup(a) PROVE ClearInv'
  BY <1>25 DEF AbortLookup, AbortReturn
<1>26. ASSUME NEW a \in Goroutine, AbortIsClosed(a) PROVE ClearInv'
  BY <1>26 DEF AbortIsClosed, AbortReturn
<1>27. ASSUME NEW a \in Goroutine, AbortTake(a) PROVE ClearInv'
  BY <1>27 DEF AbortTake
<1>28. ASSUME NEW a \in Goroutine, AbortClose(a) PROVE ClearInv'
  BY <1>28 DEF AbortClose
<1>29. ASSUME NEW a \in Goroutine, AbortUnregister(a) PROVE ClearInv'
  BY <1>29 DEF AbortUnregister, Unregistered
<1>30. ASSUME NEW a \in Goroutine, AbortEnd(a) PROVE ClearInv'
  BY <1>30 DEF AbortEnd, ActiveAfterAbort
<1>31. ASSUME NEW a \in Goroutine, AbortClear(a) PROVE ClearInv'
  BY <1>31 DEF AbortClear, ClearDecapsKey, ClearPeerKeys
<1>32. ASSUME NEW a \in Goroutine, AbortDelete(a) PROVE ClearInv'
  BY <1>32 DEF AbortDelete, AbortReturn, Deleted
<1>33. ASSUME NEW a \in Aborter, NEW t \in Task, AbortStart(a, t)
      PROVE  ClearInv'
  BY <1>33 DEF AbortStart, BeginAbort
<1>34. ASSUME NEW t \in Task, HandleTempPublicKey(t) PROVE ClearInv'
  <2>1. \A h \in Handler : Only(h)' => TaskOf[h] # t
    BY <1>34 DEF HandleTempPublicKey, KeyInv
  <2> QED BY <1>34, <2>1 DEF HandleTempPublicKey
<1>35. ASSUME NEW t \in Task, Expire(t) PROVE ClearInv'
  BY <1>35 DEF Expire, ClearDecapsKey, ClearPeerKeys
<1>36. CASE UNCHANGED vars
  BY <1>36 DEF vars
<1> HIDE DEF CtlInv, MayBeRegistered, Found, Taken, Goto, WorkerGoto,
             AbortGoto, isTaskAborted, sessVars, workVars, brokVars,
             abortVars, keyVars, HandlerRest, CacheVars, HandlerSame,
             AbortRest, KeyRest, Goroutine, TypeOK, ClearInv, Only
<1> QED
  BY <1>1, <1>2, <1>3, <1>4, <1>5, <1>6, <1>7, <1>8, <1>9, <1>10, <1>11,
     <1>12, <1>13, <1>14, <1>15, <1>16, <1>17, <1>18, <1>19, <1>20, <1>21,
     <1>22, <1>23, <1>24, <1>25, <1>26, <1>27, <1>28, <1>29, <1>30, <1>31,
     <1>32, <1>33, <1>34, <1>35, <1>36, SMTT(30)
     DEF Next, HandlerStep, WorkerStep, AbortStep, AllServed
-----------------------------------------------------------------------------
(***************************************************************************)
(* The theorems.                                                           *)
(***************************************************************************)
Inv == /\ CtlInv /\ OwnInv /\ ReachInv /\ DiskInv /\ OpenInv /\ KeyInv
       /\ ClearInv

LEMMA InvCorrect == Spec => []Inv
<1>1. Init => Inv
  BY InvInit DEF Inv
<1>2. Inv /\ [Next]_vars => Inv'
  <2> SUFFICES ASSUME Inv, [Next]_vars PROVE Inv'
    OBVIOUS
  <2>1. CtlInv'
    BY CtlInvStep DEF Inv
  <2>2. OwnInv' /\ ReachInv' /\ DiskInv' /\ OpenInv'
    BY <2>1, OwnInvStep, ReachInvStep, DiskInvStep, OpenInvStep DEF Inv
  <2>3. KeyInv' /\ ClearInv'
    BY <2>1, <2>2, KeyInvStep, ClearInvStep DEF Inv
  <2> QED BY <2>1, <2>2, <2>3 DEF Inv
<1> QED BY <1>1, <1>2, PTL DEF Spec

\* The state is well typed; no result is tried more than MaxAttempts times.
THEOREM TypeCorrect == Spec => []TypeOK
<1>1. Inv => TypeOK
  BY DEF Inv, CtlInv
<1> QED BY <1>1, InvCorrect, PTL

\* However often HandleKeygenStart runs for a task and whenever an abort comes,
\* a task that is not aborted has one worker, which is registered in
\* keygenSessions and active in keygenActive.
THEOREM OneRunCorrect == Spec => []OneRunPerTask
<1>1. Inv => OneRunPerTask
  BY KeygenConstants DEF Inv, CtlInv, OwnInv, Owner, Working, OneRunPerTask
<1> QED BY <1>1, InvCorrect, PTL

\* abortTaskSession reaches the run of its task, whatever it interleaves with:
\* the run is cancelled, or some step of the abort is still to do it.
THEOREM AbortCorrect == Spec => []AbortReaches
<1>1. Inv => AbortReaches
  BY KeygenConstants
  DEF Inv, CtlInv, OwnInv, Owner, Working, ReachInv, Running, Found,
      AbortReaches
<1> QED BY <1>1, InvCorrect, PTL

\* The share that a cancelled run has saved and recorded (markPersistedKey) is
\* deleted by the abort that takes the record (deleteUnconfirmedKeygenShare),
\* or the store fails at it: no interleaving leaves a recorded share behind.
THEOREM CleanUpCorrect == Spec => []CancelledRunCleansUp
<1>1. Inv => CancelledRunCleansUp
  BY DEF Inv, CtlInv, TypeOK, DiskInv, CancelledRunCleansUp
<1> QED BY <1>1, InvCorrect, PTL

\* A run has the temporary keys that it decrypts with, unless an earlier run of
\* its task was still to call ClearKeygenSessionKeys when it registered.
THEOREM RunKeysCorrect == Spec => []RunHasKeys
<1>1. Inv => RunHasKeys
  BY DEF Inv, CtlInv, KeyInv, Keyed, KeysFresh, RunHasKeys
<1> QED BY <1>1, InvCorrect, PTL

\* The temporary keys of a task do not outlive its only run: the worker or the
\* abort that unregisters the session clears them.
THEOREM KeysClearedCorrect == Spec => []TempKeysCleared
<1>1. Inv => TempKeysCleared
  BY DEF Inv, OpenInv, ClearInv, Only, TempKeysCleared
<1> QED BY <1>1, InvCorrect, PTL
=============================================================================

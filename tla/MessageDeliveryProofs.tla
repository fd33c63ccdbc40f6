----------------------- MODULE MessageDeliveryProofs -----------------------
(***************************************************************************)
(* Proofs about MessageDelivery, for any number of messages, pushes,       *)
(* executions of the task and goroutines that abort it, and for every      *)
(* capacity of the caches and the channel.                                 *)
(***************************************************************************)
EXTENDS MessageDelivery, TLAPS

\* The queues and their capacities.
QueueOK ==
    /\ early \in Seq(Msg) /\ Len(early) <= maxEarly
    /\ recvCh \in [Session -> Seq(Msg)]
    /\ \A s \in Session : Len(recvCh[s]) <= RecvBuf
    /\ replay \in [Session -> Seq(Msg)]
    /\ earlyMsgs \in [Session -> Seq(Msg)]

\* The rest of TypeOK, and what a goroutine knows at its control point.
CtlOK ==
    /\ copies \in [Msg -> 0 .. MaxCopies] /\ pushed \in 0 .. MaxPushes
    /\ aborted \in BOOLEAN /\ panicked \in BOOLEAN
    /\ active \in Session \union {NoSession}
    /\ session \in Session \union {NoSession}
    /\ closed \in SUBSET Session
    /\ cpc \in {"idle", "lookup", "cache", "check", "send"}
    /\ cmsg \in Msg \union {NoMsg} /\ csess \in Session \union {NoSession}
    /\ missed \in SUBSET Msg
    /\ hpc \in [Session -> {"idle", "begin", "rejected", "take", "swap",
                            "check", "send", "stop", "aborting", "party",
                            "run", "unregister", "dropEarly", "done"}]
    /\ dpc \in [Session -> {"none", "select", "flush", "done"}]
    /\ partyStarted \in SUBSET Session /\ partyReady \in SUBSET Session
    /\ apc \in [Aborter -> {"mark", "ready", "lookup", "isClosed", "close",
                            "unregister", "dropEarly", "end", "clear"}]
    /\ asess \in [Aborter -> Session \union {NoSession}]
    /\ IF cpc = "idle" THEN cmsg = NoMsg ELSE cmsg \in Msg
    /\ cpc \in {"check", "send"} => csess \in Session
    /\ \A s \in Session :
         /\ hpc[s] = "send" => replay[s] # <<>>
         /\ hpc[s] \in {"idle", "begin", "take"} => replay[s] = <<>>
    /\ \A a \in Aborter : apc[a] \in {"isClosed", "close"}
         => asess[a] \in Session

\* A message is marked exactly when one of the executions was given it.
HandedInv ==
    /\ handed \in [Session -> [Msg -> Nat]] /\ HandedOnce
    /\ dedup \in SUBSET Msg /\ refused \in SUBSET Msg
    /\ \A s \in Session, m \in Msg : handed[s][m] > 0 => m \in dedup
    /\ \A m \in dedup : \E s \in Session : handed[s][m] > 0

\* What is on its way to one execution was pushed: the early cache, which it
\* may still take, its own queues, and what the reader holds.
Held == IF cpc = "idle" THEN 0 ELSE 1
Load(s) == Len(early) + Len(replay[s]) + Len(recvCh[s]) + Len(earlyMsgs[s])
CountInv == \A s \in Session : Load(s) + Held <= pushed

\* As long as nothing is aborted and the execution has not ended it is the
\* only one, and nothing is closed.
OnlyInv ==
    Undisturbed =>
        /\ closed = {} /\ session \in {NoSession, active}
        /\ \A s \in Session :
             /\ hpc[s] \notin {"idle", "begin", "rejected"} => active = s
             /\ hpc[s] # "aborting"
        /\ \A a \in Aborter : apc[a] \in {"mark", "ready"}

\* The places a message can be in.
OnItsWay(m) ==
    \/ cmsg = m
    \/ Awaited /\ Contains(early, m)
    \/ \E s \in Session : \/ Contains(replay[s], m)
                          \/ Contains(recvCh[s], m)
                          \/ Contains(earlyMsgs[s], m)
Delivered(m) == \E s \in Session : handed[s][m] > 0
KeepInv ==
    Undisturbed /\ pushed <= maxEarly =>
        \A m \in Msg \ (Own \union refused \union missed) :
            copies[m] > 0 => OnItsWay(m) \/ Delivered(m)

Inv == CtlOK /\ QueueOK /\ HandedInv /\ CountInv /\ OnlyInv /\ KeepInv
-----------------------------------------------------------------------------
\* Queues: what Append and Tail do to the length and to the members.
LEMMA AppendFacts ==
    ASSUME NEW q \in Seq(Msg), NEW m \in Msg
    PROVE  /\ Append(q, m) \in Seq(Msg) /\ Len(Append(q, m)) = Len(q) + 1
           /\ \A x : Contains(q, x) => Contains(Append(q, m), x)
           /\ Contains(Append(q, m), m)
<1>1. /\ Append(q, m) \in Seq(Msg) /\ Len(Append(q, m)) = Len(q) + 1
      /\ Append(q, m)[Len(q) + 1] = m
      /\ \A i \in 1 .. Len(q) : Append(q, m)[i] = q[i]
      /\ Len(q) \in Nat
  OBVIOUS
<1> QED BY <1>1 DEF Contains

LEMMA TailFacts ==
    ASSUME NEW q \in Seq(Msg), q # <<>>
    PROVE  /\ Head(q) \in Msg /\ Tail(q) \in Seq(Msg)
           /\ Len(q) > 0 /\ Len(Tail(q)) = Len(q) - 1
           /\ \A x : Contains(q, x) => x = Head(q) \/ Contains(Tail(q), x)
<1>1. /\ Head(q) \in Msg /\ Tail(q) \in Seq(Msg) /\ Head(q) = q[1]
      /\ Len(q) > 0 /\ Len(Tail(q)) = Len(q) - 1 /\ Len(q) \in Nat
      /\ \A i \in 1 .. Len(q) - 1 : Tail(q)[i] = q[i + 1]
  OBVIOUS
<1>2. ASSUME NEW x, NEW i \in 1 .. Len(q), q[i] = x, x # Head(q)
      PROVE  Contains(Tail(q), x)
  <2>1. i - 1 \in 1 .. Len(Tail(q))
    BY <1>1, <1>2
  <2>2. Tail(q)[i - 1] = x
    BY <1>1, <1>2, <2>1
  <2> QED BY <2>1, <2>2 DEF Contains
<1> QED BY <1>1, <1>2 DEF Contains

LEMMA EmptyFacts == /\ <<>> \in Seq(Msg) /\ Len(<<>>) = 0
                    /\ \A x : ~Contains(<<>>, x)
BY DEF Contains

\* case recvCh <- item, for a goroutine that was let in by the closed test.
LEMMA SendFacts ==
    ASSUME QueueOK, panicked \in BOOLEAN, NEW s \in Session, NEW m \in Msg,
           Send(s, m)
    PROVE  /\ recvCh' \in [Session -> Seq(Msg)] /\ panicked' \in BOOLEAN
           /\ \A t \in Session : Len(recvCh'[t]) <= RecvBuf
           /\ \A t \in Session \ {s} : recvCh'[t] = recvCh[t]
           /\ Len(recvCh'[s]) <= Len(recvCh[s]) + 1
           /\ \A x : Contains(recvCh[s], x) => Contains(recvCh'[s], x)
           /\ s \notin closed => Contains(recvCh'[s], m)
<1>0. /\ recvCh \in [Session -> Seq(Msg)] /\ RecvBuf \in Nat
      /\ recvCh[s] \in Seq(Msg) /\ Len(recvCh[s]) \in Nat
      /\ \A t \in Session : Len(recvCh[t]) <= RecvBuf
  BY DeliveryAssumption DEF QueueOK
<1>1. CASE s \in closed /\ panicked' = TRUE /\ recvCh' = recvCh
  BY <1>0, <1>1
<1>2. CASE /\ s \notin closed /\ HasRoom(s) /\ panicked' = panicked
           /\ recvCh' = [recvCh EXCEPT ![s] = Append(@, m)]
  <2> DEFINE q == Append(recvCh[s], m)
  <2>1. /\ q \in Seq(Msg) /\ Len(q) = Len(recvCh[s]) + 1
        /\ \A x : Contains(recvCh[s], x) => Contains(q, x)
        /\ Contains(q, m)
    BY <1>0, AppendFacts
  <2>2. recvCh' = [recvCh EXCEPT ![s] = q]
    BY <1>2
  <2>3. Len(q) <= RecvBuf
    BY <1>0, <1>2, <2>1 DEF HasRoom
  <2> HIDE DEF q
  <2>4. recvCh'[s] = q /\ \A t \in Session \ {s} : recvCh'[t] = recvCh[t]
    BY <1>0, <2>2
  <2>5. recvCh' \in [Session -> Seq(Msg)]
    BY <1>0, <2>1, <2>2
  <2>6. \A t \in Session : Len(recvCh'[t]) <= RecvBuf
    BY <1>0, <2>3, <2>4
  <2>7. Len(recvCh'[s]) <= Len(recvCh[s]) + 1
    BY <1>0, <2>1, <2>4
  <2>8. panicked' \in BOOLEAN
    BY <1>2
  <2> QED BY <2>1, <2>4, <2>5, <2>6, <2>7, <2>8
<1> QED BY <1>1, <1>2 DEF Send

\* The control points.
LEMMA CtlOKStep ==
    ASSUME CtlOK, QueueOK, [Next]_vars
    PROVE  CtlOK'
<1> USE DeliveryAssumption
      DEF CtlOK, Aborter, pushes, sessVars, courVars, handVars, partyVars,
         delVars, abortVars, CacheRest, CourierRest, DeliveryRest, AbortRest
<1>1. ASSUME NEW m \in Msg, Push(m) PROVE CtlOK'
  BY <1>1 DEF Push
<1>2. CASE CourierLookup
  BY <1>2 DEF CourierLookup, CourierIdle
<1>3. CASE CourierCache
  BY <1>3 DEF CourierCache, CourierIdle, EarlyFull
<1>4. CASE CourierCheck
  BY <1>4 DEF CourierCheck, CourierIdle
<1>5. CASE CourierSend
  BY <1>5 DEF CourierSend, CourierIdle, Send, HasRoom
<1>6. CASE CourierWait
  BY <1>6 DEF CourierWait, SendTimesOut
<1>7. ASSUME NEW s \in Session, HandlerBegin(s) PROVE CtlOK'
  BY <1>7 DEF HandlerBegin, Goto
<1>8. ASSUME NEW s \in Session, HandlerTake(s) PROVE CtlOK'
  BY <1>8 DEF HandlerTake, Goto
<1>9. ASSUME NEW s \in Session, HandlerSwap(s) PROVE CtlOK'
  BY <1>9 DEF HandlerSwap, Goto
<1>10. ASSUME NEW s \in Session, HandlerCheck(s) PROVE CtlOK'
  <2>1. CASE replay[s] = <<>> \/ s \in closed
    <3>1. /\ hpc' = [hpc EXCEPT ![s] = "stop"]
          /\ \A t \in Session \ {s} : replay'[t] = replay[t]
      BY <1>10, <2>1 DEF HandlerCheck, Goto, QueueOK
    <3> QED BY <1>10, <3>1 DEF HandlerCheck
  <2>2. CASE ~(replay[s] = <<>> \/ s \in closed)
    BY <1>10, <2>2 DEF HandlerCheck, Goto
  <2> QED BY <2>1, <2>2
<1>11. ASSUME NEW s \in Session, HandlerSend(s) PROVE CtlOK'
  <2>1. panicked' \in BOOLEAN
    BY <1>11 DEF HandlerSend, Send
  <2>2. /\ hpc' = [hpc EXCEPT ![s] = "check"]
        /\ \A t \in Session \ {s} : replay'[t] = replay[t]
    BY <1>11 DEF HandlerSend, Goto, QueueOK
  <2> QED BY <1>11, <2>1, <2>2 DEF HandlerSend
<1>12. ASSUME NEW s \in Session, HandlerWait(s) PROVE CtlOK'
  BY <1>12 DEF HandlerWait, Goto
<1>13. ASSUME NEW s \in Session, HandlerDelivery(s) PROVE CtlOK'
  BY <1>13 DEF HandlerDelivery, Goto
<1>14. ASSUME NEW s \in Session, HandlerStop(s) PROVE CtlOK'
  BY <1>14 DEF HandlerStop, Goto
<1>15. ASSUME NEW s \in Session, HandlerAborted(s) PROVE CtlOK'
  BY <1>15 DEF HandlerAborted, Goto
<1>16. ASSUME NEW s \in Session, HandlerParty(s) PROVE CtlOK'
  BY <1>16 DEF HandlerParty, Goto
<1>17. ASSUME NEW s \in Session, WorkerEnd(s) PROVE CtlOK'
  BY <1>17 DEF WorkerEnd, Goto
<1>18. ASSUME NEW s \in Session, WorkerUnregister(s) PROVE CtlOK'
  BY <1>18 DEF WorkerUnregister, Goto
<1>19. ASSUME NEW s \in Session, WorkerDropEarly(s) PROVE CtlOK'
  BY <1>19 DEF WorkerDropEarly, Goto
<1>20. ASSUME NEW s \in Session, DeliveryRecv(s) PROVE CtlOK'
  BY <1>20 DEF DeliveryRecv
<1>21. ASSUME NEW s \in Session, DeliveryReady(s) PROVE CtlOK'
  BY <1>21 DEF DeliveryReady
<1>22. ASSUME NEW s \in Session, DeliveryExit(s) PROVE CtlOK'
  BY <1>22 DEF DeliveryExit
<1>23. ASSUME NEW s \in Session, DeliveryProcess(s) PROVE CtlOK'
  BY <1>23 DEF DeliveryProcess, isDuplicate
<1>24. ASSUME NEW s \in Session, DeliveryRefused(s) PROVE CtlOK'
  BY <1>24 DEF DeliveryRefused, isDuplicate
<1>25. ASSUME NEW s \in Session, DeliveryFlushed(s) PROVE CtlOK'
  BY <1>25 DEF DeliveryFlushed
<1>26. ASSUME NEW a \in Other, AbortMark(a) PROVE CtlOK'
  BY <1>26 DEF AbortMark, AbortGoto
<1>27. ASSUME NEW a \in Aborter, AbortLookup(a) PROVE CtlOK'
  BY <1>27 DEF AbortLookup, AbortGoto
<1>28. ASSUME NEW a \in Aborter, AbortIsClosed(a) PROVE CtlOK'
  BY <1>28 DEF AbortIsClosed, AbortGoto
<1>29. ASSUME NEW a \in Aborter, AbortClose(a) PROVE CtlOK'
  BY <1>29 DEF AbortClose, AbortGoto
<1>30. ASSUME NEW a \in Aborter, AbortUnregister(a) PROVE CtlOK'
  BY <1>30 DEF AbortUnregister, AbortGoto
<1>31. ASSUME NEW a \in Aborter, AbortEnd(a) PROVE CtlOK'
  BY <1>31 DEF AbortEnd, AbortGoto
<1>32. ASSUME NEW a \in Aborter, AbortDropEarly(a) PROVE CtlOK'
  BY <1>32 DEF AbortDropEarly, AbortGoto
<1>34. ASSUME NEW s \in Session, HandlerPass(s) PROVE CtlOK'
  BY <1>34 DEF HandlerPass, Goto
<1>33. CASE UNCHANGED vars
  BY <1>33 DEF vars
<1> QED
  BY <1>1, <1>2, <1>3, <1>4, <1>5, <1>6, <1>7, <1>8, <1>9, <1>10, <1>11,
     <1>12, <1>13, <1>14, <1>15, <1>16, <1>17, <1>18, <1>19, <1>20, <1>21,
     <1>22, <1>23, <1>24, <1>25, <1>26, <1>27, <1>28, <1>29, <1>30, <1>31,
     <1>32, <1>33, <1>34
     DEF Next, Step, CourierStep, HandlerStep, DeliveryStep, AbortStep,
        AllServed

\* Only Send, the early cache and the delivery goroutine's cache append, and
\* the first two look at their capacity.
LEMMA QueueOKStep ==
    ASSUME CtlOK, QueueOK, [Next]_vars
    PROVE  QueueOK'
<1> USE DeliveryAssumption
      DEF QueueOK, pushes, sessVars, courVars, handVars, partyVars, delVars,
         abortVars, CacheRest, CourierRest, DeliveryRest, AbortRest
<1>1. ASSUME NEW m \in Msg, Push(m) PROVE QueueOK'
  BY <1>1 DEF Push
<1>2. CASE CourierLookup
  BY <1>2 DEF CourierLookup, CourierIdle
<1>3. CASE CourierCache
  <2>1. cmsg \in Msg
    BY <1>3 DEF CourierCache, CtlOK
  <2>2. CASE EarlyFull
    BY <1>3, <2>2 DEF CourierCache
  <2>3. CASE ~EarlyFull
    <3>1. Append(early, cmsg) \in Seq(Msg)
          /\ Len(Append(early, cmsg)) = Len(early) + 1
      BY <2>1, AppendFacts
    <3>2. Len(early) + 1 <= maxEarly
      BY <2>3 DEF EarlyFull
    <3> QED BY <1>3, <2>3, <3>1, <3>2 DEF CourierCache
  <2> QED BY <2>2, <2>3
<1>4. CASE CourierCheck
  BY <1>4 DEF CourierCheck, CourierIdle
<1>5. CASE CourierSend
  <2>1. Send(csess, cmsg) /\ csess \in Session /\ cmsg \in Msg
    BY <1>5 DEF CourierSend, CtlOK
  <2>2. /\ recvCh' \in [Session -> Seq(Msg)]
        /\ \A t \in Session : Len(recvCh'[t]) <= RecvBuf
    BY <2>1, SendFacts DEF CtlOK
  <2> QED BY <1>5, <2>2 DEF CourierSend
<1>6. CASE CourierWait
  BY <1>6 DEF CourierWait, SendTimesOut
<1>7. ASSUME NEW s \in Session, HandlerBegin(s) PROVE QueueOK'
  BY <1>7 DEF HandlerBegin, Goto
<1>8. ASSUME NEW s \in Session, HandlerTake(s) PROVE QueueOK'
  BY <1>8, EmptyFacts DEF HandlerTake
<1>9. ASSUME NEW s \in Session, HandlerSwap(s) PROVE QueueOK'
  BY <1>9 DEF HandlerSwap, Goto
<1>10. ASSUME NEW s \in Session, HandlerCheck(s) PROVE QueueOK'
  BY <1>10, EmptyFacts DEF HandlerCheck
<1>11. ASSUME NEW s \in Session, HandlerSend(s) PROVE QueueOK'
  <2> DEFINE q == Tail(replay[s])  m == Head(replay[s])
  <2>1. m \in Msg /\ q \in Seq(Msg)
    BY <1>11, TailFacts DEF HandlerSend, CtlOK
  <2>2. Send(s, m) /\ replay' = [replay EXCEPT ![s] = q]
    BY <1>11 DEF HandlerSend
  <2> HIDE DEF q, m
  <2>3. /\ recvCh' \in [Session -> Seq(Msg)]
        /\ \A t \in Session : Len(recvCh'[t]) <= RecvBuf
    BY <2>1, <2>2, SendFacts DEF CtlOK
  <2> QED BY <1>11, <2>1, <2>2, <2>3 DEF HandlerSend
<1>12. ASSUME NEW s \in Session, HandlerWait(s) PROVE QueueOK'
  BY <1>12 DEF HandlerWait, Goto
<1>13. ASSUME NEW s \in Session, HandlerDelivery(s) PROVE QueueOK'
  BY <1>13 DEF HandlerDelivery, Goto
<1>14. ASSUME NEW s \in Session, HandlerStop(s) PROVE QueueOK'
  BY <1>14 DEF HandlerStop, Goto
<1>15. ASSUME NEW s \in Session, HandlerAborted(s) PROVE QueueOK'
  BY <1>15 DEF HandlerAborted, Goto
<1>16. ASSUME NEW s \in Session, HandlerParty(s) PROVE QueueOK'
  BY <1>16 DEF HandlerParty, Goto
<1>17. ASSUME NEW s \in Session, WorkerEnd(s) PROVE QueueOK'
  BY <1>17 DEF WorkerEnd, Goto
<1>18. ASSUME NEW s \in Session, WorkerUnregister(s) PROVE QueueOK'
  BY <1>18 DEF WorkerUnregister, Goto
<1>19. ASSUME NEW s \in Session, WorkerDropEarly(s) PROVE QueueOK'
  BY <1>19, EmptyFacts DEF WorkerDropEarly
<1>20. ASSUME NEW s \in Session, DeliveryRecv(s) PROVE QueueOK'
  <2>1. recvCh[s] \in Seq(Msg) /\ recvCh[s] # <<>> /\ earlyMsgs[s] \in Seq(Msg)
    BY <1>20 DEF DeliveryRecv
  <2> DEFINE m == Head(recvCh[s])  q == Tail(recvCh[s])
  <2>2. m \in Msg /\ q \in Seq(Msg) /\ Len(q) <= RecvBuf
    BY <2>1, TailFacts
  <2>3. recvCh' = [recvCh EXCEPT ![s] = q]
    BY <1>20 DEF DeliveryRecv
  <2>4. PICK e \in {earlyMsgs[s], Append(earlyMsgs[s], m)} :
          earlyMsgs' = [earlyMsgs EXCEPT ![s] = e]
    BY <1>20 DEF DeliveryRecv
  <2> HIDE DEF m, q
  <2>5. e \in Seq(Msg)
    <3>1. Append(earlyMsgs[s], m) \in Seq(Msg)
      BY <2>1, <2>2, AppendFacts
    <3> QED BY <2>1, <2>4, <3>1
  <2>6. UNCHANGED <<early, replay>>
    BY <1>20 DEF DeliveryRecv
  <2> QED BY <2>2, <2>3, <2>4, <2>5, <2>6
<1>21. ASSUME NEW s \in Session, DeliveryReady(s) PROVE QueueOK'
  BY <1>21 DEF DeliveryReady
<1>22. ASSUME NEW s \in Session, DeliveryExit(s) PROVE QueueOK'
  BY <1>22 DEF DeliveryExit
<1>23. ASSUME NEW s \in Session, DeliveryProcess(s) PROVE QueueOK'
  <2>1. Tail(earlyMsgs[s]) \in Seq(Msg)
    BY <1>23, TailFacts DEF DeliveryProcess
  <2> QED BY <1>23, <2>1 DEF DeliveryProcess
<1>24. ASSUME NEW s \in Session, DeliveryRefused(s) PROVE QueueOK'
  <2>1. Tail(earlyMsgs[s]) \in Seq(Msg)
    BY <1>24, TailFacts DEF DeliveryRefused
  <2> QED BY <1>24, <2>1 DEF DeliveryRefused
<1>25. ASSUME NEW s \in Session, DeliveryFlushed(s) PROVE QueueOK'
  BY <1>25 DEF DeliveryFlushed
<1>26. ASSUME NEW a \in Other, AbortMark(a) PROVE QueueOK'
  BY <1>26 DEF AbortMark, AbortGoto
<1>27. ASSUME NEW a \in Aborter, AbortLookup(a) PROVE QueueOK'
  BY <1>27 DEF AbortLookup, AbortGoto
<1>28. ASSUME NEW a \in Aborter, AbortIsClosed(a) PROVE QueueOK'
  BY <1>28 DEF AbortIsClosed, AbortGoto
<1>29. ASSUME NEW a \in Aborter, AbortClose(a) PROVE QueueOK'
  BY <1>29 DEF AbortClose, AbortGoto
<1>30. ASSUME NEW a \in Aborter, AbortUnregister(a) PROVE QueueOK'
  BY <1>30 DEF AbortUnregister, AbortGoto
<1>31. ASSUME NEW a \in Aborter, AbortEnd(a) PROVE QueueOK'
  BY <1>31 DEF AbortEnd, AbortGoto
<1>32. ASSUME NEW a \in Aborter, AbortDropEarly(a) PROVE QueueOK'
  BY <1>32, EmptyFacts DEF AbortDropEarly
<1>34. ASSUME NEW s \in Session, HandlerPass(s) PROVE QueueOK'
  BY <1>34 DEF HandlerPass, Goto
<1>33. CASE UNCHANGED vars
  BY <1>33 DEF vars
<1> QED
  BY <1>1, <1>2, <1>3, <1>4, <1>5, <1>6, <1>7, <1>8, <1>9, <1>10, <1>11,
     <1>12, <1>13, <1>14, <1>15, <1>16, <1>17, <1>18, <1>19, <1>20, <1>21,
     <1>22, <1>23, <1>24, <1>25, <1>26, <1>27, <1>28, <1>29, <1>30, <1>31,
     <1>32, <1>33, <1>34
     DEF Next, Step, CourierStep, HandlerStep, DeliveryStep, AbortStep,
        AllServed

\* A message is marked when it is handed over, and looked up before that.
LEMMA HandedInvStep ==
    ASSUME CtlOK, QueueOK, HandedInv, [Next]_vars
    PROVE  HandedInv'
<1> USE DeliveryAssumption
      DEF HandedInv, HandedOnce, pushes, sessVars, courVars, handVars,
         partyVars, delVars, abortVars, CacheRest, CourierRest, DeliveryRest,
         AbortRest
<1>1. ASSUME NEW m \in Msg, Push(m) PROVE HandedInv'
  BY <1>1 DEF Push
<1>2. CASE CourierLookup
  BY <1>2 DEF CourierLookup, CourierIdle
<1>3. CASE CourierCache
  BY <1>3 DEF CourierCache, CourierIdle, EarlyFull
<1>4. CASE CourierCheck
  BY <1>4 DEF CourierCheck, CourierIdle
<1>5. CASE CourierSend
  BY <1>5 DEF CourierSend, CourierIdle, Send, HasRoom
<1>6. CASE CourierWait
  BY <1>6 DEF CourierWait, SendTimesOut
<1>7. ASSUME NEW s \in Session, HandlerBegin(s) PROVE HandedInv'
  BY <1>7 DEF HandlerBegin, Goto
<1>8. ASSUME NEW s \in Session, HandlerTake(s) PROVE HandedInv'
  BY <1>8 DEF HandlerTake, Goto
<1>9. ASSUME NEW s \in Session, HandlerSwap(s) PROVE HandedInv'
  BY <1>9 DEF HandlerSwap, Goto
<1>10. ASSUME NEW s \in Session, HandlerCheck(s) PROVE HandedInv'
  BY <1>10 DEF HandlerCheck, Goto
<1>11. ASSUME NEW s \in Session, HandlerSend(s) PROVE HandedInv'
  BY <1>11 DEF HandlerSend, Goto, Send, HasRoom
<1>12. ASSUME NEW s \in Session, HandlerWait(s) PROVE HandedInv'
  BY <1>12 DEF HandlerWait, Goto
<1>13. ASSUME NEW s \in Session, HandlerDelivery(s) PROVE HandedInv'
  BY <1>13 DEF HandlerDelivery, Goto
<1>14. ASSUME NEW s \in Session, HandlerStop(s) PROVE HandedInv'
  BY <1>14 DEF HandlerStop, Goto
<1>15. ASSUME NEW s \in Session, HandlerAborted(s) PROVE HandedInv'
  BY <1>15 DEF HandlerAborted, Goto
<1>16. ASSUME NEW s \in Session, HandlerParty(s) PROVE HandedInv'
  BY <1>16 DEF HandlerParty, Goto
<1>17. ASSUME NEW s \in Session, WorkerEnd(s) PROVE HandedInv'
  BY <1>17 DEF WorkerEnd, Goto
<1>18. ASSUME NEW s \in Session, WorkerUnregister(s) PROVE HandedInv'
  BY <1>18 DEF WorkerUnregister, Goto
<1>19. ASSUME NEW s \in Session, WorkerDropEarly(s) PROVE HandedInv'
  BY <1>19 DEF WorkerDropEarly, Goto
<1>20. ASSUME NEW s \in Session, DeliveryRecv(s) PROVE HandedInv'
  BY <1>20 DEF DeliveryRecv
<1>21. ASSUME NEW s \in Session, DeliveryReady(s) PROVE HandedInv'
  BY <1>21 DEF DeliveryReady
<1>22. ASSUME NEW s \in Session, DeliveryExit(s) PROVE HandedInv'
  BY <1>22 DEF DeliveryExit
<1>23. ASSUME NEW s \in Session, DeliveryProcess(s) PROVE HandedInv'
  <2> DEFINE m == Head(earlyMsgs[s])
  <2>1. m \in Msg
    BY <1>23, TailFacts DEF DeliveryProcess, QueueOK
  <2>2. /\ handed' = IF m \in dedup THEN handed
                     ELSE [handed EXCEPT ![s][m] = @ + 1]
        /\ dedup' = dedup \union {m} /\ refused' = refused
    BY <1>23 DEF DeliveryProcess, isDuplicate
  <2> HIDE DEF m
  <2>3. CASE m \in dedup
    BY <2>1, <2>2, <2>3
  <2>4. CASE m \notin dedup
    <3>1. \A t \in Session : handed[t][m] = 0
      BY <2>1, <2>4
    <3> DEFINE c == [handed[s] EXCEPT ![m] = @ + 1]
    <3>2. handed' = [handed EXCEPT ![s] = c]
      BY <2>2, <2>4
    <3>3. c \in [Msg -> Nat] /\ c[m] = 1
          /\ \A x \in Msg \ {m} : c[x] = handed[s][x]
      BY <2>1, <3>1
    <3> HIDE DEF c
    <3>4. /\ handed' \in [Session -> [Msg -> Nat]] /\ handed'[s] = c
          /\ \A t \in Session \ {s} : handed'[t] = handed[t]
      BY <3>2, <3>3
    <3>5. \A t \in Session, x \in Msg :
            handed'[t][x] <= 1 /\ (handed'[t][x] > 0 => x \in dedup')
      BY <2>2, <3>3, <3>4
    <3>6. \A x \in dedup' : \E t \in Session : handed'[t][x] > 0
      <4>1. ASSUME NEW x \in dedup, x # m
            PROVE  \E t \in Session : handed'[t][x] > 0
        <5>1. PICK t \in Session : handed[t][x] > 0
          OBVIOUS
        <5>2. handed'[t][x] = handed[t][x]
          BY <3>3, <3>4, <4>1
        <5> QED BY <5>1, <5>2
      <4>2. handed'[s][m] > 0
        BY <3>3, <3>4
      <4> QED BY <2>2, <4>1, <4>2
    <3> QED BY <2>1, <2>2, <3>4, <3>5, <3>6
  <2> QED BY <2>3, <2>4
<1>24. ASSUME NEW s \in Session, DeliveryRefused(s) PROVE HandedInv'
  <2>1. Head(earlyMsgs[s]) \in Msg
    BY <1>24, TailFacts DEF DeliveryRefused, QueueOK
  <2> QED BY <1>24, <2>1 DEF DeliveryRefused
<1>25. ASSUME NEW s \in Session, DeliveryFlushed(s) PROVE HandedInv'
  BY <1>25 DEF DeliveryFlushed
<1>26. ASSUME NEW a \in Other, AbortMark(a) PROVE HandedInv'
  BY <1>26 DEF AbortMark, AbortGoto
<1>27. ASSUME NEW a \in Aborter, AbortLookup(a) PROVE HandedInv'
  BY <1>27 DEF AbortLookup, AbortGoto
<1>28. ASSUME NEW a \in Aborter, AbortIsClosed(a) PROVE HandedInv'
  BY <1>28 DEF AbortIsClosed, AbortGoto
<1>29. ASSUME NEW a \in Aborter, AbortClose(a) PROVE HandedInv'
  BY <1>29 DEF AbortClose, AbortGoto
<1>30. ASSUME NEW a \in Aborter, AbortUnregister(a) PROVE HandedInv'
  BY <1>30 DEF AbortUnregister, AbortGoto
<1>31. ASSUME NEW a \in Aborter, AbortEnd(a) PROVE HandedInv'
  BY <1>31 DEF AbortEnd, AbortGoto
<1>32. ASSUME NEW a \in Aborter, AbortDropEarly(a) PROVE HandedInv'
  BY <1>32 DEF AbortDropEarly, AbortGoto
<1>34. ASSUME NEW s \in Session, HandlerPass(s) PROVE HandedInv'
  BY <1>34 DEF HandlerPass, Goto
<1>33. CASE UNCHANGED vars
  BY <1>33 DEF vars
<1> QED
  BY <1>1, <1>2, <1>3, <1>4, <1>5, <1>6, <1>7, <1>8, <1>9, <1>10, <1>11,
     <1>12, <1>13, <1>14, <1>15, <1>16, <1>17, <1>18, <1>19, <1>20, <1>21,
     <1>22, <1>23, <1>24, <1>25, <1>26, <1>27, <1>28, <1>29, <1>30, <1>31,
     <1>32, <1>33, <1>34
     DEF Next, Step, CourierStep, HandlerStep, DeliveryStep, AbortStep,
        AllServed

\* A message that moves on leaves the queue it was in; only a push brings a
\* new one.
LEMMA CountInvStep ==
    ASSUME CtlOK, QueueOK, QueueOK', CountInv, [Next]_vars
    PROVE  CountInv'
<1> USE DEF pushes, sessVars, courVars, handVars, partyVars, delVars,
           abortVars, CacheRest, CourierRest, DeliveryRest, AbortRest
<1> SUFFICES ASSUME NEW t \in Session PROVE Load(t)' + Held' <= pushed'
  BY DEF CountInv
<1> DEFINE ne  == Len(early)  nr  == Len(replay[t])
           nc  == Len(recvCh[t])  nd  == Len(earlyMsgs[t])
           ne1 == Len(early')  nr1 == Len(replay'[t])
           nc1 == Len(recvCh'[t])  nd1 == Len(earlyMsgs'[t])
           nh  == Held  nh1 == Held'
<1>l. \A q \in Seq(Msg) : Len(q) \in Nat
  OBVIOUS
<1>n. /\ ne \in Nat /\ nr \in Nat /\ nc \in Nat /\ nd \in Nat
      /\ ne1 \in Nat /\ nr1 \in Nat /\ nc1 \in Nat /\ nd1 \in Nat
  BY <1>l DEF QueueOK
<1>h. pushed \in Nat /\ nh \in Nat /\ nh1 \in Nat
  BY DEF CtlOK, Held
<1>i. ne + nr + nc + nd + nh <= pushed
  BY DEF CountInv, Load
<1>g. ASSUME ne1 + nr1 + nc1 + nd1 + nh1 <= pushed'
      PROVE  Load(t)' + Held' <= pushed'
  BY <1>g DEF Load
<1> HIDE DEF ne, nr, nc, nd, nh, ne1, nr1, nc1, nd1, nh1
<1>0. ASSUME UNCHANGED <<early, replay, recvCh, earlyMsgs, cpc, pushed>>
      PROVE  Load(t)' + Held' <= pushed'
  <2>1. ne1 = ne /\ nr1 = nr /\ nc1 = nc /\ nd1 = nd /\ nh1 = nh
    BY <1>0 DEF ne, nr, nc, nd, ne1, nr1, nc1, nd1, nh, nh1, Held
  <2> QED BY <1>0, <1>g, <1>i, <2>1
<1>1. ASSUME NEW m \in Msg, Push(m) PROVE Load(t)' + Held' <= pushed'
  <2>1. /\ ne1 = ne /\ nr1 = nr /\ nc1 = nc /\ nd1 = nd
        /\ nh = 0 /\ nh1 \in {0, 1} /\ pushed' = pushed + 1
    BY <1>1 DEF Push, Held, nh, nh1, ne, nr, nc, nd, ne1, nr1, nc1, nd1
  <2> QED BY <1>g, <1>h, <1>i, <1>n, <2>1
<1>2. CASE CourierLookup
  <2>1. /\ ne1 = ne /\ nr1 = nr /\ nc1 = nc /\ nd1 = nd
        /\ nh = 1 /\ nh1 \in {0, 1} /\ pushed' = pushed
    BY <1>2 DEF CourierLookup, CourierIdle, Held, nh, nh1, ne, nr, nc, nd,
       ne1, nr1, nc1, nd1
  <2> QED BY <1>g, <1>h, <1>i, <1>n, <2>1
<1>3. CASE CourierCache
  <2>1. /\ nr1 = nr /\ nc1 = nc /\ nd1 = nd
        /\ nh = 1 /\ nh1 = 0 /\ pushed' = pushed
    BY <1>3 DEF CourierCache, CourierIdle, Held, nh, nh1, nr, nc, nd, nr1,
       nc1, nd1
  <2>2. ne1 <= ne + 1
    <3>1. cmsg \in Msg /\ early \in Seq(Msg)
      BY <1>3 DEF CourierCache, CtlOK, QueueOK
    <3>2. Len(Append(early, cmsg)) = ne + 1
      BY <3>1, AppendFacts DEF ne
    <3>3. ne1 = ne \/ ne1 = Len(Append(early, cmsg))
      BY <1>3 DEF CourierCache, ne, ne1
    <3> QED BY <1>n, <3>2, <3>3
  <2> QED BY <1>g, <1>h, <1>i, <1>n, <2>1, <2>2
<1>4. CASE CourierCheck
  <2>1. /\ ne1 = ne /\ nr1 = nr /\ nc1 = nc /\ nd1 = nd
        /\ nh = 1 /\ nh1 \in {0, 1} /\ pushed' = pushed
    BY <1>4 DEF CourierCheck, CourierIdle, Held, nh, nh1, ne, nr, nc, nd,
       ne1, nr1, nc1, nd1
  <2> QED BY <1>g, <1>h, <1>i, <1>n, <2>1
<1>5. CASE CourierSend
  <2>1. /\ ne1 = ne /\ nr1 = nr /\ nd1 = nd
        /\ nh = 1 /\ nh1 = 0 /\ pushed' = pushed
    BY <1>5 DEF CourierSend, CourierIdle, Held, nh, nh1, ne, nr, nd, ne1,
       nr1, nd1
  <2>2. nc1 <= nc + 1
    <3>1. Send(csess, cmsg) /\ csess \in Session /\ cmsg \in Msg
      BY <1>5 DEF CourierSend, CtlOK
    <3>2. t # csess => nc1 = nc
      BY <3>1, SendFacts DEF CtlOK, nc, nc1
    <3>3. t = csess => nc1 <= nc + 1
      BY <3>1, SendFacts DEF CtlOK, nc, nc1
    <3> QED BY <1>n, <3>2, <3>3
  <2> QED BY <1>g, <1>h, <1>i, <1>n, <2>1, <2>2
<1>6. CASE CourierWait
  <2>1. /\ ne1 = ne /\ nr1 = nr /\ nc1 = nc /\ nd1 = nd
        /\ nh = 1 /\ nh1 \in {0, 1} /\ pushed' = pushed
    BY <1>6 DEF CourierWait, CourierIdle, Held, nh, nh1, ne, nr, nc, nd, ne1,
       nr1, nc1, nd1
  <2> QED BY <1>g, <1>h, <1>i, <1>n, <2>1
<1>7. ASSUME NEW s \in Session, HandlerBegin(s)
      PROVE  Load(t)' + Held' <= pushed'
  BY <1>0, <1>7 DEF HandlerBegin
<1>8. ASSUME NEW s \in Session, HandlerTake(s)
      PROVE  Load(t)' + Held' <= pushed'
  <2>1. ne1 = 0 /\ nc1 = nc /\ nd1 = nd /\ nh1 = nh /\ pushed' = pushed
    BY <1>8, EmptyFacts DEF HandlerTake, Held, nh, nh1, nc, nd, ne1, nc1, nd1
  <2>2. t = s => nr1 = ne /\ nr = 0
    BY <1>8, EmptyFacts DEF HandlerTake, CtlOK, QueueOK, ne, nr, nr1
  <2>3. t # s => nr1 = nr
    BY <1>8 DEF HandlerTake, QueueOK, nr, nr1
  <2> QED BY <1>g, <1>h, <1>i, <1>n, <2>1, <2>2, <2>3
<1>9. ASSUME NEW s \in Session, HandlerSwap(s)
      PROVE  Load(t)' + Held' <= pushed'
  BY <1>0, <1>9 DEF HandlerSwap
<1>10. ASSUME NEW s \in Session, HandlerCheck(s)
      PROVE  Load(t)' + Held' <= pushed'
  <2>1. ne1 = ne /\ nc1 = nc /\ nd1 = nd /\ nh1 = nh /\ pushed' = pushed
    BY <1>10 DEF HandlerCheck, Held, nh, nh1, ne, nc, nd, ne1, nc1, nd1
  <2>2. nr1 = nr \/ nr1 = 0
    BY <1>10, EmptyFacts DEF HandlerCheck, QueueOK, nr, nr1
  <2> QED BY <1>g, <1>h, <1>i, <1>n, <2>1, <2>2
<1>11. ASSUME NEW s \in Session, HandlerSend(s)
      PROVE  Load(t)' + Held' <= pushed'
  <2>1. ne1 = ne /\ nd1 = nd /\ nh1 = nh /\ pushed' = pushed
    BY <1>11 DEF HandlerSend, Held, nh, nh1, ne, nd, ne1, nd1
  <2>2. replay[s] \in Seq(Msg) /\ replay[s] # <<>>
    BY <1>11 DEF HandlerSend, CtlOK, QueueOK
  <2>3. t = s => nr1 = nr - 1
    BY <1>11, <2>2, TailFacts DEF HandlerSend, QueueOK, nr, nr1
  <2>4. Send(s, Head(replay[s])) /\ Head(replay[s]) \in Msg
    BY <1>11, <2>2, TailFacts DEF HandlerSend
  <2>5. t = s => nc1 <= nc + 1
    BY <2>4, SendFacts DEF CtlOK, nc, nc1
  <2>6. t # s => nr1 = nr /\ nc1 = nc
    <3>1. t # s => nr1 = nr
      BY <1>11 DEF HandlerSend, QueueOK, nr, nr1
    <3>2. t # s => nc1 = nc
      BY <2>4, SendFacts DEF CtlOK, nc, nc1
    <3> QED BY <3>1, <3>2
  <2> QED BY <1>g, <1>h, <1>i, <1>n, <2>1, <2>3, <2>5, <2>6
<1>12. ASSUME NEW s \in Session, HandlerWait(s)
      PROVE  Load(t)' + Held' <= pushed'
  BY <1>0, <1>12 DEF HandlerWait
<1>13. ASSUME NEW s \in Session, HandlerDelivery(s)
      PROVE  Load(t)' + Held' <= pushed'
  BY <1>0, <1>13 DEF HandlerDelivery
<1>14. ASSUME NEW s \in Session, HandlerStop(s)
      PROVE  Load(t)' + Held' <= pushed'
  BY <1>0, <1>14 DEF HandlerStop
<1>15. ASSUME NEW s \in Session, HandlerAborted(s)
      PROVE  Load(t)' + Held' <= pushed'
  BY <1>0, <1>15 DEF HandlerAborted
<1>16. ASSUME NEW s \in Session, HandlerParty(s)
      PROVE  Load(t)' + Held' <= pushed'
  BY <1>0, <1>16 DEF HandlerParty
<1>17. ASSUME NEW s \in Session, WorkerEnd(s)
      PROVE  Load(t)' + Held' <= pushed'
  BY <1>0, <1>17 DEF WorkerEnd
<1>18. ASSUME NEW s \in Session, WorkerUnregister(s)
      PROVE  Load(t)' + Held' <= pushed'
  BY <1>0, <1>18 DEF WorkerUnregister
<1>19. ASSUME NEW s \in Session, WorkerDropEarly(s)
      PROVE  Load(t)' + Held' <= pushed'
  <2>1. /\ ne1 = 0 /\ nr1 = nr /\ nc1 = nc /\ nd1 = nd
        /\ nh1 = nh /\ pushed' = pushed
    BY <1>19, EmptyFacts DEF WorkerDropEarly, Held, nh, nh1, nr, nc, nd, ne1,
       nr1, nc1, nd1
  <2> QED BY <1>g, <1>h, <1>i, <1>n, <2>1
<1>20. ASSUME NEW s \in Session, DeliveryRecv(s)
      PROVE  Load(t)' + Held' <= pushed'
  <2>1. ne1 = ne /\ nr1 = nr /\ nh1 = nh /\ pushed' = pushed
    BY <1>20 DEF DeliveryRecv, Held, nh, nh1, ne, nr, ne1, nr1
  <2>2. recvCh[s] \in Seq(Msg) /\ recvCh[s] # <<>> /\ earlyMsgs[s] \in Seq(Msg)
    BY <1>20 DEF DeliveryRecv, QueueOK
  <2>3. Head(recvCh[s]) \in Msg /\ Len(Tail(recvCh[s])) = Len(recvCh[s]) - 1
    BY <2>2, TailFacts
  <2>4. t = s => nc1 = nc - 1
    BY <1>20, <2>3 DEF DeliveryRecv, QueueOK, nc, nc1
  <2>5. PICK e \in {earlyMsgs[s], Append(earlyMsgs[s], Head(recvCh[s]))} :
          earlyMsgs' = [earlyMsgs EXCEPT ![s] = e]
    BY <1>20 DEF DeliveryRecv
  <2>6. t = s => nd1 <= nd + 1
    <3>1. t = s => nd1 = Len(e)
      BY <2>5 DEF QueueOK, nd1
    <3>2. t = s => Len(Append(earlyMsgs[s], Head(recvCh[s]))) = nd + 1
      BY <2>2, <2>3, AppendFacts DEF nd
    <3>3. t = s /\ e = earlyMsgs[s] => nd1 = nd
      BY <3>1 DEF nd
    <3> QED BY <1>n, <2>5, <3>1, <3>2, <3>3
  <2>7. t # s => nc1 = nc /\ nd1 = nd
    BY <1>20, <2>5 DEF DeliveryRecv, QueueOK, nc, nd, nc1, nd1
  <2> QED BY <1>g, <1>h, <1>i, <1>n, <2>1, <2>4, <2>6, <2>7
<1>21. ASSUME NEW s \in Session, DeliveryReady(s)
      PROVE  Load(t)' + Held' <= pushed'
  BY <1>0, <1>21 DEF DeliveryReady
<1>22. ASSUME NEW s \in Session, DeliveryExit(s)
      PROVE  Load(t)' + Held' <= pushed'
  BY <1>0, <1>22 DEF DeliveryExit
<1>23. ASSUME NEW s \in Session, DeliveryProcess(s)
      PROVE  Load(t)' + Held' <= pushed'
  <2>1. /\ ne1 = ne /\ nr1 = nr /\ nc1 = nc
        /\ nh1 = nh /\ pushed' = pushed
    BY <1>23 DEF DeliveryProcess, Held, nh, nh1, ne, nr, nc, ne1, nr1, nc1
  <2>2. t = s => nd1 = nd - 1
    BY <1>23, TailFacts DEF DeliveryProcess, QueueOK, nd, nd1
  <2>3. t # s => nd1 = nd
    BY <1>23 DEF DeliveryProcess, QueueOK, nd, nd1
  <2> QED BY <1>g, <1>h, <1>i, <1>n, <2>1, <2>2, <2>3
<1>24. ASSUME NEW s \in Session, DeliveryRefused(s)
      PROVE  Load(t)' + Held' <= pushed'
  <2>1. /\ ne1 = ne /\ nr1 = nr /\ nc1 = nc
        /\ nh1 = nh /\ pushed' = pushed
    BY <1>24 DEF DeliveryRefused, Held, nh, nh1, ne, nr, nc, ne1, nr1, nc1
  <2>2. t = s => nd1 = nd - 1
    BY <1>24, TailFacts DEF DeliveryRefused, QueueOK, nd, nd1
  <2>3. t # s => nd1 = nd
    BY <1>24 DEF DeliveryRefused, QueueOK, nd, nd1
  <2> QED BY <1>g, <1>h, <1>i, <1>n, <2>1, <2>2, <2>3
<1>25. ASSUME NEW s \in Session, DeliveryFlushed(s)
      PROVE  Load(t)' + Held' <= pushed'
  BY <1>0, <1>25 DEF DeliveryFlushed
<1>26. ASSUME NEW a \in Other, AbortMark(a) PROVE Load(t)' + Held' <= pushed'
  BY <1>0, <1>26 DEF AbortMark
<1>27. ASSUME NEW a \in Aborter, AbortLookup(a)
      PROVE  Load(t)' + Held' <= pushed'
  BY <1>0, <1>27 DEF AbortLookup
<1>28. ASSUME NEW a \in Aborter, AbortIsClosed(a)
      PROVE  Load(t)' + Held' <= pushed'
  BY <1>0, <1>28 DEF AbortIsClosed
<1>29. ASSUME NEW a \in Aborter, AbortClose(a)
      PROVE  Load(t)' + Held' <= pushed'
  BY <1>0, <1>29 DEF AbortClose
<1>30. ASSUME NEW a \in Aborter, AbortUnregister(a)
      PROVE  Load(t)' + Held' <= pushed'
  BY <1>0, <1>30 DEF AbortUnregister
<1>31. ASSUME NEW a \in Aborter, AbortEnd(a) PROVE Load(t)' + Held' <= pushed'
  BY <1>0, <1>31 DEF AbortEnd
<1>32. ASSUME NEW a \in Aborter, AbortDropEarly(a)
      PROVE  Load(t)' + Held' <= pushed'
  <2>1. /\ ne1 = 0 /\ nr1 = nr /\ nc1 = nc /\ nd1 = nd
        /\ nh1 = nh /\ pushed' = pushed
    BY <1>32, EmptyFacts DEF AbortDropEarly, Held, nh, nh1, nr, nc, nd, ne1,
       nr1, nc1, nd1
  <2> QED BY <1>g, <1>h, <1>i, <1>n, <2>1
<1>34. ASSUME NEW s \in Session, HandlerPass(s)
      PROVE  Load(t)' + Held' <= pushed'
  BY <1>0, <1>34 DEF HandlerPass
<1>33. CASE UNCHANGED vars
  BY <1>0, <1>33 DEF vars
<1> QED
  BY <1>1, <1>2, <1>3, <1>4, <1>5, <1>6, <1>7, <1>8, <1>9, <1>10, <1>11,
     <1>12, <1>13, <1>14, <1>15, <1>16, <1>17, <1>18, <1>19, <1>20, <1>21,
     <1>22, <1>23, <1>24, <1>25, <1>26, <1>27, <1>28, <1>29, <1>30, <1>31,
     <1>32, <1>33, <1>34
     DEF Next, Step, CourierStep, HandlerStep, DeliveryStep, AbortStep,
        AllServed

\* beginKeygenTask lets one execution in; without an abort no other one ends
\* it or closes its session.
LEMMA OnlyInvStep ==
    ASSUME CtlOK, OnlyInv, [Next]_vars
    PROVE  OnlyInv'
<1> USE DeliveryAssumption
      DEF CtlOK, OnlyInv, Undisturbed, Aborter, pushes, sessVars, courVars,
         handVars, partyVars, delVars, abortVars, CacheRest, CourierRest,
         DeliveryRest, AbortRest
<1>1. ASSUME NEW m \in Msg, Push(m) PROVE OnlyInv'
  BY <1>1 DEF Push
<1>2. CASE CourierLookup
  BY <1>2 DEF CourierLookup, CourierIdle
<1>3. CASE CourierCache
  BY <1>3 DEF CourierCache, CourierIdle, EarlyFull
<1>4. CASE CourierCheck
  BY <1>4 DEF CourierCheck, CourierIdle
<1>5. CASE CourierSend
  BY <1>5 DEF CourierSend, CourierIdle, Send, HasRoom
<1>6. CASE CourierWait
  BY <1>6 DEF CourierWait, SendTimesOut
<1>7. ASSUME NEW s \in Session, HandlerBegin(s) PROVE OnlyInv'
  BY <1>7 DEF HandlerBegin, Goto
<1>8. ASSUME NEW s \in Session, HandlerTake(s) PROVE OnlyInv'
  BY <1>8 DEF HandlerTake, Goto
<1>9. ASSUME NEW s \in Session, HandlerSwap(s) PROVE OnlyInv'
  BY <1>9 DEF HandlerSwap, Goto
<1>10. ASSUME NEW s \in Session, HandlerCheck(s) PROVE OnlyInv'
  BY <1>10 DEF HandlerCheck, Goto
<1>11. ASSUME NEW s \in Session, HandlerSend(s) PROVE OnlyInv'
  BY <1>11 DEF HandlerSend, Goto, Send, HasRoom
<1>12. ASSUME NEW s \in Session, HandlerWait(s) PROVE OnlyInv'
  BY <1>12 DEF HandlerWait, Goto
<1>13. ASSUME NEW s \in Session, HandlerDelivery(s) PROVE OnlyInv'
  BY <1>13 DEF HandlerDelivery, Goto
<1>14. ASSUME NEW s \in Session, HandlerStop(s) PROVE OnlyInv'
  BY <1>14 DEF HandlerStop, Goto
<1>15. ASSUME NEW s \in Session, HandlerAborted(s) PROVE OnlyInv'
  BY <1>15 DEF HandlerAborted, Goto
<1>16. ASSUME NEW s \in Session, HandlerParty(s) PROVE OnlyInv'
  BY <1>16 DEF HandlerParty, Goto
<1>17. ASSUME NEW s \in Session, WorkerEnd(s) PROVE OnlyInv'
  BY <1>17 DEF WorkerEnd, Goto
<1>18. ASSUME NEW s \in Session, WorkerUnregister(s) PROVE OnlyInv'
  BY <1>18 DEF WorkerUnregister, Goto
<1>19. ASSUME NEW s \in Session, WorkerDropEarly(s) PROVE OnlyInv'
  BY <1>19 DEF WorkerDropEarly, Goto
<1>20. ASSUME NEW s \in Session, DeliveryRecv(s) PROVE OnlyInv'
  BY <1>20 DEF DeliveryRecv
<1>21. ASSUME NEW s \in Session, DeliveryReady(s) PROVE OnlyInv'
  BY <1>21 DEF DeliveryReady
<1>22. ASSUME NEW s \in Session, DeliveryExit(s) PROVE OnlyInv'
  BY <1>22 DEF DeliveryExit
<1>23. ASSUME NEW s \in Session, DeliveryProcess(s) PROVE OnlyInv'
  BY <1>23 DEF DeliveryProcess, isDuplicate
<1>24. ASSUME NEW s \in Session, DeliveryRefused(s) PROVE OnlyInv'
  BY <1>24 DEF DeliveryRefused, isDuplicate
<1>25. ASSUME NEW s \in Session, DeliveryFlushed(s) PROVE OnlyInv'
  BY <1>25 DEF DeliveryFlushed
<1>26. ASSUME NEW a \in Other, AbortMark(a) PROVE OnlyInv'
  BY <1>26 DEF AbortMark, AbortGoto
<1>27. ASSUME NEW a \in Aborter, AbortLookup(a) PROVE OnlyInv'
  BY <1>27 DEF AbortLookup, AbortGoto
<1>28. ASSUME NEW a \in Aborter, AbortIsClosed(a) PROVE OnlyInv'
  BY <1>28 DEF AbortIsClosed, AbortGoto
<1>29. ASSUME NEW a \in Aborter, AbortClose(a) PROVE OnlyInv'
  BY <1>29 DEF AbortClose, AbortGoto
<1>30. ASSUME NEW a \in Aborter, AbortUnregister(a) PROVE OnlyInv'
  BY <1>30 DEF AbortUnregister, AbortGoto
<1>31. ASSUME NEW a \in Aborter, AbortEnd(a) PROVE OnlyInv'
  BY <1>31 DEF AbortEnd, AbortGoto
<1>32. ASSUME NEW a \in Aborter, AbortDropEarly(a) PROVE OnlyInv'
  BY <1>32 DEF AbortDropEarly, AbortGoto
<1>34. ASSUME NEW s \in Session, HandlerPass(s) PROVE OnlyInv'
  BY <1>34 DEF HandlerPass, Goto
<1>33. CASE UNCHANGED vars
  BY <1>33 DEF vars
<1> QED
  BY <1>1, <1>2, <1>3, <1>4, <1>5, <1>6, <1>7, <1>8, <1>9, <1>10, <1>11,
     <1>12, <1>13, <1>14, <1>15, <1>16, <1>17, <1>18, <1>19, <1>20, <1>21,
     <1>22, <1>23, <1>24, <1>25, <1>26, <1>27, <1>28, <1>29, <1>30, <1>31,
     <1>32, <1>33, <1>34
     DEF Next, Step, CourierStep, HandlerStep, DeliveryStep, AbortStep,
        AllServed

\* An abort mark stays, and an execution that has ended does too.
LEMMA UndisturbedBefore ==
    ASSUME CtlOK, [Next]_vars, Undisturbed'
    PROVE  Undisturbed
<1> USE DEF CtlOK, Undisturbed, pushes, sessVars, courVars, handVars,
           partyVars, delVars, abortVars, CacheRest, CourierRest,
           DeliveryRest, AbortRest, Goto
<1>1. CASE UNCHANGED <<hpc, aborted>>
  BY <1>1
<1>2. ASSUME NEW s \in Session, HandlerStep(s)
      PROVE  Undisturbed
  <2>1. aborted' = aborted /\ \A t \in Session \ {s} : hpc'[t] = hpc[t]
    BY <1>2
    DEF HandlerStep, HandlerPass, HandlerBegin, HandlerTake, HandlerSwap,
        HandlerCheck, HandlerSend, HandlerWait, HandlerDelivery, HandlerStop,
        HandlerAborted, HandlerParty, WorkerEnd, WorkerUnregister,
        WorkerDropEarly
  <2>2. hpc[s] \in {"unregister", "dropEarly", "done"} =>
          hpc'[s] \in {"dropEarly", "done"}
    BY <1>2
    DEF HandlerStep, HandlerPass, HandlerBegin, HandlerTake, HandlerSwap,
        HandlerCheck, HandlerSend, HandlerWait, HandlerDelivery, HandlerStop,
        HandlerAborted, HandlerParty, WorkerEnd, WorkerUnregister,
        WorkerDropEarly
  <2> QED BY <2>1, <2>2
<1>3. ASSUME NEW a \in Other, AbortMark(a) PROVE FALSE
  BY <1>3 DEF AbortMark
<1>4. CASE \E m \in Msg : Push(m)
  BY <1>1, <1>4 DEF Push
<1>5. CASE CourierStep
  BY <1>1, <1>5 DEF CourierStep, CourierLookup, CourierCache, CourierCheck,
     CourierSend, CourierWait
<1>6. CASE \E s \in Session : DeliveryStep(s)
  BY <1>1, <1>6 DEF DeliveryStep, DeliveryRecv, DeliveryReady, DeliveryExit,
     DeliveryProcess, DeliveryRefused, DeliveryFlushed
<1>7. CASE \E a \in Aborter : AbortStep(a)
  BY <1>1, <1>7 DEF AbortStep, AbortLookup, AbortIsClosed, AbortClose,
     AbortUnregister, AbortEnd, AbortDropEarly
<1>8. CASE UNCHANGED vars
  BY <1>1, <1>8 DEF vars
<1> QED BY <1>2, <1>3, <1>4, <1>5, <1>6, <1>7, <1>8
        DEF Next, Step, AllServed

\* Wherever a message x is, the step that takes it out puts it somewhere
\* else: a cache is never full, since it cannot hold more than was pushed.
LEMMA KeepInvStep ==
    ASSUME CtlOK, QueueOK, HandedInv, HandedInv', CountInv, OnlyInv,
           KeepInv, [Next]_vars
    PROVE  KeepInv'
<1> USE DeliveryAssumption
      DEF pushes, sessVars, courVars, handVars, partyVars, delVars,
          abortVars, CacheRest, CourierRest, DeliveryRest, AbortRest
<1> SUFFICES ASSUME Undisturbed', pushed' <= maxEarly,
                    NEW x \in Msg \ Own, x \notin refused' \union missed',
                    copies'[x] > 0
             PROVE  OnItsWay(x)' \/ Delivered(x)'
  BY DEF KeepInv
<1>u. /\ Undisturbed /\ closed = {}
      /\ \A a \in Aborter : apc[a] \in {"mark", "ready"}
  BY UndisturbedBefore DEF OnlyInv
<1>r. ASSUME UNCHANGED <<copies, pushed>>, x \notin refused \union missed
      PROVE  OnItsWay(x) \/ Delivered(x)
  BY <1>r, <1>u DEF KeepInv
<1>0. ASSUME UNCHANGED <<copies, pushed, refused, missed, cmsg, early, replay,
                         recvCh, earlyMsgs, handed>>,
             Awaited => Awaited'
      PROVE  OnItsWay(x)' \/ Delivered(x)'
  <2>1. OnItsWay(x) \/ Delivered(x)
    BY <1>0, <1>r
  <2> QED BY <1>0, <2>1 DEF OnItsWay, Delivered
<1>d. handed' = handed /\ Delivered(x) => Delivered(x)'
  BY DEF Delivered
<1>b. ASSUME hpc' = hpc PROVE Awaited => Awaited'
  BY <1>b DEF Awaited
<1>c. ASSUME NEW s \in Session,
             hpc[s] \notin {"idle", "begin", "rejected", "take"}
      PROVE  ~Awaited
  BY <1>c DEF Awaited
<1>1. ASSUME NEW m \in Msg, Push(m) PROVE OnItsWay(x)' \/ Delivered(x)'
  <2>a. Awaited => Awaited'
    BY <1>b, <1>1 DEF Push
  <2>1. /\ cmsg' = m /\ cmsg = NoMsg /\ pushed' = pushed + 1
        /\ \A y \in Msg \ {m} : copies'[y] = copies[y]
        /\ UNCHANGED <<early, replay, recvCh, earlyMsgs, handed, refused,
                       missed>>
    BY <1>u, <1>1 DEF Push, Undisturbed, CtlOK
  <2>2. CASE x = m
    BY <2>1, <2>2 DEF OnItsWay
  <2>3. CASE x # m
    <3>1. pushed <= maxEarly
      BY <2>1 DEF CtlOK
    <3>2. OnItsWay(x) \/ Delivered(x)
      BY <1>u, <2>1, <2>3, <3>1 DEF KeepInv
    <3> QED BY <1>d, <2>a, <2>1, <3>2 DEF OnItsWay
  <2> QED BY <2>2, <2>3
<1>2. CASE CourierLookup
  <2>a. Awaited => Awaited'
    BY <1>b, <1>2 DEF CourierLookup
  <2>1. /\ UNCHANGED <<copies, pushed, refused, missed, early, replay,
                       recvCh, earlyMsgs, handed>>
        /\ cmsg' = cmsg \/ cmsg \in Own
    BY <1>2 DEF CourierLookup, CourierIdle
  <2>2. OnItsWay(x) \/ Delivered(x)
    BY <1>r, <2>1
  <2> QED BY <1>d, <2>a, <2>1, <2>2 DEF OnItsWay
<1>3. CASE CourierCache
  <2>a. Awaited => Awaited'
    BY <1>b, <1>3 DEF CourierCache
  <2>1. /\ UNCHANGED <<copies, pushed, refused, replay, recvCh, earlyMsgs,
                       handed>>
        /\ cmsg \in Msg /\ early \in Seq(Msg) /\ x \notin missed
    BY <1>3 DEF CourierCache, CtlOK, QueueOK
  <2>2. OnItsWay(x) \/ Delivered(x)
    BY <1>r, <2>1
  <2>3. ~EarlyFull
    <3>1. PICK s \in Session : TRUE
      OBVIOUS
    <3>2. Load(s) + Held <= pushed
      BY DEF CountInv
    <3> DEFINE n == Len(early)
               k == Len(replay[s]) + Len(recvCh[s]) + Len(earlyMsgs[s])
    <3>3. n \in Nat /\ k \in Nat
      <4> DEFINE i == Len(replay[s])  j == Len(recvCh[s])
                 l == Len(earlyMsgs[s])
      <4>1. i \in Nat /\ j \in Nat /\ l \in Nat /\ n \in Nat
        BY DEF QueueOK
      <4>2. k = i + j + l
        OBVIOUS
      <4> HIDE DEF i, j, l, k, n
      <4> QED BY <4>1, <4>2
    <3>4. Load(s) + Held = n + k + 1
      <4> DEFINE i == Len(replay[s])  j == Len(recvCh[s])
                 l == Len(earlyMsgs[s])
      <4>1. i \in Nat /\ j \in Nat /\ l \in Nat
        BY DEF QueueOK
      <4>2. k = i + j + l /\ Load(s) + Held = n + i + j + l + 1
        BY <1>3 DEF CourierCache, Load, Held
      <4> HIDE DEF i, j, l, k, n
      <4> QED BY <3>3, <4>1, <4>2
    <3>5. EarlyFull => n >= maxEarly
      BY DEF EarlyFull
    <3> HIDE DEF n, k
    <3>6. pushed <= maxEarly /\ pushed \in Nat
      BY <2>1 DEF CtlOK
    <3> QED BY <3>2, <3>3, <3>4, <3>5, <3>6
  <2>4. early' = Append(early, cmsg)
    BY <1>3, <2>3 DEF CourierCache
  <2>5. /\ Contains(early', cmsg)
        /\ \A y : Contains(early, y) => Contains(early', y)
    BY <2>1, <2>4, AppendFacts
  <2>6. CASE Awaited
    BY <1>d, <2>a, <2>1, <2>2, <2>5, <2>6 DEF OnItsWay
  <2>7. CASE ~Awaited
    <3>1. x # cmsg
      BY <1>3, <2>3, <2>7 DEF CourierCache
    <3> QED BY <1>d, <2>1, <2>2, <2>7, <3>1 DEF OnItsWay
  <2> QED BY <2>6, <2>7
<1>4. CASE CourierCheck
  <2>1. UNCHANGED <<copies, pushed, refused, missed, cmsg, early, replay,
                    recvCh, earlyMsgs, handed>>
    BY <1>u, <1>4 DEF CourierCheck
  <2> QED BY <1>0, <1>b, <1>4, <2>1 DEF CourierCheck
<1>5. CASE CourierSend
  <2>a. Awaited => Awaited'
    BY <1>b, <1>5 DEF CourierSend
  <2>1. /\ UNCHANGED <<copies, pushed, refused, missed, early, replay,
                       earlyMsgs, handed>>
        /\ Send(csess, cmsg) /\ csess \in Session /\ cmsg \in Msg
    BY <1>5 DEF CourierSend, CtlOK
  <2>2. OnItsWay(x) \/ Delivered(x)
    BY <1>r, <2>1
  <2>3. Contains(recvCh'[csess], cmsg)
    BY <1>u, <2>1, SendFacts DEF CtlOK
  <2>4. \A t \in Session : Contains(recvCh[t], x) => Contains(recvCh'[t], x)
    BY <2>1, SendFacts DEF CtlOK
  <2> QED BY <1>d, <2>a, <2>1, <2>2, <2>3, <2>4 DEF OnItsWay
<1>6. CASE CourierWait
  BY <1>0, <1>b, <1>6 DEF CourierWait
<1>7. ASSUME NEW s \in Session, HandlerBegin(s)
      PROVE  OnItsWay(x)' \/ Delivered(x)'
  BY <1>0, <1>7 DEF HandlerBegin, Awaited, Goto, CtlOK
<1>8. ASSUME NEW s \in Session, HandlerTake(s)
      PROVE  OnItsWay(x)' \/ Delivered(x)'
  <2>1. /\ UNCHANGED <<copies, pushed, refused, missed, cmsg, recvCh,
                       earlyMsgs, handed>>
        /\ replay[s] = <<>> /\ replay' = [replay EXCEPT ![s] = early]
    BY <1>8 DEF HandlerTake, CtlOK
  <2>2. OnItsWay(x) \/ Delivered(x)
    BY <1>r, <2>1
  <2>3. \A t \in Session : Contains(replay[t], x) => Contains(replay'[t], x)
    BY <2>1, EmptyFacts DEF QueueOK
  <2>4. Contains(early, x) => Contains(replay'[s], x)
    BY <2>1 DEF QueueOK
  <2> QED BY <1>d, <2>1, <2>2, <2>3, <2>4 DEF OnItsWay
<1>9. ASSUME NEW s \in Session, HandlerSwap(s)
      PROVE  OnItsWay(x)' \/ Delivered(x)'
  BY <1>0, <1>c, <1>9 DEF HandlerSwap
<1>10. ASSUME NEW s \in Session, HandlerCheck(s)
      PROVE  OnItsWay(x)' \/ Delivered(x)'
  <2>1. replay' = replay
    BY <1>u, <1>10 DEF HandlerCheck, QueueOK
  <2> QED BY <1>0, <1>c, <1>10, <2>1 DEF HandlerCheck
<1>11. ASSUME NEW s \in Session, HandlerSend(s)
      PROVE  OnItsWay(x)' \/ Delivered(x)'
  <2> DEFINE m == Head(replay[s])  q == Tail(replay[s])
  <2>1. replay[s] \in Seq(Msg) /\ replay[s] # <<>>
    BY <1>11 DEF HandlerSend, CtlOK, QueueOK
  <2>2. m \in Msg /\ (Contains(replay[s], x) => x = m \/ Contains(q, x))
    BY <2>1, TailFacts
  <2>3. /\ UNCHANGED <<copies, pushed, refused, missed, cmsg, early,
                       earlyMsgs, handed>>
        /\ Send(s, m) /\ replay' = [replay EXCEPT ![s] = q]
    BY <1>11 DEF HandlerSend
  <2> HIDE DEF m, q
  <2>4. OnItsWay(x) \/ Delivered(x)
    BY <1>r, <2>3
  <2>5. Contains(recvCh'[s], m)
    BY <1>u, <2>2, <2>3, SendFacts DEF CtlOK
  <2>6. \A t \in Session : Contains(recvCh[t], x) => Contains(recvCh'[t], x)
    BY <2>2, <2>3, SendFacts DEF CtlOK
  <2>7. replay'[s] = q /\ \A t \in Session \ {s} : replay'[t] = replay[t]
    BY <2>3 DEF QueueOK
  <2>8. \A t \in Session : Contains(replay[t], x) =>
          Contains(replay'[t], x) \/ Contains(recvCh'[s], x)
    BY <2>2, <2>5, <2>7
  <2>9. ~Awaited
    BY <1>c, <1>11 DEF HandlerSend
  <2> QED BY <1>d, <2>3, <2>4, <2>6, <2>8, <2>9 DEF OnItsWay
<1>12. ASSUME NEW s \in Session, HandlerWait(s)
      PROVE  OnItsWay(x)' \/ Delivered(x)'
  BY <1>0, <1>c, <1>12 DEF HandlerWait
<1>13. ASSUME NEW s \in Session, HandlerDelivery(s)
      PROVE  OnItsWay(x)' \/ Delivered(x)'
  BY <1>0, <1>c, <1>13 DEF HandlerDelivery
<1>14. ASSUME NEW s \in Session, HandlerStop(s)
      PROVE  OnItsWay(x)' \/ Delivered(x)'
  BY <1>u, <1>14 DEF HandlerStop, Undisturbed
<1>15. ASSUME NEW s \in Session, HandlerAborted(s)
      PROVE  OnItsWay(x)' \/ Delivered(x)'
  BY <1>0, <1>c, <1>15 DEF HandlerAborted
<1>16. ASSUME NEW s \in Session, HandlerParty(s)
      PROVE  OnItsWay(x)' \/ Delivered(x)'
  BY <1>0, <1>c, <1>16 DEF HandlerParty
<1>17. ASSUME NEW s \in Session, WorkerEnd(s)
      PROVE  OnItsWay(x)' \/ Delivered(x)'
  BY <1>0, <1>c, <1>17 DEF WorkerEnd
<1>18. ASSUME NEW s \in Session, WorkerUnregister(s)
      PROVE  OnItsWay(x)' \/ Delivered(x)'
  BY <1>0, <1>c, <1>18 DEF WorkerUnregister
<1>19. ASSUME NEW s \in Session, WorkerDropEarly(s)
      PROVE  OnItsWay(x)' \/ Delivered(x)'
  <2>1. hpc'[s] = "done"
    BY <1>19 DEF WorkerDropEarly, Goto, CtlOK
  <2> QED BY <2>1 DEF Undisturbed
<1>20. ASSUME NEW s \in Session, DeliveryRecv(s)
      PROVE  OnItsWay(x)' \/ Delivered(x)'
  <2>a. Awaited => Awaited'
    BY <1>b, <1>20 DEF DeliveryRecv
  <2> DEFINE m == Head(recvCh[s])  q == Tail(recvCh[s])
             e == Append(earlyMsgs[s], m)
  <2>1. recvCh[s] \in Seq(Msg) /\ recvCh[s] # <<>> /\ earlyMsgs[s] \in Seq(Msg)
    BY <1>20 DEF DeliveryRecv, QueueOK
  <2>2. /\ m \in Msg /\ Len(recvCh[s]) > 0
        /\ Contains(recvCh[s], x) => x = m \/ Contains(q, x)
    BY <2>1, TailFacts
  <2>3. Contains(e, m) /\ (Contains(earlyMsgs[s], x) => Contains(e, x))
    BY <2>1, <2>2, AppendFacts
  <2>4. Len(earlyMsgs[s]) < maxEarly
    <3> DEFINE i == Len(early)  j == Len(replay[s])
               k == Len(recvCh[s])  l == Len(earlyMsgs[s])
    <3>1. i \in Nat /\ j \in Nat /\ k \in Nat /\ l \in Nat /\ k > 0
      BY <2>2 DEF QueueOK
    <3>2. i + j + k + l + Held <= pushed /\ Held \in Nat
      BY DEF CountInv, Load, Held
    <3>3. pushed <= maxEarly /\ pushed \in Nat
      BY <1>20 DEF DeliveryRecv, CtlOK
    <3>4. l < maxEarly
      <4> HIDE DEF i, j, k, l
      <4> QED BY <3>1, <3>2, <3>3
    <3> QED BY <3>4
  <2>5. /\ UNCHANGED <<copies, pushed, refused, missed, cmsg, early,
                       replay, handed>>
        /\ recvCh' = [recvCh EXCEPT ![s] = q]
    BY <1>20 DEF DeliveryRecv
  <2>6. ~(Len(earlyMsgs[s]) >= maxEarly)
    BY <2>4 DEF QueueOK
  <2>7. /\ m \in Own => earlyMsgs' = earlyMsgs
        /\ m \notin Own => earlyMsgs' = [earlyMsgs EXCEPT ![s] = e]
    BY <1>20, <2>6 DEF DeliveryRecv, QueueOK
  <2> HIDE DEF m, q, e
  <2>8. OnItsWay(x) \/ Delivered(x)
    BY <1>r, <2>5
  <2>9. recvCh'[s] = q /\ \A t \in Session \ {s} : recvCh'[t] = recvCh[t]
    BY <2>5 DEF QueueOK
  <2>10. \A t \in Session :
           Contains(earlyMsgs[t], x) => Contains(earlyMsgs'[t], x)
    BY <2>3, <2>7 DEF QueueOK
  <2>11. x = m => Contains(earlyMsgs'[s], x)
    BY <2>3, <2>7 DEF QueueOK
  <2>12. \A t \in Session : Contains(recvCh[t], x) =>
           Contains(recvCh'[t], x) \/ Contains(earlyMsgs'[s], x)
    BY <2>2, <2>9, <2>11
  <2> QED BY <2>a, <1>d, <2>5, <2>8, <2>10, <2>12 DEF OnItsWay
<1>21. ASSUME NEW s \in Session, DeliveryReady(s)
      PROVE  OnItsWay(x)' \/ Delivered(x)'
  BY <1>0, <1>b, <1>21 DEF DeliveryReady
<1>22. ASSUME NEW s \in Session, DeliveryExit(s)
      PROVE  OnItsWay(x)' \/ Delivered(x)'
  BY <1>0, <1>b, <1>22 DEF DeliveryExit
<1>23. ASSUME NEW s \in Session, DeliveryProcess(s)
      PROVE  OnItsWay(x)' \/ Delivered(x)'
  <2>a. Awaited => Awaited'
    BY <1>b, <1>23 DEF DeliveryProcess
  <2> DEFINE m == Head(earlyMsgs[s])  q == Tail(earlyMsgs[s])
  <2>1. earlyMsgs[s] \in Seq(Msg) /\ earlyMsgs[s] # <<>>
    BY <1>23 DEF DeliveryProcess, QueueOK
  <2>2. m \in Msg /\ (Contains(earlyMsgs[s], x) => x = m \/ Contains(q, x))
    BY <2>1, TailFacts
  <2>3. /\ UNCHANGED <<copies, pushed, refused, missed, cmsg, early,
                       replay, recvCh>>
        /\ earlyMsgs' = [earlyMsgs EXCEPT ![s] = q]
        /\ m \in dedup'
    BY <1>23 DEF DeliveryProcess
  <2> HIDE DEF m, q
  <2>4. OnItsWay(x) \/ Delivered(x)
    BY <1>r, <2>3
  <2>5. Delivered(x) => Delivered(x)'
    <3>1. dedup \in SUBSET dedup'
      BY <1>23 DEF DeliveryProcess
    <3>2. Delivered(x) => x \in dedup
      BY DEF Delivered, HandedInv
    <3> QED BY <3>1, <3>2 DEF Delivered, HandedInv
  <2>6. x = m => Delivered(x)'
    BY <2>3 DEF Delivered, HandedInv
  <2>7. earlyMsgs'[s] = q
        /\ \A t \in Session \ {s} : earlyMsgs'[t] = earlyMsgs[t]
    BY <2>3 DEF QueueOK
  <2>8. \A t \in Session : Contains(earlyMsgs[t], x) =>
          Contains(earlyMsgs'[t], x) \/ Delivered(x)'
    BY <2>2, <2>6, <2>7
  <2> HIDE DEF Delivered
  <2> QED BY <2>a, <2>3, <2>4, <2>5, <2>8 DEF OnItsWay
<1>24. ASSUME NEW s \in Session, DeliveryRefused(s)
      PROVE  OnItsWay(x)' \/ Delivered(x)'
  <2>a. Awaited => Awaited'
    BY <1>b, <1>24 DEF DeliveryRefused
  <2> DEFINE m == Head(earlyMsgs[s])  q == Tail(earlyMsgs[s])
  <2>1. earlyMsgs[s] \in Seq(Msg) /\ earlyMsgs[s] # <<>>
    BY <1>24 DEF DeliveryRefused, QueueOK
  <2>2. Contains(earlyMsgs[s], x) => x = m \/ Contains(q, x)
    BY <2>1, TailFacts
  <2>3. /\ UNCHANGED <<copies, pushed, missed, cmsg, early, replay, recvCh,
                       handed>>
        /\ earlyMsgs' = [earlyMsgs EXCEPT ![s] = q]
        /\ refused' = refused \union {m}
    BY <1>24 DEF DeliveryRefused
  <2> HIDE DEF m, q
  <2>4. OnItsWay(x) \/ Delivered(x)
    BY <1>r, <2>3
  <2>5. earlyMsgs'[s] = q
        /\ \A t \in Session \ {s} : earlyMsgs'[t] = earlyMsgs[t]
    BY <2>3 DEF QueueOK
  <2>6. \A t \in Session : Contains(earlyMsgs[t], x) =>
          Contains(earlyMsgs'[t], x)
    BY <2>2, <2>3, <2>5
  <2> QED BY <2>a, <1>d, <2>3, <2>4, <2>6 DEF OnItsWay
<1>25. ASSUME NEW s \in Session, DeliveryFlushed(s)
      PROVE  OnItsWay(x)' \/ Delivered(x)'
  BY <1>0, <1>b, <1>25 DEF DeliveryFlushed
<1>26. ASSUME NEW a \in Other, AbortMark(a)
      PROVE  OnItsWay(x)' \/ Delivered(x)'
  BY <1>0, <1>b, <1>26 DEF AbortMark
<1>27. ASSUME NEW a \in Aborter, AbortLookup(a)
      PROVE  OnItsWay(x)' \/ Delivered(x)'
  BY <1>0, <1>b, <1>27 DEF AbortLookup
<1>28. ASSUME NEW a \in Aborter, AbortIsClosed(a)
      PROVE  OnItsWay(x)' \/ Delivered(x)'
  BY <1>0, <1>b, <1>28 DEF AbortIsClosed
<1>29. ASSUME NEW a \in Aborter, AbortClose(a)
      PROVE  OnItsWay(x)' \/ Delivered(x)'
  BY <1>0, <1>b, <1>29 DEF AbortClose
<1>30. ASSUME NEW a \in Aborter, AbortUnregister(a)
      PROVE  OnItsWay(x)' \/ Delivered(x)'
  BY <1>0, <1>b, <1>30 DEF AbortUnregister
<1>31. ASSUME NEW a \in Aborter, AbortEnd(a)
      PROVE  OnItsWay(x)' \/ Delivered(x)'
  BY <1>0, <1>b, <1>31 DEF AbortEnd
<1>32. ASSUME NEW a \in Aborter, AbortDropEarly(a)
      PROVE  OnItsWay(x)' \/ Delivered(x)'
  BY <1>u, <1>32 DEF AbortDropEarly
<1>34. ASSUME NEW s \in Session, HandlerPass(s)
      PROVE  OnItsWay(x)' \/ Delivered(x)'
  BY <1>0, <1>34 DEF HandlerPass, Awaited, Goto, CtlOK
<1>33. CASE UNCHANGED vars
  BY <1>0, <1>b, <1>33 DEF vars
<1> QED
  BY <1>1, <1>2, <1>3, <1>4, <1>5, <1>6, <1>7, <1>8, <1>9, <1>10, <1>11,
     <1>12, <1>13, <1>14, <1>15, <1>16, <1>17, <1>18, <1>19, <1>20, <1>21,
     <1>22, <1>23, <1>24, <1>25, <1>26, <1>27, <1>28, <1>29, <1>30, <1>31,
     <1>32, <1>33, <1>34
     DEF Next, Step, CourierStep, HandlerStep, DeliveryStep, AbortStep,
        AllServed
-----------------------------------------------------------------------------
(***************************************************************************)
(* The theorems.                                                           *)
(***************************************************************************)
LEMMA InvInit == Init => Inv
<1> SUFFICES ASSUME Init PROVE Inv
  OBVIOUS
<1> USE DeliveryAssumption DEF Init
<1>1. CtlOK
  <2>1. aborted \in BOOLEAN /\ panicked \in BOOLEAN
    OBVIOUS
  <2>2. \A s \in Session : hpc[s] = "idle" /\ replay[s] = <<>>
    OBVIOUS
  <2>3. \A a \in Aborter : apc[a] \in {"mark", "ready"}
    BY DEF Aborter
  <2> QED BY <2>1, <2>2, <2>3 DEF CtlOK, Aborter
<1>2. QueueOK
  BY EmptyFacts DEF QueueOK
<1>3. HandedInv
  BY DEF HandedInv, HandedOnce
<1>4. CountInv
  <2>1. ASSUME NEW s \in Session PROVE Load(s) = 0 /\ Held = 0
    BY EmptyFacts DEF Load, Held
  <2> QED BY <2>1 DEF CountInv
<1>5. OnlyInv
  BY DEF OnlyInv, Aborter
<1>6. KeepInv
  BY DEF KeepInv
<1> QED BY <1>1, <1>2, <1>3, <1>4, <1>5, <1>6 DEF Inv

LEMMA InvCorrect == Spec => []Inv
<1>1. Inv /\ [Next]_vars => Inv'
  <2> SUFFICES ASSUME Inv, [Next]_vars PROVE Inv'
    OBVIOUS
  <2>1. CtlOK' /\ QueueOK' /\ HandedInv' /\ OnlyInv'
    BY CtlOKStep, QueueOKStep, HandedInvStep, OnlyInvStep DEF Inv
  <2>2. CountInv' /\ KeepInv'
    BY <2>1, CountInvStep, KeepInvStep DEF Inv
  <2> QED BY <2>1, <2>2 DEF Inv
<1> QED BY <1>1, InvInit, PTL DEF Spec

\* The state is well typed, and neither the early cache nor the channel of a
\* session is ever beyond its capacity.
THEOREM TypeCorrect == Spec => []TypeOK
<1>1. Inv => TypeOK
  BY DEF Inv, CtlOK, QueueOK, HandedInv, TypeOK
<1> QED BY <1>1, InvCorrect, PTL

\* However often the broker pushes a message, over whichever way the copies
\* come and however many executions the task has, the protocol gets it at
\* most once.
THEOREM HandedCorrect == Spec => []HandedOnce
<1>1. Inv => HandedOnce
  BY DEF Inv, HandedInv
<1> QED BY <1>1, InvCorrect, PTL

\* While the task runs every message that DeliverKeygenMsg or DeliverSignMsg
\* got is handed to the protocol or on its way to it, as long as the caches
\* could hold all that was pushed, with one exception: a message that is cached
\* after registerKeygenSession has taken the cache.
THEOREM ConservedCorrect == Spec => []Conserved
<1>1. Inv => Conserved
  BY DEF Inv, KeepInv, OnItsWay, Delivered, Conserved, Due, Safe
<1> QED BY <1>1, InvCorrect, PTL

\* A channel that can hold all that is pushed never makes the handler wait
\* in its replay, when nobody reads from the channel yet.
THEOREM ReplayCorrect == Spec => []ReplayNeverWaits
<1>1. Inv => ReplayNeverWaits
  <2> SUFFICES ASSUME Inv, pushed <= RecvBuf, NEW s \in Session,
                      hpc[s] = "send"
               PROVE  HasRoom(s)
    BY DEF ReplayNeverWaits, SendTimesOut
  <2> DEFINE i == Len(early)  j == Len(replay[s])
             k == Len(recvCh[s])  l == Len(earlyMsgs[s])
  <2>1. replay[s] \in Seq(Msg) /\ replay[s] # <<>>
    BY DEF Inv, CtlOK, QueueOK
  <2>2. i \in Nat /\ j \in Nat /\ k \in Nat /\ l \in Nat /\ j > 0
    BY <2>1, TailFacts DEF Inv, QueueOK
  <2>3. i + j + k + l + Held <= pushed /\ Held \in Nat
    BY DEF Inv, CountInv, Load, Held
  <2>4. pushed \in Nat /\ RecvBuf \in Nat
    BY DeliveryAssumption DEF Inv, CtlOK
  <2>5. k < RecvBuf
    <3> HIDE DEF i, j, k, l
    <3> QED BY <2>2, <2>3, <2>4
  <2> QED BY <2>5 DEF HasRoom
<1> QED BY <1>1, InvCorrect, PTL
=============================================================================

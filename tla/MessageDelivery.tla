-------------------------- MODULE MessageDelivery --------------------------
(***************************************************************************)
(* How the protocol messages of one task reach the protocol on one node:   *)
(* DeliverKeygenMsg / DeliverSignMsg on the connection's reader goroutine, *)
(* the cache for messages that arrive before the session exists, the       *)
(* session's bounded recvCh, registerKeygenSession's replay, the delivery  *)
(* goroutine, and the close of the session by an abort                     *)
(* (internal/protocol/keygen.go, sign.go, enqueue.go).                     *)
(*                                                                         *)
(* The cache, the session map and each session have a mutex of their own;  *)
(* a step is one critical section or one channel operation.  A session is  *)
(* one execution of the task: it begins when no other one is active.       *)
(***************************************************************************)
EXTENDS Naturals, Sequences, FiniteSets, SequencesExt

CONSTANTS
    Session,      \* executions of the task, one for each Start
    Other,        \* goroutines that abort the task from outside, once each (a
                  \* push, a lost connection)
    Msg,          \* protocol messages addressed to this node
    Own,          \* messages that carry the node's own index
    MaxCopies,    \* how often the broker pushes one message, at most
    MaxPushes,    \* how often it pushes anything
    maxEarly,     \* maxEarlyMessages (1024 in the code)
    RecvBuf,      \* mpcTssRecvChBuf (1024 in the code)
    NoSession, NoMsg

ASSUME DeliveryAssumption ==
    /\ Own \in SUBSET Msg
    /\ Session \intersect Other = {} /\ Session # {}
    /\ MaxCopies \in Nat /\ MaxPushes \in Nat
    /\ maxEarly \in Nat /\ RecvBuf \in Nat \ {0}
    /\ NoSession \notin Session /\ NoMsg \notin Msg

Aborter == Session \union Other

VARIABLES
    copies,     \* pushes of each message so far
    pushed,     \* pushes of any message
    aborted,    \* the task carries the abort mark
    active,     \* keygenActive: the execution that holds the task's slot
    early,      \* earlyKeygenMessages[task]
    session,    \* keygenSessions[task]
    closed,     \* sessions that are closed
    recvCh,     \* the buffered channel of each session
    panicked,   \* a goroutine sent on a closed channel
    cpc, cmsg, csess,  \* the reader: control point, message, session found
    missed,     \* history: messages cached after the execution took the cache
    hpc, replay,       \* the Start handler: control point, items to replay
    dpc, earlyMsgs,    \* the delivery goroutine and its own cache
    partyStarted, partyReady,  \* the flag, and the token in its channel
    dedup,      \* messages marked as processed
    handed,     \* how often each message was handed to each session
    refused,    \* history: messages that Receive has refused
    apc, asess  \* abortTaskSession per goroutine: control point, session

pushes    == <<copies, pushed>>
sessVars  == <<active, session, closed>>
courVars  == <<cpc, cmsg, csess, missed>>
handVars  == <<hpc, replay>>
partyVars == <<partyStarted, partyReady>>
delVars   == <<dpc, earlyMsgs, dedup, handed, refused>>
abortVars == <<aborted, apc, asess>>
vars == <<pushes, early, sessVars, recvCh, panicked, courVars, handVars,
          partyVars, delVars, abortVars>>

\* Types; the cache and the channels stay within their capacity
\* (keygen.go:32, timing.go:22).
TypeOK ==
    /\ copies \in [Msg -> 0 .. MaxCopies] /\ pushed \in 0 .. MaxPushes
    /\ aborted \in BOOLEAN /\ panicked \in BOOLEAN
    /\ active \in Session \union {NoSession}
    /\ session \in Session \union {NoSession}
    /\ closed \in SUBSET Session
    /\ early \in Seq(Msg) /\ Len(early) <= maxEarly
    /\ \A s \in Session : recvCh[s] \in Seq(Msg) /\ Len(recvCh[s]) <= RecvBuf
    /\ cpc \in {"idle", "lookup", "cache", "check", "send"}
    /\ cmsg \in Msg \union {NoMsg} /\ csess \in Session \union {NoSession}
    /\ missed \in SUBSET Msg
    /\ hpc \in [Session -> {"idle", "begin", "rejected", "take", "swap",
                            "check", "send", "stop", "aborting", "party",
                            "run", "unregister", "dropEarly", "done"}]
    /\ \A s \in Session : replay[s] \in Seq(Msg) /\ earlyMsgs[s] \in Seq(Msg)
    /\ dpc \in [Session -> {"none", "select", "flush", "done"}]
    /\ partyStarted \in SUBSET Session /\ partyReady \in SUBSET Session
    /\ dedup \in SUBSET Msg /\ refused \in SUBSET Msg
    /\ handed \in [Session -> [Msg -> Nat]]
    /\ apc \in [Aborter -> {"mark", "ready", "lookup", "isClosed",
                            "close", "unregister", "dropEarly", "end",
                            "clear"}]
    /\ asess \in [Aborter -> Session \union {NoSession}]

Init ==
    /\ copies = [m \in Msg |-> 0] /\ pushed = 0
    /\ aborted = FALSE /\ panicked = FALSE
    /\ active = NoSession /\ session = NoSession /\ closed = {}
    /\ early = <<>> /\ recvCh = [s \in Session |-> <<>>]
    /\ cpc = "idle" /\ cmsg = NoMsg /\ csess = NoSession
    /\ missed = {}
    /\ hpc = [s \in Session |-> "idle"]
    /\ replay = [s \in Session |-> <<>>]
    /\ dpc = [s \in Session |-> "none"]
    /\ earlyMsgs = [s \in Session |-> <<>>]
    /\ partyStarted = {} /\ partyReady = {}
    /\ dedup = {} /\ refused = {}
    /\ handed = [s \in Session |-> [m \in Msg |-> 0]]
    /\ apc = [a \in Aborter |-> IF a \in Other THEN "mark" ELSE "ready"]
    /\ asess = [a \in Aborter |-> NoSession]
-----------------------------------------------------------------------------
(***************************************************************************)
(* enqueueRecvItem, used by the reader and by the replay: closed is read   *)
(* under the session's mutex, which is released before the send.           *)
(***************************************************************************)
\* A plausible bug: the channel holds one item less than the early cache.
HasRoomTight(s) == Len(recvCh[s]) + 1 < RecvBuf

\* A plausible bug: one item more than the channel holds.
HasRoomLoose(s) == Len(recvCh[s]) <= RecvBuf

HasRoom(s) == Len(recvCh[s]) < RecvBuf

\* case recvCh <- item.  A send on a closed channel panics, also when the
\* sender was waiting for room.
Send(s, m) ==
    \/ /\ s \in closed
       /\ panicked' = TRUE /\ UNCHANGED recvCh
    \/ /\ s \notin closed /\ HasRoom(s)
       /\ recvCh' = [recvCh EXCEPT ![s] = Append(@, m)]
       /\ UNCHANGED panicked

\* case <-time.After(wait): back to the closed test.
SendTimesOut(s) == s \notin closed /\ ~HasRoom(s)
-----------------------------------------------------------------------------
(***************************************************************************)
(* The reader: DeliverKeygenMsg and DeliverSignMsg.                        *)
(***************************************************************************)
CacheRest == <<pushes, sessVars, recvCh, panicked, handVars, partyVars,
               delVars, abortVars>>
CourierRest == <<active, session, closed, handVars, partyVars, delVars,
                 abortVars, missed>>
CourierIdle == cpc' = "idle" /\ cmsg' = NoMsg /\ csess' = NoSession

\* A push arrives (again); a message of an aborted task is dropped.
Push(m) ==
    /\ cpc = "idle" /\ copies[m] < MaxCopies /\ pushed < MaxPushes
    /\ copies' = [copies EXCEPT ![m] = @ + 1] /\ pushed' = pushed + 1
    /\ IF aborted THEN UNCHANGED <<cpc, cmsg, csess>>
       ELSE cpc' = "lookup" /\ cmsg' = m /\ UNCHANGED csess
    /\ UNCHANGED <<CourierRest, early, recvCh, panicked>>

\* getKeygenSession; the node's own messages are not delivered.
CourierLookup ==
    /\ cpc = "lookup"
    /\ \/ /\ session = NoSession
          /\ cpc' = "cache" /\ UNCHANGED <<cmsg, csess>>
       \/ /\ session # NoSession /\ cmsg \in Own
          /\ CourierIdle
       \/ /\ session # NoSession /\ cmsg \notin Own
          /\ cpc' = "check" /\ csess' = session /\ UNCHANGED cmsg
    /\ UNCHANGED <<CourierRest, pushes, early, recvCh, panicked>>

\* A plausible bug: one place less.
EarlyFullTight == Len(early) + 1 >= maxEarly

EarlyFull == Len(early) >= maxEarly

\* The Start handler has not taken the cache yet (registerKeygenSession, step
\* 1).  It reads it only once.
Awaited ==
    \A s \in Session : hpc[s] \in {"idle", "begin", "rejected", "take"}

\* The message is kept for the session to come, unless the cache is full.  The
\* reader does not look again whether the session has come meanwhile.
\* DeliverSignMsg also drops a copy of a message that is there already; the
\* processing drops it in both cases.
CourierCache ==
    /\ cpc = "cache"
    /\ early' = IF EarlyFull THEN early ELSE Append(early, cmsg)
    /\ missed' = IF EarlyFull \/ Awaited THEN missed ELSE missed \union {cmsg}
    /\ CourierIdle
    /\ UNCHANGED CacheRest

CourierCheck ==
    /\ cpc = "check"
    /\ IF csess \in closed THEN CourierIdle
       ELSE cpc' = "send" /\ UNCHANGED <<cmsg, csess>>
    /\ UNCHANGED <<CourierRest, pushes, early, recvCh, panicked>>

CourierSend ==
    /\ cpc = "send"
    /\ Send(csess, cmsg)
    /\ CourierIdle
    /\ UNCHANGED <<CourierRest, pushes, early>>

CourierWait ==
    /\ cpc = "send" /\ SendTimesOut(csess)
    /\ cpc' = "check"
    /\ UNCHANGED <<CourierRest, cmsg, csess, pushes, early, recvCh, panicked>>

CourierStep == CourierLookup \/ CourierCache \/ CourierCheck \/ CourierSend
                 \/ CourierWait
-----------------------------------------------------------------------------
(***************************************************************************)
(* The Start handler from its first check of the abort mark on, and its    *)
(* worker.                                                                 *)
(***************************************************************************)
Goto(s, pc) == hpc' = [hpc EXCEPT ![s] = pc]

\* stopIfTaskAborted finds no mark.
HandlerPass(s) ==
    /\ hpc[s] = "idle" /\ ~aborted
    /\ Goto(s, "begin")
    /\ UNCHANGED <<pushes, early, sessVars, recvCh, panicked, courVars, replay,
                   partyVars, delVars, abortVars>>

\* beginKeygenTask: the slot may be taken, and the task aborted since.
HandlerBegin(s) ==
    /\ hpc[s] = "begin"
    /\ \/ active = NoSession /\ active' = s /\ Goto(s, "take")
       \/ active # NoSession /\ UNCHANGED active /\ Goto(s, "rejected")
    /\ UNCHANGED <<pushes, early, session, closed, recvCh, panicked, courVars,
                   replay, partyVars, delVars, abortVars>>

\* registerKeygenSession, step 1: the cached messages are taken.
HandlerTake(s) ==
    /\ hpc[s] = "take"
    /\ replay' = [replay EXCEPT ![s] = early]
    /\ early' = <<>>
    /\ Goto(s, "swap")
    /\ UNCHANGED <<pushes, sessVars, recvCh, panicked, courVars, partyVars,
                   delVars, abortVars>>

\* Step 2: the session is published and the one before it closed.
HandlerSwap(s) ==
    /\ hpc[s] = "swap"
    /\ session' = s
    /\ closed' = closed \union ({session} \ {NoSession, s})
    /\ Goto(s, "check")
    /\ UNCHANGED <<pushes, active, early, recvCh, panicked, courVars, replay,
                   partyVars, delVars, abortVars>>

\* Step 3: enqueue each of them; one that finds the session closed is lost.
HandlerCheck(s) ==
    /\ hpc[s] = "check"
    /\ IF replay[s] = <<>> \/ s \in closed
         THEN Goto(s, "stop") /\ replay' = [replay EXCEPT ![s] = <<>>]
         ELSE Goto(s, "send") /\ UNCHANGED replay
    /\ UNCHANGED <<pushes, early, sessVars, recvCh, panicked, courVars,
                   partyVars, delVars, abortVars>>

HandlerSend(s) ==
    /\ hpc[s] = "send"
    /\ Send(s, Head(replay[s]))
    /\ replay' = [replay EXCEPT ![s] = Tail(@)]
    /\ Goto(s, "check")
    /\ UNCHANGED <<pushes, early, sessVars, courVars, partyVars, delVars,
                   abortVars>>

HandlerWait(s) ==
    /\ hpc[s] = "send" /\ SendTimesOut(s)
    /\ Goto(s, "check")
    /\ UNCHANGED <<pushes, early, sessVars, recvCh, panicked, courVars, replay,
                   partyVars, delVars, abortVars>>

\* stopIfTaskAborted finds no mark: the delivery goroutine is started.
HandlerDelivery(s) ==
    /\ hpc[s] = "stop" /\ ~aborted
    /\ Goto(s, "party")
    /\ dpc' = [dpc EXCEPT ![s] = "select"]
    /\ UNCHANGED <<pushes, early, sessVars, recvCh, panicked, courVars, replay,
                   partyVars, earlyMsgs, dedup, handed, refused, abortVars>>

\* It finds the mark, here or before the begin: the handler aborts the task
\* and returns.
HandlerStop(s) ==
    /\ hpc[s] \in {"idle", "stop"} /\ aborted
    /\ Goto(s, "aborting")
    /\ apc' = [apc EXCEPT ![s] = "lookup"]
    /\ UNCHANGED <<pushes, early, sessVars, recvCh, panicked, courVars, replay,
                   partyVars, delVars, aborted, asess>>

HandlerAborted(s) ==
    /\ hpc[s] = "aborting" /\ apc[s] = "ready"
    /\ Goto(s, "done")
    /\ UNCHANGED <<pushes, early, sessVars, recvCh, panicked, courVars, replay,
                   partyVars, delVars, abortVars>>

\* partyStarted.Store(true), notifyPartyReady, and the worker is started.
HandlerParty(s) ==
    /\ hpc[s] = "party"
    /\ partyStarted' = partyStarted \union {s}
    /\ partyReady' = partyReady \union {s}
    /\ Goto(s, "run")
    /\ UNCHANGED <<pushes, early, sessVars, recvCh, panicked, courVars, replay,
                   delVars, abortVars>>

\* The protocol and the submission are over; endKeygenTask.
WorkerEnd(s) ==
    /\ hpc[s] = "run"
    /\ active' = NoSession
    /\ Goto(s, "unregister")
    /\ UNCHANGED <<pushes, early, session, closed, recvCh, panicked, courVars,
                   replay, partyVars, delVars, abortVars>>

\* unregisterKeygenSession: the session leaves the map, then the cache is
\* emptied, under another mutex.
WorkerUnregister(s) ==
    /\ hpc[s] = "unregister"
    /\ IF session = s THEN session' = NoSession /\ Goto(s, "dropEarly")
       ELSE UNCHANGED session /\ Goto(s, "done")
    /\ UNCHANGED <<pushes, active, closed, early, recvCh, panicked, courVars,
                   replay, partyVars, delVars, abortVars>>

WorkerDropEarly(s) ==
    /\ hpc[s] = "dropEarly"
    /\ early' = <<>>
    /\ Goto(s, "done")
    /\ UNCHANGED <<pushes, sessVars, recvCh, panicked, courVars, replay,
                   partyVars, delVars, abortVars>>

HandlerStep(s) ==
    \/ HandlerPass(s) \/ HandlerBegin(s)
    \/ HandlerTake(s) \/ HandlerSwap(s) \/ HandlerCheck(s) \/ HandlerSend(s)
    \/ HandlerWait(s) \/ HandlerDelivery(s) \/ HandlerStop(s)
    \/ HandlerAborted(s) \/ HandlerParty(s)
    \/ WorkerEnd(s) \/ WorkerUnregister(s) \/ WorkerDropEarly(s)
-----------------------------------------------------------------------------
(***************************************************************************)
(* runKeygenDelivery / runSignDelivery.                                    *)
(***************************************************************************)
DeliveryRest == <<pushes, early, sessVars, panicked, courVars, handVars,
                  partyStarted, abortVars>>

\* flushEarly(item) before the party has started keeps the item, up to the
\* cap; after that it processes what was kept, and then the item.
DeliveryRecv(s) ==
    /\ dpc[s] = "select" /\ recvCh[s] # <<>>
    /\ LET m == Head(recvCh[s])
           full == s \notin partyStarted /\ Len(earlyMsgs[s]) >= maxEarly
       IN  /\ earlyMsgs' = [earlyMsgs EXCEPT ![s] =
                              IF m \in Own \/ full THEN @ ELSE Append(@, m)]
           /\ dpc' = [dpc EXCEPT ![s] =
                        IF m \notin Own /\ s \in partyStarted
                          THEN "flush" ELSE @]
    /\ recvCh' = [recvCh EXCEPT ![s] = Tail(@)]
    /\ UNCHANGED <<DeliveryRest, partyReady, dedup, handed, refused>>

\* case <-s.partyReady: flushEarly(nil).
DeliveryReady(s) ==
    /\ dpc[s] = "select" /\ s \in partyReady
    /\ partyReady' = partyReady \ {s}
    /\ dpc' = [dpc EXCEPT ![s] = IF s \in partyStarted THEN "flush" ELSE @]
    /\ UNCHANGED <<DeliveryRest, recvCh, earlyMsgs, dedup, handed, refused>>

\* The channel is closed and drained.
DeliveryExit(s) ==
    /\ dpc[s] = "select" /\ s \in closed /\ recvCh[s] = <<>>
    /\ dpc' = [dpc EXCEPT ![s] = "done"]
    /\ UNCHANGED <<DeliveryRest, recvCh, partyReady, earlyMsgs, dedup, handed,
                   refused>>

\* A plausible bug: the message is marked, but the mark is not looked at.
isDuplicateNever(m) == FALSE

isDuplicate(m) == m \in dedup

\* processMessage for the next item: skipped when it is marked; marked only
\* if Receive took it.
DeliveryProcess(s) ==
    /\ dpc[s] = "flush" /\ earlyMsgs[s] # <<>>
    /\ LET m == Head(earlyMsgs[s])
       IN  /\ handed' = IF isDuplicate(m) THEN handed
                        ELSE [handed EXCEPT ![s][m] = @ + 1]
           /\ dedup' = dedup \union {m}
    /\ earlyMsgs' = [earlyMsgs EXCEPT ![s] = Tail(@)]
    /\ UNCHANGED <<DeliveryRest, recvCh, partyReady, dpc, refused>>

\* Receive refuses it; another copy may still be taken.
DeliveryRefused(s) ==
    /\ dpc[s] = "flush" /\ earlyMsgs[s] # <<>>
    /\ LET m == Head(earlyMsgs[s])
       IN  ~isDuplicate(m) /\ refused' = refused \union {m}
    /\ earlyMsgs' = [earlyMsgs EXCEPT ![s] = Tail(@)]
    /\ UNCHANGED <<DeliveryRest, recvCh, partyReady, dpc, dedup, handed>>

DeliveryFlushed(s) ==
    /\ dpc[s] = "flush" /\ earlyMsgs[s] = <<>>
    /\ dpc' = [dpc EXCEPT ![s] = "select"]
    /\ UNCHANGED <<DeliveryRest, recvCh, partyReady, earlyMsgs, dedup, handed,
                   refused>>

DeliveryStep(s) ==
    \/ DeliveryRecv(s) \/ DeliveryReady(s) \/ DeliveryExit(s)
    \/ DeliveryProcess(s) \/ DeliveryRefused(s) \/ DeliveryFlushed(s)
-----------------------------------------------------------------------------
(***************************************************************************)
(* abortTaskSession and abortKeygenSession / abortSignSession, as far as   *)
(* they touch the session and the cache.                                   *)
(***************************************************************************)
AbortRest == <<pushes, recvCh, panicked, courVars, handVars, partyVars,
               delVars>>
AbortGoto(a, pc) == apc' = [apc EXCEPT ![a] = pc]

\* tryMarkTaskAborted; an abort of a task that is marked goes on as well.
AbortMark(a) ==
    /\ apc[a] = "mark"
    /\ aborted' = TRUE
    /\ AbortGoto(a, "lookup")
    /\ UNCHANGED <<AbortRest, early, sessVars, asess>>

AbortLookup(a) ==
    /\ apc[a] = "lookup"
    /\ asess' = [asess EXCEPT ![a] = session]
    /\ AbortGoto(a, IF session = NoSession THEN "ready" ELSE "isClosed")
    /\ UNCHANGED <<AbortRest, early, sessVars, aborted>>

AbortIsClosed(a) ==
    /\ apc[a] = "isClosed"
    /\ AbortGoto(a, IF asess[a] \in closed THEN "ready" ELSE "close")
    /\ UNCHANGED <<AbortRest, early, sessVars, aborted, asess>>

AbortClose(a) ==
    /\ apc[a] = "close"
    /\ closed' = closed \union {asess[a]}
    /\ AbortGoto(a, "unregister")
    /\ UNCHANGED <<AbortRest, early, active, session, aborted, asess>>

AbortUnregister(a) ==
    /\ apc[a] = "unregister"
    /\ IF session = asess[a]
         THEN session' = NoSession /\ AbortGoto(a, "dropEarly")
         ELSE UNCHANGED session /\ AbortGoto(a, "end")
    /\ UNCHANGED <<AbortRest, early, active, closed, aborted, asess>>

AbortEnd(a) ==
    /\ apc[a] = "end"
    /\ active' = NoSession
    /\ AbortGoto(a, "clear")
    /\ UNCHANGED <<AbortRest, early, session, closed, aborted, asess>>

\* Both in unregisterKeygenSession and by clearEarlyKeygenMessages.
AbortDropEarly(a) ==
    /\ apc[a] \in {"dropEarly", "clear"}
    /\ early' = <<>>
    /\ AbortGoto(a, IF apc[a] = "dropEarly" THEN "end" ELSE "ready")
    /\ UNCHANGED <<AbortRest, sessVars, aborted, asess>>

AbortStep(a) ==
    \/ AbortLookup(a) \/ AbortIsClosed(a) \/ AbortClose(a)
    \/ AbortUnregister(a) \/ AbortEnd(a) \/ AbortDropEarly(a)

\* Nothing is left to do until the broker pushes something new, or the
\* process has ended: nothing recovers from a panic.
AllServed ==
    /\ \/ panicked
       \/ /\ \A s \in Session : hpc[s] \in {"idle", "rejected", "done"}
          /\ cpc = "idle" /\ \A a \in Aborter : apc[a] \in {"mark", "ready"}
    /\ UNCHANGED vars

Step ==
    \/ \E m \in Msg : Push(m)
    \/ CourierStep
    \/ \E s \in Session : HandlerStep(s) \/ DeliveryStep(s)
    \/ \E a \in Other : AbortMark(a)
    \/ \E a \in Aborter : AbortStep(a)

Next == (~panicked /\ Step) \/ AllServed

Spec == Init /\ [][Next]_vars

-----------------------------------------------------------------------------
(***************************************************************************)
(* Properties.                                                             *)
(***************************************************************************)
\* The broker may push a message again, and it may reach a node once over
\* the early cache and once over the channel: the protocol still gets it at
\* most once (processMessage, keygen.go:324-345).
HandedOnce == \A s \in Session, m \in Msg : handed[s][m] <= 1

Undisturbed == ~aborted /\ \A s \in Session :
                 hpc[s] \notin {"unregister", "dropEarly", "done"}

\* The messages that an undisturbed run must not lose, as long as the two
\* caches can hold all that was pushed.
Due == IF Undisturbed /\ pushed <= maxEarly
         THEN {m \in Msg \ (Own \union refused) : copies[m] > 0} ELSE {}

\* The message has been handed to the protocol, or it is on its way: in the
\* reader's hands, in the early cache while somebody will still take it, among
\* the items to replay, in the channel or with the delivery goroutine.
Safe(m) ==
    \/ cmsg = m
    \/ Awaited /\ Contains(early, m)
    \/ \E s \in Session : \/ handed[s][m] > 0
                          \/ Contains(replay[s], m)
                          \/ Contains(recvCh[s], m)
                          \/ Contains(earlyMsgs[s], m)

\* There is one way only in which a message that is not the node's own and that
\* Receive has not refused can be lost while the task runs: the reader looked
\* for the session before it was registered, and cached the message after
\* registerKeygenSession had taken the cache (keygen.go:376-402, 204-213).
Conserved == \A m \in Due \ missed : Safe(m)

\* keygen.go:32, timing.go:22: the early cache is there so that no message is
\* lost; one that is lost stops the protocol.
NoEarlyLost == \A m \in Due : Safe(m)

\* The replay runs before anyone reads the channel (keygen.go:226, 647-656),
\* and the reader sends into it as well: as long as all that is pushed for
\* the task fits into the channel the handler never has to wait, whatever is
\* aborted and started again meanwhile.
ReplayNeverWaits ==
    pushed <= RecvBuf =>
        \A s \in Session : hpc[s] = "send" => ~SendTimesOut(s)

\* enqueue.go:8: a sender gives up when the session is closed; it never
\* sends on the closed channel.
NoPanic == ~panicked
=============================================================================

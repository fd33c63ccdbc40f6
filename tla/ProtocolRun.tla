---------------------------- MODULE ProtocolRun ----------------------------
(***************************************************************************)
(* One run of a threshold protocol on several nodes: the router and its    *)
(* inbox (mpc/inbox.go), the runner around the Alice backend               *)
(* (mpc/runner.go), the sends to the peers (mpc/peer_manager.go,           *)
(* sendMPCProtocolWire), and for an ECDSA keygen the exchange of the       *)
(* partial public keys that follows the DKG (mpc/alg_ecdsa/keygen.go).     *)
(*                                                                         *)
(* The nodes do not start together: one is told to start while another is  *)
(* done with a round.  The backend is external: it buffers the messages of *)
(* later rounds, and goes to the next round when it has the messages of    *)
(* all peers.  MessageDelivery shows that a message reaches the router at  *)
(* most once; the broker may forward messages in any order.                *)
(***************************************************************************)
EXTENDS Naturals, FiniteSets

CONSTANTS
    Node,
    Rounds,           \* rounds of the Alice protocol
    InboxPendingCap,
    MaxFaults         \* bound on lost sends, aborts and refused messages

ASSUME RunAssumption ==
    /\ IsFiniteSet(Node) /\ Rounds \in Nat \ {0}
    /\ InboxPendingCap \in Nat /\ MaxFaults \in Nat

Kinds   == {"keygen", "frost", "sign"}  \* ECDSA DKG, FROST DKG, any sign
Modules == {"dkg", "sign", "partpub"}
Msg == [from : Node, mod : Modules, round : 0 .. Rounds]

VARIABLES
    kind,      \* what is run
    phase,     \* the worker of each node
    net,       \* messages on the way to each node
    handler,   \* Inbox.handler is set
    expected,  \* Inbox.expectedModule; "any" is 0
    pending,   \* Inbox.pending
    replay,    \* the copy of pending that SetHandler replays
    got,       \* what the backend was given
    round,     \* the round of the backend
    partPub,   \* the router's collector: exists, has the keys of ...
    lost,      \* history: messages that no longer can arrive
    faults

inbox == <<handler, expected, pending, replay>>
vars == <<kind, phase, net, inbox, got, round, partPub, lost, faults>>

Peers(i) == Node \ {i}
Over == {"saved", "failed"}
RunModule == IF kind = "sign" THEN "sign" ELSE "dkg"
NoCollector == [there |-> FALSE, from |-> {}]

\* Types; a collector only holds keys once it is there, and the inbox has a
\* handler only while there is a backend behind it, or after a replay that
\* failed.
TypeOK ==
    /\ kind \in Kinds
    /\ phase \in [Node -> {"idle", "ready", "replay", "run", "partpub",
                           "collect"} \union Over]
    /\ net \in [Node -> SUBSET Msg] /\ pending \in [Node -> SUBSET Msg]
    /\ replay \in [Node -> SUBSET Msg] /\ got \in [Node -> SUBSET Msg]
    /\ handler \in [Node -> BOOLEAN]
    /\ expected \in [Node -> Modules \union {"any"}]
    /\ round \in [Node -> 0 .. Rounds + 1]
    /\ \A i \in Node : /\ partPub[i].from \in SUBSET Node
                       /\ partPub[i].from # {} => partPub[i].there
                       /\ handler[i] =>
                            phase[i] \in {"replay", "run", "failed"}
    /\ faults \in 0 .. MaxFaults

Init ==
    /\ kind \in Kinds
    /\ phase = [i \in Node |-> "idle"]
    /\ net = [i \in Node |-> {}] /\ lost = [i \in Node |-> {}]
    /\ handler = [i \in Node |-> FALSE]
    /\ expected = [i \in Node |-> "any"]
    /\ pending = [i \in Node |-> {}] /\ replay = [i \in Node |-> {}]
    /\ got = [i \in Node |-> {}] /\ round = [i \in Node |-> 0]
    /\ partPub = [i \in Node |-> NoCollector]
    /\ faults = 0
-----------------------------------------------------------------------------
(***************************************************************************)
(* Sending.                                                                *)
(***************************************************************************)
\* sendMpcProtocolMsgWithRetry gives up after its attempts, when the task is
\* aborted, or when the peer's public key is missing; fail is the set of
\* peers for which that happens.
Fails(i, fail) ==
    /\ fail \in SUBSET Peers(i)
    /\ faults' = IF fail = {} THEN faults ELSE faults + 1
    /\ faults' <= MaxFaults

Sent(i, m, fail) ==
    /\ net' = [j \in Node |-> IF j \in Peers(i) \ fail THEN net[j] \union {m}
                              ELSE net[j]]
    /\ lost' = [j \in Node |-> IF j \in fail THEN lost[j] \union {m}
                               ELSE lost[j]]

\* MustSend: the backend broadcasts, and the error of a send is dropped.
MustSend(i, r) ==
    \E fail \in SUBSET Peers(i) :
        /\ Fails(i, fail)
        /\ Sent(i, [from |-> i, mod |-> RunModule, round |-> r], fail)
-----------------------------------------------------------------------------
(***************************************************************************)
(* The worker: RunDKG, RunRefresh or RunSign, around RunAliceBackend.      *)
(***************************************************************************)
\* runKeygenNodeECDSA makes the collector before the DKG.
NewPartialPubCollector(i) ==
    partPub' = IF kind = "keygen"
                 THEN [partPub EXCEPT ![i] = [there |-> TRUE, from |-> {}]]
                 ELSE partPub

\* SetExpectedModule is for refresh and sign; a DKG takes every module.
RunBegins(i) ==
    /\ phase[i] = "idle"
    /\ NewPartialPubCollector(i)
    /\ expected' = IF kind = "sign" THEN [expected EXCEPT ![i] = "sign"]
                   ELSE expected
    /\ phase' = [phase EXCEPT ![i] = "ready"]
    /\ UNCHANGED <<kind, net, handler, pending, replay, got, round, lost,
                   faults>>

\* SetHandler under the mutex.
SetHandler(i) ==
    /\ phase[i] = "ready"
    /\ handler' = [handler EXCEPT ![i] = TRUE]
    /\ replay' = [replay EXCEPT ![i] = pending[i]]
    /\ pending' = [pending EXCEPT ![i] = {}]
    /\ phase' = [phase EXCEPT ![i] = "replay"]
    /\ UNCHANGED <<kind, net, expected, got, round, partPub, lost, faults>>

Wanted(i, m) == expected[i] \in {"any", m.mod}

\* The replay, outside the mutex; then backend.Start sends the first round.
Replay(i) ==
    /\ phase[i] = "replay"
    /\ got' = [got EXCEPT ![i] = @ \union {m \in replay[i] : Wanted(i, m)}]
    /\ replay' = [replay EXCEPT ![i] = {}]
    /\ round' = [round EXCEPT ![i] = 1]
    /\ phase' = [phase EXCEPT ![i] = "run"]
    /\ MustSend(i, 1)
    /\ UNCHANGED <<kind, handler, expected, pending, partPub>>

\* The backend refuses a message that is replayed: the run fails, and the
\* handler stays.
ReplayFails(i) ==
    /\ phase[i] = "replay" /\ replay[i] # {} /\ faults < MaxFaults
    /\ faults' = faults + 1
    /\ replay' = [replay EXCEPT ![i] = {}]
    /\ phase' = [phase EXCEPT ![i] = "failed"]
    /\ UNCHANGED <<kind, net, handler, expected, pending, got, round, partPub,
                   lost>>

\* Alice (external): the messages of all peers for this round are there.
RoundComplete(i) ==
    /\ phase[i] = "run"
    /\ \A j \in Peers(i) :
         [from |-> j, mod |-> RunModule, round |-> round[i]] \in got[i]

NextRound(i) ==
    /\ RoundComplete(i) /\ round[i] < Rounds
    /\ round' = [round EXCEPT ![i] = @ + 1]
    /\ MustSend(i, round[i] + 1)
    /\ UNCHANGED <<kind, phase, inbox, got, partPub>>

\* A plausible bug: the handler of the finished backend stays.
ClearHandlerNot(i) == UNCHANGED inbox

ClearHandler(i) ==
    /\ handler' = [handler EXCEPT ![i] = FALSE]
    /\ expected' = [expected EXCEPT ![i] = "any"]
    /\ pending' = [pending EXCEPT ![i] = {}]
    /\ UNCHANGED replay

\* OnStateChanged(StateDone), Stop and ClearHandler.  FROST saves at once,
\* a sign has its signature.
BackendDone(i) ==
    /\ RoundComplete(i) /\ round[i] = Rounds
    /\ ClearHandler(i)
    /\ round' = [round EXCEPT ![i] = Rounds + 1]
    /\ phase' = [phase EXCEPT ![i] = IF kind = "keygen" THEN "partpub"
                                     ELSE "saved"]
    /\ UNCHANGED <<kind, net, got, partPub, lost, faults>>

\* A plausible bug: the exchange begins with a new collector.
AddSelfAfresh(i) ==
    partPub' = [partPub EXCEPT ![i] = [there |-> TRUE, from |-> {i}]]

AddSelf(i) ==
    partPub' = [partPub EXCEPT ![i] = [there |-> TRUE,
                                       from |-> @.from \union {i}]]

\* RunPartialPubExchange: AddSelf, then SendWire to each peer; an error ends
\* the run, and the peers that follow are sent nothing.
PartPubSend(i) ==
    /\ phase[i] = "partpub"
    /\ AddSelf(i)
    /\ \E fail \in SUBSET Peers(i) :
         /\ Fails(i, fail)
         /\ Sent(i, [from |-> i, mod |-> "partpub", round |-> 0], fail)
         /\ phase' = [phase EXCEPT ![i] = IF fail = {} THEN "collect"
                                          ELSE "failed"]
    /\ UNCHANGED <<kind, inbox, got, round>>

\* A plausible bug: its own key is not counted among the wanted ones.
DoneTooEarly(i) == Cardinality(partPub[i].from) + 1 >= Cardinality(Node)

Done(i) == Cardinality(partPub[i].from) >= Cardinality(Node)

Collected(i) ==
    /\ phase[i] = "collect" /\ Done(i)
    /\ phase' = [phase EXCEPT ![i] = "saved"]
    /\ UNCHANGED <<kind, net, inbox, got, round, partPub, lost, faults>>

\* A plausible bug: the poll of the collector does not watch the context.
StopsInBackend(i) == phase[i] = "run"

\* Where the context is watched.
Stops(i) == phase[i] \in {"run", "collect"}

Leave(i) ==
    /\ Stops(i)
    /\ phase' = [phase EXCEPT ![i] = "failed"]
    /\ IF phase[i] = "run" THEN ClearHandler(i) ELSE UNCHANGED inbox
    /\ UNCHANGED <<kind, net, got, round, partPub, lost>>

\* The session is aborted, or the backend fails.
Abort(i) == faults < MaxFaults /\ faults' = faults + 1 /\ Leave(i)

\* The timer of the run.  It is much longer than a run in which nothing goes
\* wrong (keygen.go:145).
Timeout(i) == faults > 0 /\ UNCHANGED faults /\ Leave(i)
-----------------------------------------------------------------------------
(***************************************************************************)
(* The delivery goroutine: Receive of the router.                          *)
(***************************************************************************)
\* Deliver of the collector: a key of a node it wants; a second one replaces
\* the first.
CollectPartPub(i, m) ==
    partPub' = [partPub EXCEPT ![i].from = @ \union {m.from}]

\* A partial public key that comes before the collector goes to the inbox,
\* which does not know the module.
ReceivePartPub(i, m) ==
    /\ m.mod = "partpub"
    /\ IF partPub[i].there
         THEN CollectPartPub(i, m) /\ UNCHANGED lost
         ELSE /\ lost' = [lost EXCEPT ![i] = @ \union {m}]
              /\ UNCHANGED partPub
    /\ UNCHANGED <<inbox, got>>

\* Deliver with a handler; AddMessage follows the release of the mutex.
DeliverNow(i, m) ==
    /\ m.mod # "partpub" /\ handler[i]
    /\ got' = IF Wanted(i, m) THEN [got EXCEPT ![i] = @ \union {m}] ELSE got
    /\ UNCHANGED <<inbox, partPub, lost>>

\* A plausible bug: one place less.
HasRoomTight(i) == Cardinality(pending[i]) + 1 < InboxPendingCap

HasRoom(i) == Cardinality(pending[i]) < InboxPendingCap

\* Deliver without one; a full inbox refuses, a duplicate is dropped.
DeliverLater(i, m) ==
    /\ m.mod # "partpub" /\ ~handler[i]
    /\ IF Wanted(i, m) /\ HasRoom(i)
         THEN /\ pending' = [pending EXCEPT ![i] = @ \union {m}]
              /\ UNCHANGED lost
         ELSE /\ lost' = [lost EXCEPT ![i] = @ \union {m}]
              /\ UNCHANGED pending
    /\ UNCHANGED <<handler, expected, replay, got, partPub>>

Receive(i) ==
    \E m \in net[i] :
        /\ net' = [net EXCEPT ![i] = @ \ {m}]
        /\ ReceivePartPub(i, m) \/ DeliverNow(i, m) \/ DeliverLater(i, m)
        /\ UNCHANGED <<kind, phase, round, faults>>

\* AddMessage or the collector refuses m.  deliverSessionErr puts the error
\* into a channel that nobody reads: the run goes on without the message.
ReceiveRefused(i) ==
    /\ faults < MaxFaults /\ faults' = faults + 1
    /\ \E m \in net[i] :
         /\ IF m.mod = "partpub" THEN partPub[i].there
            ELSE handler[i] /\ Wanted(i, m)
         /\ net' = [net EXCEPT ![i] = @ \ {m}]
         /\ lost' = [lost EXCEPT ![i] = @ \union {m}]
    /\ UNCHANGED <<kind, phase, inbox, got, round, partPub>>

WorkerStep(i) ==
    \/ RunBegins(i) \/ SetHandler(i) \/ Replay(i) \/ NextRound(i)
    \/ BackendDone(i) \/ PartPubSend(i) \/ Collected(i) \/ Timeout(i)

Next ==
    \E i \in Node :
        \/ WorkerStep(i) \/ ReplayFails(i) \/ Abort(i)
        \/ Receive(i) \/ ReceiveRefused(i)

\* Goroutines go on, the broker forwards, timers fire.
Fairness == \A i \in Node : WF_vars(WorkerStep(i)) /\ WF_vars(Receive(i))

Spec == Init /\ [][Next]_vars
LiveSpec == Spec /\ Fairness
-----------------------------------------------------------------------------
(***************************************************************************)
(* Properties.                                                             *)
(***************************************************************************)
\* mpc/inbox.go:29 and protocol/ecdsa.go:129: without a failed send
\* no message is lost, although the nodes do not start together: the router
\* has its collector before a partial public key can arrive, the inbox keeps
\* what comes before its handler, its capacity is not reached while it is not
\* less than the number of peers, and no replay or ClearHandler drops a
\* message.
NothingLost ==
    faults = 0 => \A i \in Node :
        /\ lost[i] = {}
        /\ \A j \in Peers(i) : \A r \in 1 .. Rounds :
             r <= round[j] =>
                 [from |-> j, mod |-> RunModule, round |-> r] \in
                     net[i] \union pending[i] \union replay[i] \union got[i]

\* A node has saved its share of a key, or has a signature, only if all nodes
\* have sent everything the run needs of them: all are through the rounds
\* and, for an ECDSA keygen, have given their partial public key.
SavedMeansAll ==
    \A i \in Node : phase[i] = "saved" =>
        /\ \A j \in Node : round[j] >= Rounds
        /\ kind = "keygen" => \A j \in Node :
             j \in partPub[i].from /\ round[j] = Rounds + 1

\* mpc/alg_ecdsa/keygen.go:145: nodes start late and are slow, fast ones are
\* in the exchange while others are in the DKG; if no send fails and nothing
\* is aborted every node still gets to the end, all of them.
AllFinish == [](faults = 0) => <>(\A i \in Node : phase[i] = "saved")

\* Whatever is lost, refused or aborted, on this node or on another one, no
\* node waits for ever: MustSend drops errors, errCh has no reader, and the
\* peers of a node that gave up are not told.
RunEnds == \A i \in Node : phase[i] = "ready" ~> phase[i] \in Over
=============================================================================

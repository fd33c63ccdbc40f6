------------------------- MODULE ProtocolRunProofs -------------------------
(***************************************************************************)
(* Proofs about ProtocolRun, for any set of nodes, number of rounds and    *)
(* number of faults.                                                       *)
(***************************************************************************)
EXTENDS ProtocolRun, FiniteSetTheorems, TLAPS

\* TypeOK with the collectors and the history spelled out.
TypeInv ==
    /\ TypeOK
    /\ partPub \in [Node -> [there : BOOLEAN, from : SUBSET Node]]
    /\ lost \in [Node -> SUBSET Msg]

\* What is on the way to a node, or has come to it.
Known(i) == net[i] \union pending[i] \union replay[i] \union got[i]
RunMsg(j, r) == [from |-> j, mod |-> RunModule, round |-> r]

\* A message has been sent: its sender has reached its round, or is through
\* with the protocol.
WasSent(i, m) ==
    /\ m.from \in Peers(i)
    /\ \/ /\ m.mod = "partpub" /\ round[m.from] = Rounds + 1
          /\ kind = "keygen"
       \/ /\ m.mod = RunModule /\ m.round \in 1 .. Rounds
          /\ m.round <= round[m.from]

\* What a node that is through with the protocol has of the others.
SafeInv ==
    \A i \in Node :
        /\ \A m \in Known(i) : WasSent(i, m)
        /\ \A j \in partPub[i].from : round[j] = Rounds + 1
        /\ phase[i] \in {"idle", "ready", "replay"} => round[i] = 0
        /\ phase[i] = "run" => round[i] \in 1 .. Rounds
        /\ phase[i] \in {"partpub", "collect"} =>
             round[i] = Rounds + 1 /\ kind = "keygen"
        /\ phase[i] = "saved" => round[i] = Rounds + 1
        /\ phase[i] = "saved" /\ kind = "keygen" => partPub[i].from = Node
        /\ round[i] = Rounds + 1 => \A j \in Node : round[j] >= Rounds

\* Without faults: the nodes are at most a round apart, and everything that
\* was sent is in exactly one place.
Undisturbed(i) ==
    /\ phase[i] # "failed" /\ lost[i] = {}
    /\ handler[i] <=> phase[i] \in {"replay", "run"}
    /\ handler[i] => pending[i] = {}
    /\ phase[i] # "replay" => replay[i] = {}
    /\ expected[i] \in {"any", RunModule}
    /\ kind = "keygen" /\ phase[i] # "idle" => partPub[i].there
    /\ \A m \in pending[i] \union replay[i] \union got[i] : m.mod # "partpub"
InOnePlace(i) ==
    /\ \A j \in Peers(i) : round[j] <= round[i] + 1
    /\ \A m \in net[i] : m \notin pending[i] \union replay[i] \union got[i]
    /\ \A j \in Peers(i), r \in 1 .. Rounds :
         /\ r <= round[j] => RunMsg(j, r) \in Known(i)
         /\ r < round[i] => RunMsg(j, r) \in got[i]
FaultFreeInv == faults = 0 => \A i \in Node : Undisturbed(i) /\ InOnePlace(i)
-----------------------------------------------------------------------------
\* What a broadcast does, with the messages that get lost.
LEMMA SendFacts ==
    ASSUME TypeInv, NEW i \in Node, NEW m \in Msg,
           NEW fail \in SUBSET Peers(i), Fails(i, fail), Sent(i, m, fail)
    PROVE  /\ net' \in [Node -> SUBSET Msg] /\ lost' \in [Node -> SUBSET Msg]
           /\ faults' \in 0 .. MaxFaults
           /\ \A j \in Node : net'[j] \in SUBSET (net[j] \union {m})
           /\ net'[i] = net[i]
           /\ faults' = 0 => /\ faults = 0 /\ lost' = lost /\ fail = {}
                             /\ \A j \in Peers(i) :
                                  net'[j] = net[j] \union {m}
<1> USE DEF TypeInv, TypeOK
<1>1. /\ net' \in [Node -> SUBSET Msg] /\ lost' \in [Node -> SUBSET Msg]
      /\ \A j \in Node : net'[j] \in SUBSET (net[j] \union {m})
      /\ net'[i] = net[i]
  BY DEF Sent, Peers
<1>2. faults' \in 0 .. MaxFaults /\ (faults' = 0 => faults = 0 /\ fail = {})
  <2>1. faults \in Nat /\ faults <= MaxFaults /\ MaxFaults \in Nat
    BY RunAssumption
  <2>2. CASE fail = {}
    BY <2>1, <2>2 DEF Fails
  <2>3. CASE fail # {}
    BY <2>1, <2>3 DEF Fails
  <2> QED BY <2>2, <2>3
<1>3. ASSUME fail = {}
      PROVE  lost' = lost /\ \A j \in Peers(i) : net'[j] = net[j] \union {m}
  BY <1>3 DEF Sent, Peers
<1> QED BY <1>1, <1>2, <1>3

LEMMA MustSendFacts ==
    ASSUME TypeInv, NEW i \in Node, NEW r \in 1 .. Rounds, MustSend(i, r)
    PROVE  /\ net' \in [Node -> SUBSET Msg] /\ lost' \in [Node -> SUBSET Msg]
           /\ faults' \in 0 .. MaxFaults
           /\ \A j \in Node : net'[j] \in SUBSET (net[j] \union {RunMsg(i, r)})
           /\ net'[i] = net[i]
           /\ faults' = 0 => /\ faults = 0 /\ lost' = lost
                             /\ \A j \in Peers(i) :
                                  net'[j] = net[j] \union {RunMsg(i, r)}
<1>1. RunMsg(i, r) \in Msg
  BY RunAssumption DEF RunMsg, Msg, RunModule, Modules
<1>2. PICK fail \in SUBSET Peers(i) :
        Fails(i, fail) /\ Sent(i, RunMsg(i, r), fail)
  BY DEF MustSend, RunMsg
<1> HIDE DEF RunMsg
<1> QED BY <1>1, <1>2, SendFacts

LEMMA CollectFacts ==
    ASSUME TypeInv, NEW i \in Node, NEW m \in Msg, CollectPartPub(i, m)
    PROVE  /\ partPub' \in [Node -> [there : BOOLEAN, from : SUBSET Node]]
           /\ partPub'[i].from = partPub[i].from \union {m.from}
           /\ partPub'[i].there = partPub[i].there
           /\ \A j \in Node \ {i} : partPub'[j] = partPub[j]
<1> DEFINE c == [partPub[i] EXCEPT !.from = @ \union {m.from}]
<1>1. partPub' = [partPub EXCEPT ![i] = c]
  BY DEF CollectPartPub
<1>2. /\ partPub \in [Node -> [there : BOOLEAN, from : SUBSET Node]]
      /\ m.from \in Node
  BY DEF TypeInv, Msg
<1>3. /\ c \in [there : BOOLEAN, from : SUBSET Node]
      /\ c.from = partPub[i].from \union {m.from}
      /\ c.there = partPub[i].there
  BY <1>2
<1> HIDE DEF c
<1> QED BY <1>1, <1>2, <1>3

LEMMA TypeInvInit == Init => TypeInv
<1> SUFFICES ASSUME Init PROVE TypeInv
  OBVIOUS
<1> USE RunAssumption DEF Init
<1>1. partPub \in [Node -> [there : BOOLEAN, from : SUBSET Node]]
  BY DEF NoCollector
<1>2. \A i \in Node : partPub[i].from = {} /\ ~handler[i]
  BY DEF NoCollector
<1>3. handler \in [Node -> BOOLEAN]
  OBVIOUS
<1>4. phase \in [Node -> {"idle", "ready", "replay", "run", "partpub",
                          "collect"} \union Over]
  OBVIOUS
<1>5. round \in [Node -> 0 .. Rounds + 1] /\ faults \in 0 .. MaxFaults
  OBVIOUS
<1>6. /\ net \in [Node -> SUBSET Msg] /\ pending \in [Node -> SUBSET Msg]
      /\ replay \in [Node -> SUBSET Msg] /\ got \in [Node -> SUBSET Msg]
      /\ lost \in [Node -> SUBSET Msg]
  OBVIOUS
<1>7. expected \in [Node -> Modules \union {"any"}]
  OBVIOUS
<1> QED BY <1>1, <1>2, <1>3, <1>4, <1>5, <1>6, <1>7 DEF TypeInv, TypeOK

LEMMA TypeInvStep ==
    ASSUME TypeInv, SafeInv, [Next]_vars
    PROVE  TypeInv'
<1> USE RunAssumption DEF TypeInv, TypeOK, inbox, Over
<1>1. ASSUME NEW i \in Node, RunBegins(i) PROVE TypeInv'
  BY <1>1 DEF RunBegins, NewPartialPubCollector, Modules
<1>2. ASSUME NEW i \in Node, SetHandler(i) PROVE TypeInv'
  BY <1>2 DEF SetHandler
<1>3. ASSUME NEW i \in Node, Replay(i) PROVE TypeInv'
  <2>1. 1 \in 1 .. Rounds /\ MustSend(i, 1)
    BY <1>3 DEF Replay
  <2>2. /\ net' \in [Node -> SUBSET Msg] /\ lost' \in [Node -> SUBSET Msg]
        /\ faults' \in 0 .. MaxFaults
    BY <2>1, MustSendFacts
  <2>3. got' \in [Node -> SUBSET Msg] /\ replay' \in [Node -> SUBSET Msg]
    BY <1>3 DEF Replay
  <2>4. round' \in [Node -> 0 .. Rounds + 1]
    BY <1>3 DEF Replay
  <2> QED BY <1>3, <2>2, <2>3, <2>4 DEF Replay
<1>4. ASSUME NEW i \in Node, ReplayFails(i) PROVE TypeInv'
  <2>1. faults' \in 0 .. MaxFaults
    BY <1>4 DEF ReplayFails
  <2> QED BY <1>4, <2>1 DEF ReplayFails
<1>5. ASSUME NEW i \in Node, NextRound(i) PROVE TypeInv'
  <2>1. round[i] + 1 \in 1 .. Rounds /\ MustSend(i, round[i] + 1)
    BY <1>5 DEF NextRound
  <2>2. /\ net' \in [Node -> SUBSET Msg] /\ lost' \in [Node -> SUBSET Msg]
        /\ faults' \in 0 .. MaxFaults
    BY <2>1, MustSendFacts
  <2>3. round' \in [Node -> 0 .. Rounds + 1]
    BY <1>5 DEF NextRound
  <2> QED BY <1>5, <2>2, <2>3 DEF NextRound
<1>6. ASSUME NEW i \in Node, BackendDone(i) PROVE TypeInv'
  <2>1. round' \in [Node -> 0 .. Rounds + 1]
    BY <1>6 DEF BackendDone
  <2>2. /\ handler' \in [Node -> BOOLEAN]
        /\ handler'[i] = FALSE
        /\ \A j \in Node \ {i} : handler'[j] = handler[j]
    BY <1>6 DEF BackendDone, ClearHandler
  <2> QED BY <1>6, <2>1, <2>2 DEF BackendDone, ClearHandler
<1>7. ASSUME NEW i \in Node, PartPubSend(i) PROVE TypeInv'
  <2> DEFINE m == [from |-> i, mod |-> "partpub", round |-> 0]
  <2>1. m \in Msg
    BY DEF Msg, Modules
  <2>2. PICK fail \in SUBSET Peers(i) :
          /\ Fails(i, fail) /\ Sent(i, m, fail)
          /\ phase' = [phase EXCEPT ![i] = IF fail = {} THEN "collect"
                                           ELSE "failed"]
    BY <1>7 DEF PartPubSend
  <2> HIDE DEF m
  <2>3. /\ net' \in [Node -> SUBSET Msg] /\ lost' \in [Node -> SUBSET Msg]
        /\ faults' \in 0 .. MaxFaults
    BY <2>1, <2>2, SendFacts
  <2>4. /\ partPub' \in [Node -> [there : BOOLEAN, from : SUBSET Node]]
        /\ \A j \in Node : partPub'[j].from # {} => partPub'[j].there
    BY <1>7 DEF PartPubSend, AddSelf
  <2>5. ~handler[i]
    BY <1>7 DEF PartPubSend
  <2> QED BY <1>7, <2>2, <2>3, <2>4, <2>5 DEF PartPubSend
<1>8. ASSUME NEW i \in Node, Collected(i) PROVE TypeInv'
  BY <1>8 DEF Collected
<1>9. ASSUME NEW i \in Node, Leave(i), faults' \in 0 .. MaxFaults
      PROVE  TypeInv'
  BY <1>9 DEF Leave, Stops, ClearHandler
<1>10. ASSUME NEW i \in Node, Receive(i) PROVE TypeInv'
  <2>1. PICK m \in net[i] :
          /\ net' = [net EXCEPT ![i] = @ \ {m}]
          /\ ReceivePartPub(i, m) \/ DeliverNow(i, m) \/ DeliverLater(i, m)
          /\ UNCHANGED <<kind, phase, round, faults>>
    BY <1>10 DEF Receive
  <2>2. m \in Msg /\ m.from \in Node /\ net' \in [Node -> SUBSET Msg]
    BY <2>1 DEF Msg
  <2>3. CASE ReceivePartPub(i, m)
    <3>1. CASE partPub[i].there
      <4>1. /\ partPub' \in [Node -> [there : BOOLEAN, from : SUBSET Node]]
            /\ \A j \in Node : partPub'[j].from # {} => partPub'[j].there
        BY <2>2, <2>3, <3>1, CollectFacts DEF ReceivePartPub
      <4> QED BY <2>1, <2>2, <2>3, <3>1, <4>1 DEF ReceivePartPub
    <3>2. CASE ~partPub[i].there
      BY <2>1, <2>2, <2>3, <3>2 DEF ReceivePartPub
    <3> QED BY <3>1, <3>2
  <2>4. CASE DeliverNow(i, m)
    BY <2>1, <2>2, <2>4 DEF DeliverNow
  <2>5. CASE DeliverLater(i, m)
    BY <2>1, <2>2, <2>5 DEF DeliverLater
  <2> QED BY <2>1, <2>3, <2>4, <2>5
<1>11. ASSUME NEW i \in Node, ReceiveRefused(i) PROVE TypeInv'
  <2>1. faults' \in 0 .. MaxFaults
    BY <1>11 DEF ReceiveRefused
  <2>2. net' \in [Node -> SUBSET Msg] /\ lost' \in [Node -> SUBSET Msg]
    BY <1>11 DEF ReceiveRefused
  <2> QED BY <1>11, <2>1, <2>2 DEF ReceiveRefused
<1>12. CASE UNCHANGED vars
  BY <1>12 DEF vars
<1>13. ASSUME NEW i \in Node, Abort(i) PROVE faults' \in 0 .. MaxFaults
  BY <1>13 DEF Abort
<1>14. ASSUME NEW i \in Node, Timeout(i) PROVE faults' \in 0 .. MaxFaults
  BY <1>14 DEF Timeout
<1> HIDE DEF TypeInv, TypeOK
<1> QED
  BY <1>1, <1>2, <1>3, <1>4, <1>5, <1>6, <1>7, <1>8, <1>9, <1>10, <1>11,
     <1>12, <1>13, <1>14 DEF Next, WorkerStep, Abort, Timeout

LEMMA SafeInvInit == Init => SafeInv
<1> SUFFICES ASSUME Init PROVE SafeInv
  OBVIOUS
<1>1. \A i \in Node : /\ Known(i) = {} /\ partPub[i].from = {}
                      /\ phase[i] = "idle" /\ round[i] = 0
  BY DEF Init, Known, NoCollector
<1> QED BY <1>1, RunAssumption DEF SafeInv

\* The rounds only grow, so what was sent stays so; a step adds to what a
\* node knows only what has been sent to it.
LEMMA KnownStep ==
    ASSUME TypeInv, TypeInv', SafeInv, kind' = kind,
           \A j \in Node : round[j] <= round'[j],
           \A i \in Node : \A m \in Known(i)' :
              m \in Known(i) \/ WasSent(i, m)'
    PROVE  \A i \in Node : \A m \in Known(i)' : WasSent(i, m)'
<1> SUFFICES ASSUME NEW i \in Node, NEW m \in Known(i), WasSent(i, m)
             PROVE  WasSent(i, m)'
  BY DEF SafeInv
<1>1. m.from \in Node /\ m \in Msg
  BY DEF WasSent, Peers, Known, TypeInv, TypeOK
<1>2. /\ round[m.from] \in 0 .. Rounds + 1
      /\ round'[m.from] \in 0 .. Rounds + 1
      /\ round[m.from] <= round'[m.from] /\ m.round \in 0 .. Rounds
  BY <1>1 DEF TypeInv, TypeOK, Msg
<1> QED BY <1>1, <1>2, RunAssumption DEF WasSent, Peers, RunModule

\* The part of SafeInv that is about one node, without its messages.
NodeInv(i) ==
    /\ \A j \in partPub[i].from : round[j] = Rounds + 1
    /\ phase[i] \in {"idle", "ready", "replay"} => round[i] = 0
    /\ phase[i] = "run" => round[i] \in 1 .. Rounds
    /\ phase[i] \in {"partpub", "collect"} =>
         round[i] = Rounds + 1 /\ kind = "keygen"
    /\ phase[i] = "saved" => round[i] = Rounds + 1
    /\ phase[i] = "saved" /\ kind = "keygen" => partPub[i].from = Node
    /\ round[i] = Rounds + 1 => \A j \in Node : round[j] >= Rounds

LEMMA SafeInvStep ==
    ASSUME TypeInv, TypeInv', SafeInv, [Next]_vars
    PROVE  SafeInv'
<1> USE RunAssumption
<1>0. /\ round \in [Node -> 0 .. Rounds + 1] /\ partPub' \in
           [Node -> [there : BOOLEAN, from : SUBSET Node]]
      /\ partPub \in [Node -> [there : BOOLEAN, from : SUBSET Node]]
      /\ round' \in [Node -> 0 .. Rounds + 1]
      /\ net \in [Node -> SUBSET Msg] /\ pending \in [Node -> SUBSET Msg]
      /\ replay \in [Node -> SUBSET Msg] /\ got \in [Node -> SUBSET Msg]
      /\ phase \in [Node -> {"idle", "ready", "replay", "run", "partpub",
                             "collect", "saved", "failed"}]
      /\ kind \in Kinds
  BY DEF TypeInv, TypeOK, Over
<1>n. \A i \in Node : NodeInv(i) /\ \A m \in Known(i) : WasSent(i, m)
  BY DEF SafeInv, NodeInv
<1>s. ASSUME kind' = kind, \A j \in Node : round[j] <= round'[j],
             \A i \in Node :
                 \A m \in Known(i)' : m \in Known(i) \/ WasSent(i, m)',
             \A i \in Node : NodeInv(i)'
      PROVE  SafeInv'
  BY <1>s, KnownStep DEF SafeInv, NodeInv
<1>q. \A j \in Node : round[j] <= round[j]
  BY <1>0
<1>1. ASSUME NEW i \in Node, RunBegins(i) PROVE SafeInv'
  <2>1. /\ UNCHANGED <<kind, net, pending, replay, got, round>>
        /\ phase' = [phase EXCEPT ![i] = "ready"] /\ phase[i] = "idle"
    BY <1>1 DEF RunBegins
  <2>2. \A j \in Node : partPub'[j].from \in {{}, partPub[j].from}
                        /\ (j # i => partPub'[j].from = partPub[j].from)
    BY <1>0, <1>1 DEF RunBegins, NewPartialPubCollector
  <2>3. \A j \in Node : NodeInv(j)'
    BY <1>0, <1>n, <2>1, <2>2 DEF NodeInv
  <2> QED BY <1>q, <1>s, <2>1, <2>3 DEF Known
<1>2. ASSUME NEW i \in Node, SetHandler(i) PROVE SafeInv'
  <2>1. \A j \in Node : NodeInv(j)'
    BY <1>0, <1>n, <1>2 DEF NodeInv, SetHandler
  <2>2. \A j \in Node : Known(j)' \in SUBSET Known(j)
    BY <1>0, <1>2 DEF Known, SetHandler
  <2> QED BY <1>2, <1>q, <1>s, <2>1, <2>2 DEF SetHandler
<1>3. ASSUME NEW i \in Node, Replay(i) PROVE SafeInv'
  <2>1. /\ round' = [round EXCEPT ![i] = 1] /\ phase[i] = "replay"
        /\ phase' = [phase EXCEPT ![i] = "run"]
        /\ UNCHANGED <<kind, partPub, pending>>
    BY <1>3 DEF Replay
  <2>2. round[i] = 0 /\ 1 \in 1 .. Rounds
    BY <1>n, <2>1 DEF NodeInv
  <2>3. \A j \in Node : round[j] <= round'[j]
    BY <1>0, <2>1, <2>2
  <2>4. \A j \in Node : NodeInv(j)'
    BY <1>0, <1>n, <2>1, <2>2, <2>3 DEF NodeInv
  <2>5. \A j \in Node : net'[j] \in SUBSET (net[j] \union {RunMsg(i, 1)})
                        /\ net'[i] = net[i]
    BY <1>3, <2>2, MustSendFacts DEF Replay
  <2>6. ASSUME NEW j \in Node \ {i}, NEW m, m = RunMsg(i, 1)
        PROVE  WasSent(j, m)'
    <3>1. m.from = i /\ m.mod = RunModule /\ m.round = 1
      BY <2>6 DEF RunMsg
    <3>2. round'[i] = 1 /\ RunModule' = RunModule
      BY <1>0, <2>1 DEF RunModule
    <3> QED BY <2>2, <3>1, <3>2 DEF WasSent, Peers
  <2>7. \A j \in Node : Known(j)' \in SUBSET (Known(j) \union
                          (IF j = i THEN {} ELSE {RunMsg(i, 1)}))
    BY <1>0, <1>3, <2>1, <2>5 DEF Known, Replay
  <2> QED BY <1>s, <2>1, <2>3, <2>4, <2>6, <2>7
<1>4. ASSUME NEW i \in Node, ReplayFails(i) PROVE SafeInv'
  <2>1. \A j \in Node : NodeInv(j)'
    BY <1>0, <1>n, <1>4 DEF NodeInv, ReplayFails
  <2>2. \A j \in Node : Known(j)' \in SUBSET Known(j)
    BY <1>0, <1>4 DEF Known, ReplayFails
  <2> QED BY <1>4, <1>q, <1>s, <2>1, <2>2 DEF ReplayFails
<1>5. ASSUME NEW i \in Node, NextRound(i) PROVE SafeInv'
  <2> DEFINE r == round[i] + 1
  <2>1. /\ round' = [round EXCEPT ![i] = r] /\ phase[i] = "run"
        /\ MustSend(i, r) /\ round[i] < Rounds
        /\ UNCHANGED <<kind, phase, partPub, pending, replay, got>>
    BY <1>5 DEF NextRound, RoundComplete, inbox
  <2>2. r \in 1 .. Rounds /\ round[i] < r
    BY <1>0, <1>n, <2>1 DEF NodeInv
  <2> HIDE DEF r
  <2>3. \A j \in Node : round[j] <= round'[j]
    BY <1>0, <2>1, <2>2
  <2>4. \A j \in Node : NodeInv(j)'
    BY <1>0, <1>n, <2>1, <2>2, <2>3 DEF NodeInv
  <2>5. \A j \in Node : net'[j] \in SUBSET (net[j] \union {RunMsg(i, r)})
                        /\ net'[i] = net[i]
    BY <2>1, <2>2, MustSendFacts
  <2>6. ASSUME NEW j \in Node \ {i}, NEW m, m = RunMsg(i, r)
        PROVE  WasSent(j, m)'
    <3>1. m.from = i /\ m.mod = RunModule /\ m.round = r
      BY <2>6 DEF RunMsg
    <3>2. round'[i] = r /\ RunModule' = RunModule
      BY <1>0, <2>1 DEF RunModule
    <3> QED BY <2>2, <3>1, <3>2 DEF WasSent, Peers
  <2>7. \A j \in Node : Known(j)' \in SUBSET (Known(j) \union
                          (IF j = i THEN {} ELSE {RunMsg(i, r)}))
    BY <1>0, <2>1, <2>5 DEF Known
  <2> QED BY <1>s, <2>1, <2>3, <2>4, <2>6, <2>7
<1>6. ASSUME NEW i \in Node, BackendDone(i) PROVE SafeInv'
  <2>1. /\ round' = [round EXCEPT ![i] = Rounds + 1] /\ phase[i] = "run"
        /\ round[i] = Rounds
        /\ phase' = [phase EXCEPT ![i] = IF kind = "keygen" THEN "partpub"
                                         ELSE "saved"]
        /\ UNCHANGED <<kind, net, partPub, replay, got>>
        /\ pending' = [pending EXCEPT ![i] = {}]
    BY <1>6 DEF BackendDone, RoundComplete, ClearHandler
  <2>2. \A j \in Peers(i) : RunMsg(j, Rounds) \in got[i]
    BY <1>6, <2>1 DEF BackendDone, RoundComplete, RunMsg
  <2>3. \A j \in Peers(i) : WasSent(i, RunMsg(j, Rounds))
    BY <1>n, <2>2 DEF Known
  <2>4. \A j \in Peers(i) : round[j] >= Rounds
    BY <2>3 DEF WasSent, RunMsg, RunModule
  <2>5. \A j \in Node : round[j] >= Rounds /\ round[j] <= round'[j]
    BY <1>0, <2>1, <2>4 DEF Peers
  <2>6. \A j \in Node : NodeInv(j)'
    BY <1>0, <1>n, <2>1, <2>5 DEF NodeInv
  <2>7. \A j \in Node : Known(j)' \in SUBSET Known(j)
    BY <1>0, <2>1 DEF Known
  <2> QED BY <1>s, <2>1, <2>5, <2>6, <2>7
<1>7. ASSUME NEW i \in Node, PartPubSend(i) PROVE SafeInv'
  <2> DEFINE m == [from |-> i, mod |-> "partpub", round |-> 0]
  <2>1. m \in Msg /\ m.from = i /\ m.mod = "partpub"
    BY DEF Msg, Modules
  <2>2. PICK fail \in SUBSET Peers(i) :
          /\ Fails(i, fail) /\ Sent(i, m, fail)
          /\ phase' = [phase EXCEPT ![i] = IF fail = {} THEN "collect"
                                           ELSE "failed"]
    BY <1>7 DEF PartPubSend
  <2> HIDE DEF m
  <2>3. \A j \in Node : net'[j] \in SUBSET (net[j] \union {m})
                        /\ net'[i] = net[i]
    BY <2>1, <2>2, SendFacts
  <2>4. /\ phase[i] = "partpub"
        /\ UNCHANGED <<kind, pending, replay, got, round>>
    BY <1>7 DEF PartPubSend, inbox
  <2>5. /\ partPub'[i].from = partPub[i].from \union {i}
        /\ \A j \in Node \ {i} : partPub'[j] = partPub[j]
    BY <1>0, <1>7 DEF PartPubSend, AddSelf
  <2>6. round[i] = Rounds + 1 /\ kind = "keygen"
    BY <1>n, <2>4 DEF NodeInv
  <2>7. \A j \in Node : NodeInv(j)'
    BY <1>0, <1>n, <2>2, <2>4, <2>5, <2>6 DEF NodeInv
  <2>8. \A j \in Node \ {i} : WasSent(j, m)'
    BY <2>1, <2>4, <2>6 DEF WasSent, Peers
  <2>9. \A j \in Node : Known(j)' \in SUBSET (Known(j) \union
                          (IF j = i THEN {} ELSE {m}))
    BY <1>0, <2>3, <2>4 DEF Known
  <2> QED BY <1>q, <1>s, <2>4, <2>7, <2>8, <2>9
<1>8. ASSUME NEW i \in Node, Collected(i) PROVE SafeInv'
  <2>1. /\ phase[i] = "collect" /\ phase' = [phase EXCEPT ![i] = "saved"]
        /\ UNCHANGED <<kind, net, pending, replay, got, round, partPub>>
    BY <1>8 DEF Collected, inbox
  <2>2. partPub[i].from = Node
    <3>1. partPub[i].from \in SUBSET Node
      BY <1>0
    <3>2. /\ Cardinality(partPub[i].from) <= Cardinality(Node)
          /\ Cardinality(Node) = Cardinality(partPub[i].from) =>
               Node = partPub[i].from
          /\ IsFiniteSet(partPub[i].from)
      BY <3>1, FS_Subset
    <3>3. /\ Cardinality(partPub[i].from) \in Nat
          /\ Cardinality(Node) \in Nat
      BY <3>2, FS_CardinalityType
    <3>4. Cardinality(partPub[i].from) >= Cardinality(Node)
      BY <1>8 DEF Collected, Done
    <3> QED BY <3>2, <3>3, <3>4
  <2>3. \A j \in Node : NodeInv(j)'
    BY <1>0, <1>n, <2>1, <2>2 DEF NodeInv
  <2> QED BY <1>q, <1>s, <2>1, <2>3 DEF Known
<1>9. ASSUME NEW i \in Node, Leave(i) PROVE SafeInv'
  <2>1. \A j \in Node : NodeInv(j)'
    BY <1>0, <1>n, <1>9 DEF NodeInv, Leave
  <2>2. \A j \in Node : Known(j)' \in SUBSET Known(j)
    BY <1>0, <1>9 DEF Known, Leave, ClearHandler, inbox
  <2> QED BY <1>9, <1>q, <1>s, <2>1, <2>2 DEF Leave
<1>10. ASSUME NEW i \in Node, Receive(i) PROVE SafeInv'
  <2>1. PICK m \in net[i] :
          /\ net' = [net EXCEPT ![i] = @ \ {m}]
          /\ ReceivePartPub(i, m) \/ DeliverNow(i, m) \/ DeliverLater(i, m)
          /\ UNCHANGED <<kind, phase, round, faults>>
    BY <1>10 DEF Receive
  <2>2. m \in Msg /\ WasSent(i, m)
    BY <1>0, <1>n DEF Known
  <2>3. /\ UNCHANGED replay
        /\ \A j \in Node : /\ got'[j] \in SUBSET (got[j] \union {m})
                           /\ pending'[j] \in SUBSET (pending[j] \union {m})
                           /\ j # i => /\ got'[j] = got[j]
                                       /\ pending'[j] = pending[j]
    BY <1>0, <2>1, <2>2
       DEF ReceivePartPub, DeliverNow, DeliverLater, inbox
  <2>4. \A j \in Node : Known(j)' \in SUBSET Known(j)
    BY <1>0, <2>1, <2>3 DEF Known
  <2>5. \A j \in Node : NodeInv(j)'
    <3>1. CASE ReceivePartPub(i, m) /\ partPub[i].there
      <4>1. /\ partPub'[i].from = partPub[i].from \union {m.from}
            /\ \A j \in Node \ {i} : partPub'[j] = partPub[j]
        BY <2>2, <3>1, CollectFacts DEF ReceivePartPub
      <4>2. round[m.from] = Rounds + 1
        BY <2>2, <3>1 DEF WasSent, ReceivePartPub, RunModule
      <4>3. partPub[i].from = Node => partPub'[i].from = Node
        BY <1>0, <4>1
      <4> QED BY <1>0, <1>n, <2>1, <4>1, <4>2, <4>3 DEF NodeInv
    <3>2. CASE partPub' = partPub
      BY <1>0, <1>n, <2>1, <3>2 DEF NodeInv
    <3> QED BY <2>1, <3>1, <3>2
            DEF ReceivePartPub, DeliverNow, DeliverLater
  <2> QED BY <1>q, <1>s, <2>1, <2>4, <2>5
<1>11. ASSUME NEW i \in Node, ReceiveRefused(i) PROVE SafeInv'
  <2>1. \A j \in Node : NodeInv(j)'
    BY <1>0, <1>n, <1>11 DEF NodeInv, ReceiveRefused
  <2>2. \A j \in Node : Known(j)' \in SUBSET Known(j)
    BY <1>0, <1>11 DEF Known, ReceiveRefused, inbox
  <2> QED BY <1>11, <1>q, <1>s, <2>1, <2>2 DEF ReceiveRefused
<1>12. CASE UNCHANGED vars
  BY <1>12 DEF vars, inbox, SafeInv, Known, WasSent, RunModule
<1> QED
  BY <1>1, <1>2, <1>3, <1>4, <1>5, <1>6, <1>7, <1>8, <1>9, <1>10, <1>11,
     <1>12 DEF Next, WorkerStep, Abort, Timeout
-----------------------------------------------------------------------------
\* A node that has not begun a round has at most one message of each peer to
\* keep: there is room for them if there is room for one message per peer.
LEMMA RoomForAll ==
    ASSUME TypeInv, InboxPendingCap >= Cardinality(Node) - 1,
           NEW i \in Node, NEW m,
           m \notin pending[i],
           \A x \in pending[i] \union {m} :
               \E j \in Peers(i) : x = RunMsg(j, 1)
    PROVE  HasRoom(i)
<1> DEFINE First == {RunMsg(j, 1) : j \in Peers(i)}
           f == [x \in First |-> x.from]
<1>1. \A j \in Peers(i) : RunMsg(j, 1).from = j
  BY DEF RunMsg
<1>2. f \in Injection(First, Peers(i))
  <2>1. f \in [First -> Peers(i)]
    BY <1>1
  <2>2. \A x, y \in First : f[x] = f[y] => x = y
    BY <1>1
  <2> QED BY <2>1, <2>2 DEF Injection, IsInjective
<1>3. IsFiniteSet(Peers(i)) /\ Cardinality(Peers(i)) = Cardinality(Node) - 1
  BY RunAssumption, FS_RemoveElement DEF Peers
<1> HIDE DEF f
<1>4. IsFiniteSet(First) /\ Cardinality(First) <= Cardinality(Peers(i))
  BY <1>2, <1>3, FS_Injection
<1>5. pending[i] \in SUBSET First /\ m \in First
  OBVIOUS
<1> HIDE DEF First
<1>6. /\ Cardinality(pending[i]) <= Cardinality(First)
      /\ Cardinality(pending[i]) # Cardinality(First)
      /\ IsFiniteSet(pending[i])
  BY <1>4, <1>5, FS_Subset
<1>7. /\ Cardinality(pending[i]) \in Nat /\ Cardinality(First) \in Nat
      /\ Cardinality(Node) \in Nat /\ Cardinality(Peers(i)) \in Nat
  BY <1>3, <1>4, <1>6, RunAssumption, FS_CardinalityType
<1> QED BY <1>3, <1>4, <1>6, <1>7, RunAssumption DEF HasRoom

LEMMA FaultFreeInvInit == Init => FaultFreeInv
<1> SUFFICES ASSUME Init PROVE FaultFreeInv
  OBVIOUS
<1>1. \A i \in Node : Undisturbed(i)
  BY DEF Init, Undisturbed
<1>2. \A i \in Node : InOnePlace(i)
  BY RunAssumption DEF Init, InOnePlace, Peers
<1> QED BY <1>1, <1>2 DEF FaultFreeInv

\* A broadcast of the next round, or of the first one.
LEMMA BroadcastStep ==
    ASSUME TypeInv, SafeInv, NEW i \in Node, NEW r \in 1 .. Rounds,
           \A k \in Node : InOnePlace(k),
           r = round[i] + 1, round' = [round EXCEPT ![i] = r], kind' = kind,
           net'[i] = net[i],
           \A k \in Peers(i) : net'[k] = net[k] \union {RunMsg(i, r)},
           \A k \in Peers(i) : /\ pending'[k] = pending[k]
                               /\ replay'[k] = replay[k] /\ got'[k] = got[k],
           pending'[i] \union replay'[i] \union got'[i]
               = pending[i] \union replay[i] \union got[i],
           got[i] \in SUBSET got'[i],
           \A k \in Peers(i) : \A s \in 1 .. Rounds :
               s < r => RunMsg(k, s) \in got'[i]
    PROVE  \A k \in Node : InOnePlace(k)'
<1>0. round \in [Node -> 0 .. Rounds + 1] /\ Rounds \in Nat
  BY RunAssumption DEF TypeInv, TypeOK
<1>m. \A j, s : RunMsg(j, s)' = RunMsg(j, s)
  BY DEF RunMsg, RunModule
<1>1. \A k \in Peers(i) : RunMsg(i, r) \notin Known(k)
  <2> SUFFICES ASSUME NEW k \in Peers(i), RunMsg(i, r) \in Known(k)
               PROVE  FALSE
    OBVIOUS
  <2>1. WasSent(k, RunMsg(i, r))
    BY DEF SafeInv, Peers
  <2>2. r <= round[i]
    BY <2>1 DEF WasSent, RunMsg, RunModule
  <2> QED BY <1>0, <2>2
<1>2. \A k \in Peers(i) : RunMsg(k, round[i]) \in got'[i] \/ round[i] = 0
  BY <1>0
<1>3. ASSUME NEW k \in Peers(i) PROVE round[k] >= round[i]
  <2>1. CASE round[i] = 0
    BY <1>0, <2>1 DEF Peers
  <2>2. CASE round[i] # 0
    <3>1. RunMsg(k, round[i]) \in Known(i)
      BY <1>2, <2>2 DEF Known
    <3>2. WasSent(i, RunMsg(k, round[i]))
      BY <3>1 DEF SafeInv
    <3> QED BY <3>2 DEF WasSent, RunMsg, RunModule
  <2> QED BY <2>1, <2>2
<1>4. ASSUME NEW k \in Node, NEW j \in Peers(k)
      PROVE  round'[j] <= round'[k] + 1
  <2>1. round[j] <= round[k] + 1
    BY DEF InOnePlace
  <2>2. j = i => round[k] >= round[i]
    BY <1>3 DEF Peers
  <2> QED BY <1>0, <2>1, <2>2 DEF Peers
<1>5. \A k \in Node : \A m \in net'[k] :
        m \notin pending'[k] \union replay'[k] \union got'[k]
  BY <1>1 DEF InOnePlace, Known, Peers
<1>6. ASSUME NEW k \in Node, NEW j \in Peers(k), NEW s \in 1 .. Rounds
      PROVE  /\ s <= round'[j] => RunMsg(j, s) \in Known(k)'
             /\ s < round'[k] => RunMsg(j, s) \in got'[k]
  <2>1. /\ s <= round[j] => RunMsg(j, s) \in Known(k)
        /\ s < round[k] => RunMsg(j, s) \in got[k]
    BY DEF InOnePlace
  <2>2. Known(k) \in SUBSET Known(k)'
    BY DEF Known, Peers
  <2>3. CASE k = i
    BY <1>0, <2>1, <2>2, <2>3 DEF Peers
  <2>4. CASE k # i /\ j # i
    BY <1>0, <2>1, <2>2, <2>4 DEF Peers
  <2>5. CASE k # i /\ j = i
    <3>1. RunMsg(i, r) \in Known(k)'
      BY <2>5 DEF Known, Peers
    <3>2. s <= round'[j] => s <= round[j] \/ s = r
      BY <1>0, <2>5
    <3> QED BY <1>0, <2>1, <2>2, <2>5, <3>1, <3>2 DEF Peers
  <2> QED BY <2>3, <2>4, <2>5
<1>7. \A k \in Node : \A j \in Peers(k), s \in 1 .. Rounds :
        /\ s <= round'[j] => RunMsg(j, s)' \in Known(k)'
        /\ s < round'[k] => RunMsg(j, s)' \in got'[k]
  BY <1>6, <1>m
<1>8. \A k : Peers(k)' = Peers(k)
  BY DEF Peers
<1> QED BY <1>4, <1>5, <1>7, <1>8 DEF InOnePlace

\* A message comes to a node that has no fault behind it: it is expected, and
\* there is a place for it.
LEMMA Arrives ==
    ASSUME TypeInv, SafeInv, InboxPendingCap >= Cardinality(Node) - 1,
           NEW i \in Node, Undisturbed(i), InOnePlace(i), NEW m \in net[i]
    PROVE  /\ m.mod = "partpub" => partPub[i].there
           /\ m.mod # "partpub" => m.mod = RunModule
           /\ m.mod # "partpub" /\ ~handler[i] => HasRoom(i)
<1> USE RunAssumption
<1>0. /\ round \in [Node -> 0 .. Rounds + 1] /\ m \in Msg
      /\ pending[i] \in SUBSET Msg
  BY DEF TypeInv, TypeOK
<1>1. WasSent(i, m)
  BY DEF SafeInv, Known
<1>2. m.from \in Peers(i) /\ round[m.from] <= round[i] + 1
  BY <1>1 DEF WasSent, InOnePlace
<1>3. m.mod = "partpub" => partPub[i].there
  <2> SUFFICES ASSUME m.mod = "partpub" PROVE partPub[i].there
    OBVIOUS
  <2>1. round[m.from] = Rounds + 1 /\ kind = "keygen"
    BY <1>1 DEF WasSent, RunModule
  <2>2. phase[i] # "idle"
    BY <1>0, <1>2, <2>1 DEF SafeInv
  <2> QED BY <2>1, <2>2 DEF Undisturbed
<1>4. m.mod # "partpub" => m.mod = RunModule
  BY <1>1 DEF WasSent
<1>5. ASSUME m.mod # "partpub", ~handler[i] PROVE HasRoom(i)
  <2>1. \A x \in pending[i] \union {m} :
          /\ x \in Msg /\ WasSent(i, x)
          /\ x.mod = RunModule => x = RunMsg(x.from, x.round)
    BY <1>0 DEF SafeInv, Known, Msg, RunMsg
  <2>2. round[i] # Rounds + 1
    <3> SUFFICES ASSUME round[i] = Rounds + 1 PROVE FALSE
      OBVIOUS
    <3>1. m.round \in 1 .. Rounds /\ m = RunMsg(m.from, m.round)
      BY <1>1, <1>4, <1>5, <2>1 DEF WasSent
    <3>2. m \in got[i]
      BY <1>0, <1>2, <3>1 DEF InOnePlace
    <3> QED BY <3>2 DEF InOnePlace
  <2>3. round[i] = 0
    <3>1. phase[i] \notin {"replay", "run", "failed"}
      BY <1>5 DEF Undisturbed
    <3>2. phase[i] \in {"idle", "ready", "partpub", "collect", "saved"}
      BY <3>1 DEF TypeInv, TypeOK, Over
    <3> QED BY <2>2, <3>2 DEF SafeInv
  <2>4. ASSUME NEW x \in pending[i] \union {m}
        PROVE  \E j \in Peers(i) : x = RunMsg(j, 1)
    <3>1. x.from \in Peers(i) /\ round[x.from] <= 1
      BY <1>0, <2>1, <2>3 DEF WasSent, InOnePlace
    <3>2. x.mod = RunModule /\ x.round \in 1 .. Rounds
      BY <1>0, <2>1, <3>1 DEF WasSent, Peers
    <3>3. x.round <= round[x.from] /\ round[x.from] \in 0 .. Rounds + 1
      BY <1>0, <2>1, <3>1, <3>2 DEF WasSent, Peers, RunModule
    <3>4. x.round = 1
      BY <3>1, <3>2, <3>3
    <3> QED BY <2>1, <3>1, <3>2, <3>4
  <2>5. m \notin pending[i]
    BY DEF InOnePlace
  <2> QED BY <2>4, <2>5, RoomForAll
<1> QED BY <1>3, <1>4, <1>5

LEMMA FaultFreeInvStep ==
    ASSUME TypeInv, TypeInv', SafeInv, FaultFreeInv, [Next]_vars,
           InboxPendingCap >= Cardinality(Node) - 1
    PROVE  FaultFreeInv'
<1> SUFFICES ASSUME faults' = 0
             PROVE  \A k \in Node : Undisturbed(k)' /\ InOnePlace(k)'
  BY DEF FaultFreeInv
<1> USE RunAssumption
<1>0. /\ round \in [Node -> 0 .. Rounds + 1]
      /\ net \in [Node -> SUBSET Msg] /\ pending \in [Node -> SUBSET Msg]
      /\ replay \in [Node -> SUBSET Msg] /\ got \in [Node -> SUBSET Msg]
      /\ phase \in [Node -> {"idle", "ready", "replay", "run", "partpub",
                             "collect", "saved", "failed"}]
      /\ handler \in [Node -> BOOLEAN] /\ faults \in Nat
      /\ expected \in [Node -> Modules \union {"any"}]
      /\ partPub \in [Node -> [there : BOOLEAN, from : SUBSET Node]]
      /\ lost \in [Node -> SUBSET Msg]
  BY DEF TypeInv, TypeOK, Over
<1>f. faults = 0 => \A k \in Node : Undisturbed(k) /\ InOnePlace(k)
  BY DEF FaultFreeInv
<1>u. ASSUME \A k \in Node : Undisturbed(k) /\ InOnePlace(k),
             UNCHANGED <<kind, round>>,
             \A k \in Node : /\ Known(k) \in SUBSET Known(k)'
                             /\ got[k] \in SUBSET got'[k]
                             /\ \A m \in net'[k] : m \notin pending'[k] \union
                                                     replay'[k] \union got'[k]
      PROVE  \A k \in Node : InOnePlace(k)'
  <2>1. \A j, r : RunMsg(j, r)' = RunMsg(j, r)
    BY <1>u DEF RunMsg, RunModule
  <2>2. \A k : Peers(k)' = Peers(k)
    BY DEF Peers
  <2> QED BY <1>u, <2>1, <2>2 DEF InOnePlace
<1>1. ASSUME NEW i \in Node, RunBegins(i)
      PROVE  \A k \in Node : Undisturbed(k)' /\ InOnePlace(k)'
  <2>1. \A k \in Node : Undisturbed(k) /\ InOnePlace(k)
    BY <1>1, <1>f DEF RunBegins
  <2>2. \A k \in Node : InOnePlace(k)'
    BY <1>1, <1>u, <2>1 DEF RunBegins, Known, InOnePlace
  <2>3. \A k \in Node : Undisturbed(k)'
    BY <1>0, <1>1, <2>1
       DEF RunBegins, NewPartialPubCollector, Undisturbed, RunModule
  <2> QED BY <2>2, <2>3
<1>2. ASSUME NEW i \in Node, SetHandler(i)
      PROVE  \A k \in Node : Undisturbed(k)' /\ InOnePlace(k)'
  <2>1. \A k \in Node : Undisturbed(k) /\ InOnePlace(k)
    BY <1>2, <1>f DEF SetHandler
  <2>2. replay[i] = {}
    BY <1>2, <2>1 DEF SetHandler, Undisturbed
  <2>3. \A k \in Node : pending'[k] \union replay'[k]
                          = pending[k] \union replay[k]
    BY <1>0, <1>2, <2>2 DEF SetHandler
  <2>4. \A k \in Node : InOnePlace(k)'
    BY <1>2, <1>u, <2>1, <2>3 DEF SetHandler, Known, InOnePlace
  <2>5. \A k \in Node : Undisturbed(k)'
    BY <1>0, <1>2, <2>1 DEF SetHandler, Undisturbed, RunModule
  <2> QED BY <2>4, <2>5
<1>3. ASSUME NEW i \in Node, Replay(i)
      PROVE  \A k \in Node : Undisturbed(k)' /\ InOnePlace(k)'
  <2>1. /\ phase[i] = "replay" /\ MustSend(i, 1)
        /\ round' = [round EXCEPT ![i] = 1] /\ 1 \in 1 .. Rounds
        /\ phase' = [phase EXCEPT ![i] = "run"]
        /\ replay' = [replay EXCEPT ![i] = {}]
        /\ UNCHANGED <<kind, handler, expected, pending, partPub>>
    BY <1>3 DEF Replay
  <2>2. /\ faults = 0 /\ lost' = lost /\ net'[i] = net[i]
        /\ \A j \in Peers(i) : net'[j] = net[j] \union {RunMsg(i, 1)}
    BY <2>1, MustSendFacts
  <2>3. \A k \in Node : Undisturbed(k) /\ InOnePlace(k)
    BY <1>f, <2>2
  <2>4. \A m \in replay[i] : Wanted(i, m)
    <3>1. round[i] = 0
      BY <2>1 DEF SafeInv
    <3>2. \A m \in replay[i] : WasSent(i, m) /\ round[m.from] <= 1
      BY <1>0, <2>3, <3>1 DEF SafeInv, Known, InOnePlace, WasSent
    <3>3. \A m \in replay[i] : m.mod = RunModule
      BY <3>2 DEF WasSent
    <3> QED BY <2>3, <3>3 DEF Wanted, Undisturbed
  <2>5. {m \in replay[i] : Wanted(i, m)} = replay[i]
    BY <2>4
  <2>6. got' = [got EXCEPT ![i] = got[i] \union replay[i]]
    BY <1>3, <2>5 DEF Replay
  <2>7. round[i] = 0
    BY <2>1 DEF SafeInv
  <2>8. \A k \in Node : InOnePlace(k)'
    <3>1. \A k \in Peers(i) : \A s \in 1 .. Rounds :
            s < 1 => RunMsg(k, s) \in got'[i]
      OBVIOUS
    <3>2. /\ \A k \in Peers(i) : /\ pending'[k] = pending[k]
                                 /\ replay'[k] = replay[k] /\ got'[k] = got[k]
          /\ pending'[i] \union replay'[i] \union got'[i]
               = pending[i] \union replay[i] \union got[i]
          /\ got[i] \in SUBSET got'[i]
      BY <1>0, <2>1, <2>6 DEF Peers
    <3>3. 1 = round[i] + 1
      BY <2>7
    <3> QED BY <2>1, <2>2, <2>3, <3>1, <3>2, <3>3, BroadcastStep
  <2>9. \A k \in Node : Undisturbed(k)'
    BY <1>0, <2>1, <2>2, <2>3, <2>6 DEF Undisturbed, RunModule
  <2> QED BY <2>8, <2>9
<1>4. ASSUME NEW i \in Node, ReplayFails(i) PROVE FALSE
  BY <1>0, <1>4 DEF ReplayFails
<1>5. ASSUME NEW i \in Node, NextRound(i)
      PROVE  \A k \in Node : Undisturbed(k)' /\ InOnePlace(k)'
  <2> DEFINE r == round[i] + 1
  <2>1. /\ round' = [round EXCEPT ![i] = r] /\ phase[i] = "run"
        /\ MustSend(i, r) /\ round[i] < Rounds
        /\ UNCHANGED <<kind, phase, partPub, pending, replay, got, handler,
                       expected>>
    BY <1>5 DEF NextRound, RoundComplete, inbox
  <2>2. r \in 1 .. Rounds /\ r = round[i] + 1
    BY <1>0, <2>1 DEF SafeInv
  <2>3. \A j \in Peers(i) : RunMsg(j, round[i]) \in got[i]
    BY <1>5 DEF NextRound, RoundComplete, RunMsg
  <2> HIDE DEF r
  <2>4. /\ faults = 0 /\ lost' = lost /\ net'[i] = net[i]
        /\ \A j \in Peers(i) : net'[j] = net[j] \union {RunMsg(i, r)}
    BY <2>1, <2>2, MustSendFacts
  <2>5. \A k \in Node : Undisturbed(k) /\ InOnePlace(k)
    BY <1>f, <2>4
  <2>6. \A k \in Peers(i) : \A s \in 1 .. Rounds :
          s < r => RunMsg(k, s) \in got'[i]
    <3> SUFFICES ASSUME NEW k \in Peers(i), NEW s \in 1 .. Rounds, s < r
                 PROVE  RunMsg(k, s) \in got[i]
      BY <2>1
    <3>0. round[i] \in Nat
      BY <1>0
    <3>1. s < round[i] \/ s = round[i]
      BY <2>2, <3>0
    <3> QED BY <2>3, <2>5, <3>1 DEF InOnePlace
  <2>7. \A k \in Node : InOnePlace(k)'
    BY <2>1, <2>2, <2>4, <2>5, <2>6, BroadcastStep DEF Peers
  <2>8. \A k \in Node : Undisturbed(k)'
    BY <2>1, <2>4, <2>5 DEF Undisturbed, RunModule
  <2> QED BY <2>7, <2>8
<1>6. ASSUME NEW i \in Node, BackendDone(i)
      PROVE  \A k \in Node : Undisturbed(k)' /\ InOnePlace(k)'
  <2>1. /\ round' = [round EXCEPT ![i] = Rounds + 1] /\ phase[i] = "run"
        /\ round[i] = Rounds /\ faults = 0
        /\ phase' = [phase EXCEPT ![i] = IF kind = "keygen" THEN "partpub"
                                         ELSE "saved"]
        /\ UNCHANGED <<kind, net, partPub, replay, got, lost>>
        /\ pending' = [pending EXCEPT ![i] = {}]
        /\ handler' = [handler EXCEPT ![i] = FALSE]
        /\ expected' = [expected EXCEPT ![i] = "any"]
    BY <1>6 DEF BackendDone, RoundComplete, ClearHandler
  <2>2. \A k \in Node : Undisturbed(k) /\ InOnePlace(k)
    BY <1>f, <2>1
  <2>3. \A j \in Peers(i) : RunMsg(j, Rounds) \in got[i]
    BY <1>6, <2>1 DEF BackendDone, RoundComplete, RunMsg
  <2>4. \A j \in Peers(i) : WasSent(i, RunMsg(j, Rounds))
    BY <2>3 DEF SafeInv, Known
  <2>5. \A j \in Peers(i) : round[j] >= Rounds
    BY <2>4 DEF WasSent, RunMsg, RunModule
  <2>6. pending' = pending
    BY <1>0, <2>1, <2>2 DEF Undisturbed
  <2>7. ASSUME NEW k \in Node PROVE InOnePlace(k)'
    <3>1. \A j, s : RunMsg(j, s)' = RunMsg(j, s)
      BY <2>1 DEF RunMsg, RunModule
    <3>2. \A j \in Peers(k) : round'[j] <= round'[k] + 1
      <4> SUFFICES ASSUME NEW j \in Peers(k)
                   PROVE  round'[j] <= round'[k] + 1
        OBVIOUS
      <4>1. round[j] <= round[k] + 1
        BY <2>2 DEF InOnePlace
      <4>2. j = i => round[k] >= Rounds
        BY <2>5 DEF Peers
      <4> QED BY <1>0, <2>1, <4>1, <4>2 DEF Peers
    <3>3. ASSUME NEW j \in Peers(k), NEW s \in 1 .. Rounds
          PROVE  /\ s <= round'[j] => RunMsg(j, s) \in Known(k)'
                 /\ s < round'[k] => RunMsg(j, s) \in got'[k]
      <4>1. /\ s <= round[j] => RunMsg(j, s) \in Known(k)
            /\ s < round[k] => RunMsg(j, s) \in got[k]
        BY <2>2 DEF InOnePlace
      <4>2. Known(k)' = Known(k) /\ got'[k] = got[k]
        BY <2>1, <2>6 DEF Known
      <4>3. s <= round'[j] => s <= round[j]
        BY <1>0, <2>1 DEF Peers
      <4>4. s < round'[k] => s < round[k] \/ (k = i /\ s = Rounds)
        <5>1. CASE k = i
          <6>1. round'[k] = Rounds + 1 /\ round[k] = Rounds
            BY <1>0, <2>1, <5>1
          <6>2. s < Rounds + 1 => s < Rounds \/ s = Rounds
            BY RunAssumption
          <6> QED BY <5>1, <6>1, <6>2
        <5>2. CASE k # i
          <6>1. round'[k] = round[k]
            BY <1>0, <2>1, <5>2
          <6> QED BY <6>1
        <5> QED BY <5>1, <5>2
      <4> QED BY <2>3, <4>1, <4>2, <4>3, <4>4
    <3>4. Peers(k)' = Peers(k)
      BY DEF Peers
    <3> QED BY <2>1, <2>2, <2>6, <3>1, <3>2, <3>3, <3>4 DEF InOnePlace
  <2>8. \A k \in Node : Undisturbed(k)'
    BY <1>0, <2>1, <2>2 DEF Undisturbed, RunModule
  <2> QED BY <2>7, <2>8
<1>7. ASSUME NEW i \in Node, PartPubSend(i)
      PROVE  \A k \in Node : Undisturbed(k)' /\ InOnePlace(k)'
  <2> DEFINE m == [from |-> i, mod |-> "partpub", round |-> 0]
  <2>1. m \in Msg /\ m.from = i /\ m.mod = "partpub"
    BY DEF Msg, Modules
  <2>2. PICK fail \in SUBSET Peers(i) :
          /\ Fails(i, fail) /\ Sent(i, m, fail)
          /\ phase' = [phase EXCEPT ![i] = IF fail = {} THEN "collect"
                                           ELSE "failed"]
    BY <1>7 DEF PartPubSend
  <2> HIDE DEF m
  <2>3. /\ faults = 0 /\ lost' = lost /\ fail = {} /\ net'[i] = net[i]
        /\ \A j \in Peers(i) : net'[j] = net[j] \union {m}
    BY <2>1, <2>2, SendFacts
  <2>4. \A k \in Node : Undisturbed(k) /\ InOnePlace(k)
    BY <1>f, <2>3
  <2>5. /\ phase[i] = "partpub"
        /\ UNCHANGED <<kind, handler, expected, pending, replay, got, round>>
    BY <1>7 DEF PartPubSend, inbox
  <2>6. /\ partPub'[i].there
        /\ \A j \in Node \ {i} : partPub'[j] = partPub[j]
    BY <1>0, <1>7 DEF PartPubSend, AddSelf
  <2>7. \A k \in Node : m \notin pending[k] \union replay[k] \union got[k]
    BY <2>1, <2>4 DEF Undisturbed
  <2>8. \A k \in Node : InOnePlace(k)'
    BY <1>u, <2>3, <2>4, <2>5, <2>7 DEF Known, InOnePlace, Peers
  <2>9. \A k \in Node : Undisturbed(k)'
    BY <1>0, <2>2, <2>3, <2>4, <2>5, <2>6 DEF Undisturbed, RunModule
  <2> QED BY <2>8, <2>9
<1>8. ASSUME NEW i \in Node, Collected(i)
      PROVE  \A k \in Node : Undisturbed(k)' /\ InOnePlace(k)'
  <2>1. \A k \in Node : Undisturbed(k) /\ InOnePlace(k)
    BY <1>8, <1>f DEF Collected
  <2>2. \A k \in Node : InOnePlace(k)'
    BY <1>8, <1>u, <2>1 DEF Collected, Known, InOnePlace, inbox
  <2>3. \A k \in Node : Undisturbed(k)'
    BY <1>0, <1>8, <2>1 DEF Collected, Undisturbed, RunModule, inbox
  <2> QED BY <2>2, <2>3
<1>9. ASSUME NEW i \in Node, Abort(i) \/ Timeout(i) PROVE FALSE
  BY <1>0, <1>9 DEF Abort, Timeout
<1>10. ASSUME NEW i \in Node, Receive(i)
       PROVE  \A k \in Node : Undisturbed(k)' /\ InOnePlace(k)'
  <2>1. PICK m \in net[i] :
          /\ net' = [net EXCEPT ![i] = @ \ {m}]
          /\ ReceivePartPub(i, m) \/ DeliverNow(i, m) \/ DeliverLater(i, m)
          /\ UNCHANGED <<kind, phase, round, faults>>
    BY <1>10 DEF Receive
  <2>2. \A k \in Node : Undisturbed(k) /\ InOnePlace(k)
    BY <1>f, <2>1
  <2>3. /\ m.mod = "partpub" => partPub[i].there
        /\ m.mod # "partpub" => m.mod = RunModule
        /\ m.mod # "partpub" /\ ~handler[i] => HasRoom(i)
    BY <2>2, Arrives
  <2>4. m \in Msg
    BY <1>0
  <2>5. CASE ReceivePartPub(i, m)
    <3>1. /\ CollectPartPub(i, m)
          /\ UNCHANGED <<handler, expected, pending, replay, got, lost>>
      BY <2>3, <2>5 DEF ReceivePartPub, inbox
    <3>2. /\ partPub'[i].there = partPub[i].there
          /\ \A j \in Node \ {i} : partPub'[j] = partPub[j]
      BY <2>4, <3>1, CollectFacts
    <3>3. m.mod = "partpub"
      BY <2>5 DEF ReceivePartPub
    <3>4. ASSUME NEW k \in Node PROVE InOnePlace(k)'
      <4>1. \A j, s : RunMsg(j, s)' = RunMsg(j, s)
        BY <2>1 DEF RunMsg, RunModule
      <4>2. net'[k] \in SUBSET net[k] /\ net[k] \in SUBSET (net'[k] \union {m})
        BY <1>0, <2>1
      <4>3. ASSUME NEW j \in Peers(k), NEW s \in 1 .. Rounds,
                   s <= round[j]
            PROVE  RunMsg(j, s) \in Known(k)'
        <5>1. RunMsg(j, s) \in Known(k)
          BY <2>2, <4>3 DEF InOnePlace
        <5>2. RunMsg(j, s) # m
          BY <3>3 DEF RunMsg, RunModule
        <5> QED BY <3>1, <4>2, <5>1, <5>2 DEF Known
      <4>4. Peers(k)' = Peers(k) /\ round' = round
        BY <2>1 DEF Peers
      <4> QED BY <2>2, <3>1, <4>1, <4>2, <4>3, <4>4 DEF InOnePlace
    <3>5. \A k \in Node : Undisturbed(k)'
      BY <2>1, <2>2, <3>1, <3>2 DEF Undisturbed, RunModule
    <3> QED BY <3>4, <3>5
  <2>6. CASE DeliverNow(i, m)
    <3>1. Wanted(i, m) /\ m.mod # "partpub"
      BY <2>2, <2>3, <2>6 DEF DeliverNow, Wanted, Undisturbed
    <3>2. /\ got' = [got EXCEPT ![i] = got[i] \union {m}]
          /\ UNCHANGED <<handler, expected, pending, replay, partPub, lost>>
      BY <2>6, <3>1 DEF DeliverNow, inbox
    <3>3. \A k \in Node : InOnePlace(k)'
      BY <1>0, <1>u, <2>1, <2>2, <3>2 DEF Known, InOnePlace
    <3>4. \A k \in Node : Undisturbed(k)'
      BY <1>0, <2>1, <2>2, <3>1, <3>2 DEF Undisturbed, RunModule
    <3> QED BY <3>3, <3>4
  <2>7. CASE DeliverLater(i, m)
    <3>1. Wanted(i, m) /\ HasRoom(i) /\ ~handler[i] /\ m.mod # "partpub"
      BY <2>2, <2>3, <2>7 DEF DeliverLater, Wanted, Undisturbed
    <3>2. /\ pending' = [pending EXCEPT ![i] = pending[i] \union {m}]
          /\ UNCHANGED <<handler, expected, replay, got, partPub, lost>>
      BY <2>7, <3>1 DEF DeliverLater
    <3>3. \A k \in Node : InOnePlace(k)'
      BY <1>0, <1>u, <2>1, <2>2, <3>2 DEF Known, InOnePlace
    <3>4. \A k \in Node : Undisturbed(k)'
      BY <1>0, <2>1, <2>2, <3>1, <3>2 DEF Undisturbed, RunModule
    <3> QED BY <3>3, <3>4
  <2> QED BY <2>1, <2>5, <2>6, <2>7
<1>11. ASSUME NEW i \in Node, ReceiveRefused(i) PROVE FALSE
  BY <1>0, <1>11 DEF ReceiveRefused
<1>12. CASE UNCHANGED vars
  BY <1>12, <1>f
  DEF vars, inbox, Undisturbed, InOnePlace, Known, RunModule, RunMsg, Peers
<1> QED
  BY <1>1, <1>2, <1>3, <1>4, <1>5, <1>6, <1>7, <1>8, <1>9, <1>10, <1>11,
     <1>12 DEF Next, WorkerStep
-----------------------------------------------------------------------------
\* The safety part holds in every behaviour, with or without faults.
LEMMA SafeCorrect == Spec => [](TypeInv /\ SafeInv)
<1>1. Init => TypeInv /\ SafeInv
  BY TypeInvInit, SafeInvInit
<1>2. TypeInv /\ SafeInv /\ [Next]_vars => TypeInv' /\ SafeInv'
  BY TypeInvStep, SafeInvStep
<1> QED BY <1>1, <1>2, PTL DEF Spec

\* Every state of a run is well typed, a collector only holds keys once it is
\* there, and a handler is never left in the inbox of a node that has moved
\* on to the exchange of the partial public keys (runner.go, ClearHandler).
THEOREM TypeCorrect == Spec => []TypeOK
<1>1. TypeInv => TypeOK
  BY DEF TypeInv
<1> QED BY <1>1, SafeCorrect, PTL

\* Whatever is lost, refused or aborted: a node that has saved its share, or
\* has a signature, has had from every other node all that the run needs, so
\* no node ends a keygen with a key of which a peer has no part.
THEOREM SavedCorrect == Spec => []SavedMeansAll
<1>1. TypeInv /\ SafeInv => SavedMeansAll
  <2> SUFFICES ASSUME TypeInv, SafeInv, NEW i \in Node, phase[i] = "saved"
               PROVE  /\ \A j \in Node : round[j] >= Rounds
                      /\ kind = "keygen" => \A j \in Node :
                           j \in partPub[i].from /\ round[j] = Rounds + 1
    BY DEF SavedMeansAll
  <2> QED BY DEF SafeInv
<1> QED BY <1>1, SafeCorrect, PTL

\* Without faults no message is lost on its way from the peer's backend to
\* this one, however late this node starts, for any number of nodes and
\* rounds: the inbox needs a place for each peer and no more, since a peer is
\* never more than a round ahead (InboxPendingCap is 256, inbox.go:12).
THEOREM NothingLostCorrect ==
    ASSUME InboxPendingCap >= Cardinality(Node) - 1
    PROVE  Spec => []NothingLost
<1> DEFINE Inv == TypeInv /\ SafeInv /\ FaultFreeInv
<1>1. Init => Inv
  BY TypeInvInit, SafeInvInit, FaultFreeInvInit
<1>2. Inv /\ [Next]_vars => Inv'
  BY TypeInvStep, SafeInvStep, FaultFreeInvStep
<1>3. Inv => NothingLost
  <2> SUFFICES ASSUME Inv, faults = 0, NEW i \in Node
               PROVE  /\ lost[i] = {}
                      /\ \A j \in Peers(i) : \A r \in 1 .. Rounds :
                           r <= round[j] => RunMsg(j, r) \in Known(i)
    BY DEF NothingLost, RunMsg, Known
  <2> QED BY DEF FaultFreeInv, Undisturbed, InOnePlace
<1> QED BY <1>1, <1>2, <1>3, PTL DEF Spec
=============================================================================

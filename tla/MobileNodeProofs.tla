-------------------------- MODULE MobileNodeProofs --------------------------
(***************************************************************************)
(* Proofs about MobileNode, for any threads, configurations and number of  *)
(* launches and stops: no client is lost, IsRunning is true to fact, and a *)
(* node that was started alone works with its own keystore key.            *)
(***************************************************************************)
EXTENDS MobileNode, TLAPS

LaunchRecord ==
    [pc : {"none", "load", "prk", "key", "init", "run", "settle", "done"},
     epoch : 0 .. MaxEpoch, cfg : Secret, file : Secret, prk : Secret,
     key : WithKey \union {None}, alone : BOOLEAN]

\* TypeOK with the records spelled out, and the one fact about secrets that
\* it needs: a keystore key in the environment is that of some WithKey.
TypeInv ==
    /\ running \in BOOLEAN /\ stopFn \in Launch \union {None}
    /\ epoch \in 0 .. MaxEpoch
    /\ disk \in Secret
    /\ env \in [key : WithKey \union {None}, prk : Secret]
    /\ encKey \in Secret
    /\ launch \in [Launch -> LaunchRecord]
    /\ \A l \in Launch : /\ launch[l].epoch <= epoch
                         /\ launch[l].pc = "run" => launch[l].key \in WithKey
    /\ client \in [Launch -> {"none", "open", "closing", "closed"}]
    /\ stopper \in [Caller -> [pc : {"idle", "clear", "close"},
                               stop : Launch \union {None}]]

LEMMA TypeInvInit == Init => TypeInv
<1> SUFFICES ASSUME Init PROVE TypeInv
  OBVIOUS
<1> USE MobileAssumption DEF Init, Secret
<1>1. launch \in [Launch -> LaunchRecord]
  BY DEF NoLaunch, LaunchRecord
<1>2. stopper \in [Caller -> [pc : {"idle", "clear", "close"},
                             stop : Launch \union {None}]]
  BY DEF NoStop
<1>3. \A l \in Launch : /\ launch[l].epoch <= epoch
                        /\ launch[l].pc = "run" => launch[l].key \in WithKey
  BY DEF NoLaunch
<1>4. env \in [key : WithKey \union {None}, prk : Secret]
  OBVIOUS
<1>5. running \in BOOLEAN
  OBVIOUS
<1>6. epoch \in 0 .. MaxEpoch
  OBVIOUS
<1>7. client \in [Launch -> {"none", "open", "closing", "closed"}]
  OBVIOUS
<1> QED BY <1>1, <1>2, <1>3, <1>4, <1>5, <1>6, <1>7 DEF TypeInv

\* What a step of a launch does to the records.
Replaces(l, r) ==
    /\ launch' \in [Launch -> LaunchRecord]
    /\ launch'[l] = r
    /\ \A m \in Launch : /\ launch'[m].epoch = launch[m].epoch
                         /\ launch'[m].cfg = launch[m].cfg
                         /\ launch'[m].alone = launch[m].alone
                         /\ m # l => launch'[m] = launch[m]

\* A field of the record of a launch is set and its program counter moves.
LEMMA RecordEffect ==
    ASSUME TypeInv, NEW l \in Launch, NEW r \in LaunchRecord,
           launch' = [launch EXCEPT ![l] = r],
           r.epoch = launch[l].epoch, r.cfg = launch[l].cfg,
           r.alone = launch[l].alone
    PROVE  Replaces(l, r)
BY DEF TypeInv, Replaces

LEMMA GotoEffect ==
    ASSUME TypeInv, NEW l \in Launch,
           NEW pc \in {"init", "run", "settle", "done"}, Goto(l, pc)
    PROVE  \E r \in LaunchRecord :
             /\ Replaces(l, r)
             /\ r.pc = pc /\ r.file = launch[l].file
             /\ r.key = launch[l].key
<1> DEFINE r == [launch[l] EXCEPT !.pc = pc]
<1>1. launch' = [launch EXCEPT ![l] = r]
  BY DEF Goto
<1>2. launch[l] \in LaunchRecord /\ launch \in [Launch -> LaunchRecord]
  BY DEF TypeInv
<1>3. /\ r \in LaunchRecord
      /\ r.pc = pc /\ r.file = launch[l].file /\ r.key = launch[l].key
      /\ r.epoch = launch[l].epoch /\ r.cfg = launch[l].cfg
      /\ r.alone = launch[l].alone
  BY <1>2 DEF LaunchRecord
<1> HIDE DEF r
<1>4. Replaces(l, r)
  BY <1>1, <1>2, <1>3 DEF Replaces
<1> QED BY <1>3, <1>4

LEMMA LoadEffect ==
    ASSUME TypeInv, NEW l \in Launch, LoadNodeConfigFile(l)
    PROVE  \E r \in LaunchRecord :
             /\ Replaces(l, r) /\ r.key = launch[l].key
             /\ r.pc = "settle" \/ (r.pc = "prk" /\ r.file = disk)
<1>1. CASE Goto(l, "settle")
  BY <1>1, GotoEffect
<1>2. CASE ~Goto(l, "settle")
  <2> DEFINE r == [launch[l] EXCEPT !.pc = "prk", !.file = disk]
  <2>1. launch' = [launch EXCEPT ![l] = r]
    BY <1>2 DEF LoadNodeConfigFile
  <2>2. launch[l] \in LaunchRecord /\ disk \in Secret
    BY DEF TypeInv
  <2>3. /\ r \in LaunchRecord
        /\ r.pc = "prk" /\ r.file = disk /\ r.key = launch[l].key
        /\ r.epoch = launch[l].epoch /\ r.cfg = launch[l].cfg
        /\ r.alone = launch[l].alone
    BY <2>2 DEF LaunchRecord
  <2> HIDE DEF r
  <2> QED BY <2>1, <2>3, RecordEffect
<1> QED BY <1>1, <1>2

LEMMA PrkEffect ==
    ASSUME TypeInv, NEW l \in Launch, OverrideClientPrk(l)
    PROVE  \E r \in LaunchRecord :
             /\ Replaces(l, r) /\ r.pc = "key"
             /\ r.file = launch[l].file /\ r.key = launch[l].key
<1> DEFINE r == [launch[l] EXCEPT !.pc = "key", !.prk = env.prk]
<1>1. launch' = [launch EXCEPT ![l] = r]
  BY DEF OverrideClientPrk
<1>2. launch[l] \in LaunchRecord /\ env.prk \in Secret
  BY DEF TypeInv
<1>3. /\ r \in LaunchRecord /\ r.pc = "key"
      /\ r.file = launch[l].file /\ r.key = launch[l].key
      /\ r.epoch = launch[l].epoch /\ r.cfg = launch[l].cfg
      /\ r.alone = launch[l].alone
  BY <1>2 DEF LaunchRecord
<1> HIDE DEF r
<1> QED BY <1>1, <1>3, RecordEffect

LEMMA KeyEffect ==
    ASSUME TypeInv, NEW l \in Launch, OverrideKeystoreKey(l)
    PROVE  \E r \in LaunchRecord :
             /\ Replaces(l, r) /\ r.pc \in {"init", "settle"}
             /\ r.file = launch[l].file /\ r.key = env.key
<1> DEFINE pc == IF launch[l].prk = None THEN "settle" ELSE "init"
           r == [launch[l] EXCEPT !.pc = pc, !.key = env.key]
<1>1. launch' = [launch EXCEPT ![l] = r]
  BY DEF OverrideKeystoreKey
<1>2. /\ launch[l] \in LaunchRecord /\ pc \in {"init", "settle"}
      /\ env.key \in WithKey \union {None}
  BY DEF TypeInv
<1> HIDE DEF pc
<1>3. /\ r \in LaunchRecord
      /\ r.pc = pc /\ r.file = launch[l].file /\ r.key = env.key
      /\ r.epoch = launch[l].epoch /\ r.cfg = launch[l].cfg
      /\ r.alone = launch[l].alone
  BY <1>2 DEF LaunchRecord
<1> HIDE DEF r
<1> QED BY <1>1, <1>2, <1>3, RecordEffect

\* The types are kept.
LEMMA TypeInvStep ==
    ASSUME TypeInv, [Next]_vars
    PROVE  TypeInv'
<1> USE MobileAssumption DEF TypeInv, Secret
<1>1. ASSUME NEW c \in Caller, NEW cfg \in Config, StartNodeFails(c, cfg)
      PROVE  TypeInv'
  BY <1>1 DEF StartNodeFails, applyMobileNodeSecrets
<1>2. ASSUME NEW c \in Caller, NEW cfg \in Config, NEW l \in Launch,
             StartNode(c, cfg, l)
      PROVE  TypeInv'
  <2>1. Alone \in BOOLEAN
    BY DEF Alone
  <2> QED BY <1>2, <2>1
          DEF StartNode, applyMobileNodeSecrets, LaunchRecord
<1>3. ASSUME NEW l \in Launch, LoadNodeConfigFile(l) PROVE TypeInv'
  <2>1. PICK r \in LaunchRecord :
          Replaces(l, r) /\ r.pc \in {"prk", "settle"}
    BY <1>3, LoadEffect
  <2> QED BY <1>3, <2>1 DEF LoadNodeConfigFile, Replaces
<1>4. ASSUME NEW l \in Launch, OverrideClientPrk(l) PROVE TypeInv'
  <2>1. PICK r \in LaunchRecord :
          Replaces(l, r) /\ r.pc \in {"key"}
    BY <1>4, PrkEffect
  <2> QED BY <1>4, <2>1 DEF OverrideClientPrk, Replaces
<1>5. ASSUME NEW l \in Launch, OverrideKeystoreKey(l) PROVE TypeInv'
  <2>1. PICK r \in LaunchRecord :
          Replaces(l, r) /\ r.pc \in {"init", "settle"}
    BY <1>5, KeyEffect
  <2> QED BY <1>5, <2>1 DEF OverrideKeystoreKey, Replaces
<1>6. ASSUME NEW l \in Launch, InitKeystoreEncryption(l) PROVE TypeInv'
  <2>1. launch[l].key \in WithKey \union {None}
    BY DEF LaunchRecord
  <2>2. PICK r \in LaunchRecord :
          /\ Replaces(l, r) /\ r.key = launch[l].key
          /\ r.pc = IF launch[l].key = None THEN "settle" ELSE "run"
    BY <1>6, GotoEffect DEF InitKeystoreEncryption
  <2> QED BY <1>6, <2>1, <2>2 DEF InitKeystoreEncryption, Replaces
<1>7. ASSUME NEW l \in Launch, BrokerRun(l) PROVE TypeInv'
  BY <1>7, GotoEffect DEF BrokerRun, Replaces
<1>8. ASSUME NEW l \in Launch, Superseded(l) PROVE TypeInv'
  <2>1. client' \in [Launch -> {"none", "open", "closing", "closed"}]
    BY <1>8 DEF Superseded
  <2> QED BY <1>8, <2>1, GotoEffect, SMTT(30) DEF Superseded, Replaces
<1>9. ASSUME NEW l \in Launch, Failed(l) PROVE TypeInv'
  <2>1. running' \in BOOLEAN
    BY <1>9 DEF Failed
  <2> QED BY <1>9, <2>1, GotoEffect DEF Failed, Replaces
<1>10. ASSUME NEW l \in Launch, Started(l) PROVE TypeInv'
  <2>1. running' \in BOOLEAN
    BY <1>10, Zenon DEF Started
  <2> QED BY <1>10, <2>1, GotoEffect DEF Started, Replaces
<1>11. ASSUME NEW l \in Launch, CloseSuperseded(l) PROVE TypeInv'
  BY <1>11 DEF CloseSuperseded
<1>12. ASSUME NEW c \in Caller, StopNode(c) PROVE TypeInv'
  <2>1. epoch' \in 0 .. MaxEpoch
    BY <1>12 DEF StopNode
  <2>4. running' \in BOOLEAN
    BY <1>12, Zenon DEF StopNode
  <2>2. \A l \in Launch : launch[l].epoch \in 0 .. MaxEpoch
    BY DEF LaunchRecord
  <2>3. \A l \in Launch : launch[l].epoch <= epoch'
    BY <1>12, <2>2 DEF StopNode
  <2> QED BY <1>12, <2>1, <2>3, <2>4 DEF StopNode
<1>13. ASSUME NEW c \in Caller, clearMobileNodeSecrets(c) PROVE TypeInv'
  BY <1>13 DEF clearMobileNodeSecrets
<1>14. ASSUME NEW c \in Caller, StopReturns(c) PROVE TypeInv'
  BY <1>14 DEF StopReturns, NoStop
<1>15. CASE UNCHANGED vars
  BY <1>15 DEF vars
<1> QED
  BY <1>1, <1>2, <1>3, <1>4, <1>5, <1>6, <1>7, <1>8, <1>9, <1>10, <1>11,
     <1>12, <1>13, <1>14, <1>15 DEF Next, LaunchStep, StopStep

\* Where a client, a launch and stopFn stand to each other.
ClientInv ==
    /\ \A l \in Launch :
         /\ client[l] # "none" => launch[l].pc \in {"settle", "done"}
         /\ client[l] = "closing" => launch[l].epoch < epoch
         /\ InFlight(l) /\ launch[l].epoch = epoch => stopFn = None /\ running
         /\ \A m \in Launch : InFlight(l) /\ launch[l].epoch = epoch
                /\ InFlight(m) /\ launch[m].epoch = epoch => l = m
    /\ stopFn # None => /\ running
                        /\ launch[stopFn].epoch = epoch
                        /\ launch[stopFn].pc = "done"
                        /\ client[stopFn] = "open"
    /\ \A c \in Caller :
         /\ stopper[c].stop # None =>
              /\ launch[stopper[c].stop].epoch < epoch
              /\ launch[stopper[c].stop].pc = "done"
         /\ stopper[c].pc = "idle" => stopper[c].stop = None
    /\ NoClientLost
    /\ RunningIsReal

\* A launch that is alone and of the current epoch, until it is stopped.
Mine(l) == /\ launch[l].alone /\ launch[l].epoch = epoch
           /\ InFlight(l) \/ stopFn = l

OwnInv ==
    \A l \in Launch : Mine(l) =>
        /\ \A c \in Caller : stopper[c].pc = "idle"
        /\ \A m \in Launch : InFlight(m) => m = l
        /\ launch[l].pc = "load" => disk = launch[l].cfg
        /\ /\ launch[l].pc \in {"load", "prk", "key"}
           /\ launch[l].cfg \in WithKey
           => env.key = launch[l].cfg
        /\ \/ launch[l].pc \in {"prk", "key", "init", "run"}
           \/ client[l] = "open"
           => launch[l].file = launch[l].cfg
        /\ launch[l].pc \in {"init", "run"} /\ launch[l].cfg \in WithKey =>
             launch[l].key = launch[l].cfg
        /\ /\ launch[l].pc = "run" \/ client[l] = "open"
           /\ launch[l].cfg \in WithKey
           => encKey = launch[l].cfg

LEMMA ClientInvInit == Init => ClientInv
BY DEF Init, ClientInv, NoClientLost, RunningIsReal, InFlight, NoLaunch, NoStop

LEMMA ClientInvStep ==
    ASSUME TypeInv, TypeInv', ClientInv, [Next]_vars
    PROVE  ClientInv'
<1> USE MobileAssumption
    DEF ClientInv, NoClientLost, RunningIsReal, ToBeClosed, InFlight
<1>0. /\ \A l \in Launch : launch[l].epoch \in Nat /\ l \in Nat
      /\ epoch \in Nat /\ launch \in [Launch -> LaunchRecord]
      /\ stopper \in [Caller -> [pc : {"idle", "clear", "close"},
                                 stop : Launch \union {None}]]
      /\ client \in [Launch -> {"none", "open", "closing", "closed"}]
      /\ stopFn \in Launch \union {None} /\ None \notin Launch
      /\ \A l \in Launch : launch[l].epoch <= epoch
  BY SMTT(30) DEF TypeInv, LaunchRecord, Launch
<1>1. ASSUME NEW c \in Caller, NEW cfg \in Config, StartNodeFails(c, cfg)
      PROVE  ClientInv'
  BY <1>1 DEF StartNodeFails
<1>2. ASSUME NEW c \in Caller, NEW cfg \in Config, NEW l \in Launch,
             StartNode(c, cfg, l)
      PROVE  ClientInv'
  <2> DEFINE r == [pc |-> "load", epoch |-> epoch, cfg |-> cfg,
                   file |-> None, prk |-> None, key |-> None,
                   alone |-> Alone]
  <2>1. /\ launch' = [launch EXCEPT ![l] = r]
        /\ r.pc = "load" /\ r.epoch = epoch
    BY <1>2 DEF StartNode
  <2>2. launch[l].pc = "none"
    BY <1>2 DEF StartNode
  <2> HIDE DEF r
  <2>3. /\ launch'[l].pc = "load" /\ launch'[l].epoch = epoch
        /\ \A m \in Launch : m # l => launch'[m] = launch[m]
    BY <1>0, <2>1
  <2>4. client[l] = "none" /\ stopFn = None /\ ~running
    BY <1>0, <1>2, <2>2 DEF StartNode
  <2>5. \A d \in Caller : stopper[d].stop # None =>
                            stopper[d].stop \in Launch \ {l}
    BY <1>0, <2>2
  <2> QED BY <1>0, <1>2, <2>3, <2>4, <2>5 DEF StartNode
<1>3. ASSUME NEW l \in Launch, LoadNodeConfigFile(l) PROVE ClientInv'
  <2>1. PICK r \in LaunchRecord :
          Replaces(l, r) /\ r.pc \in {"prk", "settle"}
    BY <1>3, LoadEffect
  <2> QED BY <1>0, <1>3, <2>1 DEF LoadNodeConfigFile, Replaces
<1>4. ASSUME NEW l \in Launch, OverrideClientPrk(l) PROVE ClientInv'
  <2>1. PICK r \in LaunchRecord :
          Replaces(l, r) /\ r.pc \in {"key"}
    BY <1>4, PrkEffect
  <2> QED BY <1>0, <1>4, <2>1 DEF OverrideClientPrk, Replaces
<1>5. ASSUME NEW l \in Launch, OverrideKeystoreKey(l) PROVE ClientInv'
  <2>1. PICK r \in LaunchRecord :
          Replaces(l, r) /\ r.pc \in {"init", "settle"}
    BY <1>5, KeyEffect
  <2> QED BY <1>0, <1>5, <2>1 DEF OverrideKeystoreKey, Replaces
<1>6. ASSUME NEW l \in Launch, InitKeystoreEncryption(l) PROVE ClientInv'
  <2>1. PICK r \in LaunchRecord :
          Replaces(l, r) /\ r.pc \in {"run", "settle"}
    BY <1>6, GotoEffect DEF InitKeystoreEncryption
  <2> QED BY <1>0, <1>6, <2>1 DEF InitKeystoreEncryption, Replaces
<1>7. ASSUME NEW l \in Launch, BrokerRun(l) PROVE ClientInv'
  <2>1. PICK r \in LaunchRecord : Replaces(l, r) /\ r.pc = "settle"
    BY <1>7, GotoEffect DEF BrokerRun
  <2> QED BY <1>0, <1>7, <2>1 DEF BrokerRun, Replaces
<1>8. ASSUME NEW l \in Launch, Superseded(l) PROVE ClientInv'
  <2>1. PICK r \in LaunchRecord : Replaces(l, r) /\ r.pc = "done"
    BY <1>8, GotoEffect DEF Superseded
  <2>2. /\ client[l] = "open" => client'[l] = "closing"
        /\ client[l] # "open" => client'[l] = client[l]
        /\ \A m \in Launch : m # l => client'[m] = client[m]
    BY <1>0, <1>8 DEF Superseded
  <2>3. NoClientLost'
    BY <1>0, <1>8, <2>1, <2>2 DEF Superseded, Replaces
  <2>4. RunningIsReal'
    BY <1>0, <1>8, <2>1, <2>2 DEF Superseded, Replaces
  <2>5. launch[l].epoch < epoch /\ stopFn # l
    <3>1. launch[l].epoch # epoch
      BY <1>8 DEF Superseded
    <3>2. stopFn # None => launch[stopFn].epoch = epoch
      OBVIOUS
    <3> HIDE DEF ClientInv, NoClientLost, RunningIsReal
    <3> QED BY <1>0, <3>1, <3>2
  <2>6. \A m \in Launch : launch'[m].pc = launch[m].pc \/ m = l
    BY <2>1 DEF Replaces
  <2> QED BY <1>0, <1>8, <2>1, <2>2, <2>3, <2>4, <2>5, <2>6
          DEF Superseded, Replaces
<1>9. ASSUME NEW l \in Launch, Failed(l) PROVE ClientInv'
  <2>1. PICK r \in LaunchRecord : Replaces(l, r) /\ r.pc = "done"
    BY <1>9, GotoEffect DEF Failed
  <2> QED BY <1>0, <1>9, <2>1, SMTT(30) DEF Failed, Replaces
<1>10. ASSUME NEW l \in Launch, Started(l) PROVE ClientInv'
  <2>1. PICK r \in LaunchRecord : Replaces(l, r) /\ r.pc = "done"
    BY <1>10, GotoEffect DEF Started
  <2> QED BY <1>0, <1>10, <2>1 DEF Started, Replaces
<1>11. ASSUME NEW l \in Launch, CloseSuperseded(l) PROVE ClientInv'
  BY <1>0, <1>11 DEF CloseSuperseded
<1>12. ASSUME NEW c \in Caller, StopNode(c) PROVE ClientInv'
  BY <1>0, <1>12 DEF StopNode
<1>13. ASSUME NEW c \in Caller, clearMobileNodeSecrets(c) PROVE ClientInv'
  BY <1>0, <1>13 DEF clearMobileNodeSecrets
<1>14. ASSUME NEW c \in Caller, StopReturns(c) PROVE ClientInv'
  <2>1. /\ stopper'[c].pc = "idle" /\ stopper'[c].stop = None
        /\ \A d \in Caller : d # c => stopper'[d] = stopper[d]
    BY <1>0, <1>14 DEF StopReturns, NoStop
  <2>2. \A m \in Launch : IF m = stopper[c].stop THEN client'[m] = "closed"
                          ELSE client'[m] = client[m]
    BY <1>0, <1>14 DEF StopReturns
  <2>3. stopper[c].stop # None => stopper[c].stop # stopFn
    BY <1>0
  <2>4. NoClientLost'
    BY <1>0, <1>14, <2>1, <2>2 DEF StopReturns
  <2>5. RunningIsReal'
    BY <1>0, <1>14, <2>1, <2>2, <2>3 DEF StopReturns
  <2> QED BY <1>0, <1>14, <2>1, <2>2, <2>3, <2>4, <2>5 DEF StopReturns
<1>15. CASE UNCHANGED vars
  BY <1>15 DEF vars
<1> QED
  BY <1>1, <1>2, <1>3, <1>4, <1>5, <1>6, <1>7, <1>8, <1>9, <1>10, <1>11,
     <1>12, <1>13, <1>14, <1>15 DEF Next, LaunchStep, StopStep

LEMMA OwnInvInit == Init => OwnInv
BY DEF Init, OwnInv, Mine, NoLaunch

\* A launch that is alone keeps the shared file, environment and keystore key
\* to itself: StartNode is refused while it is there, StopNode ends its
\* epoch, and it is the only one in flight.
LEMMA OwnInvStep ==
    ASSUME TypeInv, TypeInv', ClientInv, OwnInv, [Next]_vars
    PROVE  OwnInv'
<1> USE MobileAssumption DEF OwnInv, Mine, InFlight
<1>0. /\ \A l \in Launch : launch[l].epoch \in Nat
      /\ epoch \in Nat /\ launch \in [Launch -> LaunchRecord]
      /\ stopper \in [Caller -> [pc : {"idle", "clear", "close"},
                                 stop : Launch \union {None}]]
      /\ client \in [Launch -> {"none", "open", "closing", "closed"}]
      /\ stopFn \in Launch \union {None} /\ None \notin Launch
      /\ \A l \in Launch : launch[l].epoch <= epoch
  BY DEF TypeInv, LaunchRecord, Launch
<1>m. \A l \in Launch : Mine(l) => running
  BY <1>0 DEF ClientInv
<1>1. ASSUME NEW c \in Caller, NEW cfg \in Config, StartNodeFails(c, cfg)
      PROVE  OwnInv'
  BY <1>1, <1>m DEF StartNodeFails
<1>2. ASSUME NEW c \in Caller, NEW cfg \in Config, NEW l \in Launch,
             StartNode(c, cfg, l)
      PROVE  OwnInv'
  <2> DEFINE r == [pc |-> "load", epoch |-> epoch, cfg |-> cfg,
                   file |-> None, prk |-> None, key |-> None,
                   alone |-> Alone]
  <2>1. /\ launch' = [launch EXCEPT ![l] = r]
        /\ r.pc = "load" /\ r.epoch = epoch /\ r.cfg = cfg
        /\ r.alone = Alone
    BY <1>2 DEF StartNode
  <2> HIDE DEF r
  <2>2. launch'[l] = r /\ \A m \in Launch : m # l => launch'[m] = launch[m]
    BY <1>0, <2>1
  <2>3. client[l] = "none" /\ \A m \in Launch : ~Mine(m)
    BY <1>0, <1>2, <1>m DEF StartNode, ClientInv
  <2>4. disk' = cfg /\ (cfg \in WithKey => env'.key = cfg)
    BY <1>2 DEF StartNode, applyMobileNodeSecrets
  <2> QED BY <1>0, <1>2, <2>1, <2>2, <2>3, <2>4 DEF StartNode, Alone
<1>3. ASSUME NEW l \in Launch, LoadNodeConfigFile(l) PROVE OwnInv'
  <2>1. PICK r \in LaunchRecord :
          /\ Replaces(l, r)
          /\ r.pc = "settle" \/ (r.pc = "prk" /\ r.file = disk)
    BY <1>3, LoadEffect
  <2> QED BY <1>0, <1>3, <2>1 DEF LoadNodeConfigFile, Replaces, ClientInv
<1>4. ASSUME NEW l \in Launch, OverrideClientPrk(l) PROVE OwnInv'
  <2>1. PICK r \in LaunchRecord :
          Replaces(l, r) /\ r.pc = "key" /\ r.file = launch[l].file
    BY <1>4, PrkEffect
  <2> QED BY <1>0, <1>4, <2>1 DEF OverrideClientPrk, Replaces, ClientInv
<1>5. ASSUME NEW l \in Launch, OverrideKeystoreKey(l) PROVE OwnInv'
  <2>1. PICK r \in LaunchRecord :
          /\ Replaces(l, r) /\ r.pc \in {"init", "settle"}
          /\ r.file = launch[l].file /\ r.key = env.key
    BY <1>5, KeyEffect
  <2> QED BY <1>0, <1>5, <2>1 DEF OverrideKeystoreKey, Replaces, ClientInv
<1>6. ASSUME NEW l \in Launch, InitKeystoreEncryption(l) PROVE OwnInv'
  <2>1. PICK r \in LaunchRecord :
          /\ Replaces(l, r) /\ r.file = launch[l].file
          /\ r.key = launch[l].key
          /\ r.pc = IF launch[l].key = None THEN "settle" ELSE "run"
    BY <1>6, GotoEffect DEF InitKeystoreEncryption
  <2> QED BY <1>0, <1>6, <2>1 DEF InitKeystoreEncryption, Replaces, ClientInv
<1>7. ASSUME NEW l \in Launch, BrokerRun(l) PROVE OwnInv'
  <2>1. PICK r \in LaunchRecord :
          /\ Replaces(l, r) /\ r.pc = "settle" /\ r.file = launch[l].file
          /\ r.key = launch[l].key
    BY <1>7, GotoEffect DEF BrokerRun
  <2> QED BY <1>0, <1>7, <2>1 DEF BrokerRun, Replaces
<1>8. ASSUME NEW l \in Launch, Superseded(l) PROVE OwnInv'
  <2>1. PICK r \in LaunchRecord : Replaces(l, r) /\ r.pc = "done"
    BY <1>8, GotoEffect DEF Superseded
  <2>2. \A m \in Launch : m # l => client'[m] = client[m]
    BY <1>0, <1>8 DEF Superseded
  <2> QED BY <1>0, <1>8, <2>1, <2>2 DEF Superseded, Replaces
<1>9. ASSUME NEW l \in Launch, Failed(l) PROVE OwnInv'
  <2>1. PICK r \in LaunchRecord : Replaces(l, r) /\ r.pc = "done"
    BY <1>9, GotoEffect DEF Failed
  <2> QED BY <1>0, <1>9, <2>1 DEF Failed, Replaces
<1>10. ASSUME NEW l \in Launch, Started(l) PROVE OwnInv'
  <2>1. PICK r \in LaunchRecord :
          /\ Replaces(l, r) /\ r.pc = "done" /\ r.file = launch[l].file
          /\ r.key = launch[l].key
    BY <1>10, GotoEffect DEF Started
  <2> QED BY <1>0, <1>10, <2>1 DEF Started, Replaces
<1>11. ASSUME NEW l \in Launch, CloseSuperseded(l) PROVE OwnInv'
  BY <1>0, <1>11 DEF CloseSuperseded
<1>12. ASSUME NEW c \in Caller, StopNode(c) PROVE OwnInv'
  BY <1>0, <1>12 DEF StopNode
<1>13. ASSUME NEW c \in Caller, clearMobileNodeSecrets(c) PROVE OwnInv'
  BY <1>0, <1>13 DEF clearMobileNodeSecrets
<1>14. ASSUME NEW c \in Caller, StopReturns(c) PROVE OwnInv'
  BY <1>0, <1>14 DEF StopReturns
<1>15. CASE UNCHANGED vars
  BY <1>15 DEF vars
<1> QED
  BY <1>1, <1>2, <1>3, <1>4, <1>5, <1>6, <1>7, <1>8, <1>9, <1>10, <1>11,
     <1>12, <1>13, <1>14, <1>15 DEF Next, LaunchStep, StopStep
-----------------------------------------------------------------------------
(***************************************************************************)
(* The theorems.                                                           *)
(***************************************************************************)
LEMMA InvCorrect == Spec => [](TypeInv /\ ClientInv /\ OwnInv)
<1>1. Init => TypeInv /\ ClientInv /\ OwnInv
  BY TypeInvInit, ClientInvInit, OwnInvInit
<1>2. TypeInv /\ ClientInv /\ OwnInv /\ [Next]_vars
        => (TypeInv /\ ClientInv /\ OwnInv)'
  BY TypeInvStep, ClientInvStep, OwnInvStep
<1> QED BY <1>1, <1>2, PTL DEF Spec

\* The state is well typed, and a launch that reaches broker.Run has a
\* keystore key.
THEOREM TypeCorrect == Spec => []TypeOK
<1>1. TypeInv => TypeOK
  BY MobileAssumption DEF TypeInv, TypeOK, LaunchRecord, Secret
<1> QED BY <1>1, InvCorrect, PTL

\* No client that StartNode opens is ever lost: it belongs to a launch that
\* has yet to report, stopFn closes it, or it is about to be closed.
THEOREM ClientsCorrect == Spec => []NoClientLost
<1>1. ClientInv => NoClientLost
  BY DEF ClientInv
<1> QED BY <1>1, InvCorrect, PTL

\* IsRunning tells the truth.
THEOREM RunningCorrect == Spec => []RunningIsReal
<1>1. ClientInv => RunningIsReal
  BY DEF ClientInv
<1> QED BY <1>1, InvCorrect, PTL

\* A node that was started while nothing else was going on works with its own
\* configuration and its own passphrase.
THEOREM KeystoreCorrect == Spec => []OwnKeystore
<1>1. TypeInv /\ ClientInv /\ OwnInv => OwnKeystore
  BY MobileAssumption DEF TypeInv, ClientInv, OwnInv, Mine, OwnKeystore
<1> QED BY <1>1, InvCorrect, PTL
=============================================================================

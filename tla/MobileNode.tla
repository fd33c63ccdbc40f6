----------------------------- MODULE MobileNode -----------------------------
(***************************************************************************)
(* StartNode and StopNode of the mobile binding (mobile/node_mobile.go),   *)
(* called by any thread of the app, with the goroutine that launches the   *)
(* node (internal/app/launch.go, internal/config, broker.Run).             *)
(*                                                                         *)
(* running, stopFn and epoch are guarded by a mutex.  The secrets of the   *)
(* configuration travel through the environment of the process, the rest   *)
(* through a file, and the keystore key is a global: none of these         *)
(* belongs to an epoch.  dataDir is the app's sandbox directory, the same  *)
(* in every call.                                                          *)
(***************************************************************************)
EXTENDS Naturals, FiniteSets

CONSTANTS
    Caller,     \* threads of the app
    Config,     \* configurations
    WithKey,    \* the ones that carry a keystoreKey
    WithPrk,    \* the ones that carry a clientPrk
    None,
    MaxStarts,  \* bound on the launches
    MaxEpoch    \* bound on the StopNode calls

ASSUME MobileAssumption ==
    /\ WithKey \in SUBSET Config /\ WithPrk \in SUBSET Config
    /\ None \notin Config \union Nat
    /\ MaxStarts \in Nat /\ MaxEpoch \in Nat

Launch == 1 .. MaxStarts
Secret == Config \union {None}    \* whose secret it is

VARIABLES
    running, stopFn, epoch,    \* as in the code; stopFn names a launch
    disk,                      \* cli_node.json, without the secrets
    env,                       \* MPC_KEYSTORE_KEY and MPC_NODE_CLIENT_PRK
    encKey,                    \* the global of package keystore
    launch,                    \* the goroutines of StartNode
    client,                    \* the WebSocket client of each launch
    stopper                    \* the callers inside StopNode

vars == <<running, stopFn, epoch, disk, env, encKey, launch,
          client, stopper>>

NoLaunch == [pc |-> "none", epoch |-> 0, cfg |-> None, file |-> None,
             prk |-> None, key |-> None, alone |-> FALSE]
NoStop == [pc |-> "idle", stop |-> None]

\* Types; a launch past LoadNodeConfigFile has a keystore key or has failed.
TypeOK ==
    /\ running \in BOOLEAN /\ stopFn \in Launch \union {None}
    /\ epoch \in 0 .. MaxEpoch
    /\ disk \in Secret /\ env \in [key : Secret, prk : Secret]
    /\ encKey \in Secret
    /\ \A l \in Launch :
         /\ launch[l].pc \in {"none", "load", "prk", "key", "init", "run",
                              "settle", "done"}
         /\ launch[l].epoch \in 0 .. epoch
         /\ launch[l].pc = "run" => launch[l].key \in WithKey
    /\ client \in [Launch -> {"none", "open", "closing", "closed"}]
    /\ \A c \in Caller : /\ stopper[c].pc \in {"idle", "clear", "close"}
                         /\ stopper[c].stop \in Launch \union {None}

Init ==
    /\ running = FALSE /\ stopFn = None /\ epoch = 0
    /\ disk = None /\ env = [key |-> None, prk |-> None]
    /\ encKey = None
    /\ launch = [l \in Launch |-> NoLaunch]
    /\ client = [l \in Launch |-> "none"]
    /\ stopper = [c \in Caller |-> NoStop]

InFlight(l) ==
    launch[l].pc \in {"load", "prk", "key", "init", "run", "settle"}
Alone == /\ \A c \in Caller : stopper[c].pc = "idle"
         /\ \A l \in Launch : ~InFlight(l)
-----------------------------------------------------------------------------
(***************************************************************************)
(* StartNode, under the mutex from beginning to end.                       *)
(***************************************************************************)
\* applyMobileNodeSecrets: a secret that is missing leaves the one that is
\* there.
applyMobileNodeSecrets(cfg) ==
    env' = [key |-> IF cfg \in WithKey THEN cfg ELSE env.key,
            prk |-> IF cfg \in WithPrk THEN cfg ELSE env.prk]

\* The file is redacted; if the keys directory cannot be made StartNode
\* fails, with the secrets already set.
StartNodeFails(c, cfg) ==
    /\ ~running /\ stopper[c].pc = "idle"
    /\ disk' = cfg
    /\ applyMobileNodeSecrets(cfg)
    /\ UNCHANGED <<running, stopFn, epoch, encKey, launch,
                   client, stopper>>

StartNode(c, cfg, l) ==
    /\ ~running /\ stopper[c].pc = "idle"
    /\ launch[l].pc = "none"
    /\ \A m \in Launch : m < l => launch[m].pc # "none"
    /\ disk' = cfg
    /\ applyMobileNodeSecrets(cfg)
    /\ running' = TRUE
    /\ launch' = [launch EXCEPT ![l] =
                    [pc |-> "load", epoch |-> epoch, cfg |-> cfg,
                     file |-> None, prk |-> None, key |-> None,
                     alone |-> Alone]]
    /\ UNCHANGED <<stopFn, epoch, encKey, client, stopper>>
-----------------------------------------------------------------------------
(***************************************************************************)
(* The goroutine: LaunchMPCNode without the mutex, then the outcome.       *)
(***************************************************************************)
Goto(l, pc) == launch' = [launch EXCEPT ![l].pc = pc]

\* LoadNodeConfigFile reads the file, which has no secrets; the read fails
\* when a StartNode is writing the file.  A failure, here and below, goes to
\* the end without a client.
LoadNodeConfigFile(l) ==
    /\ launch[l].pc = "load"
    /\ \/ launch' = [launch EXCEPT ![l].pc = "prk", ![l].file = disk]
       \/ Goto(l, "settle")
    /\ UNCHANGED <<running, stopFn, epoch, disk, env, encKey,
                   client, stopper>>

\* applyNodeEnvOverrides: the environment overrides the file, one variable
\* after the other.
OverrideClientPrk(l) ==
    /\ launch[l].pc = "prk"
    /\ launch' = [launch EXCEPT ![l].pc = "key", ![l].prk = env.prk]
    /\ UNCHANGED <<running, stopFn, epoch, disk, env, encKey,
                   client, stopper>>

\* The second variable; then validateNodeConfig wants a clientPrk.
OverrideKeystoreKey(l) ==
    /\ launch[l].pc = "key"
    /\ launch' = [launch EXCEPT ![l].pc = IF launch[l].prk = None
                                          THEN "settle" ELSE "init",
                                ![l].key = env.key]
    /\ UNCHANGED <<running, stopFn, epoch, disk, env, encKey,
                   client, stopper>>

\* A plausible bug: a configuration without a key is accepted.
InitWithoutKey(l) ==
    /\ launch[l].pc = "init"
    /\ encKey' = launch[l].key
    /\ Goto(l, "run")
    /\ UNCHANGED <<running, stopFn, epoch, disk, env, client, stopper>>

\* SetShardKeysDir, then InitKeystoreEncryption, which wants a key.
InitKeystoreEncryption(l) ==
    /\ launch[l].pc = "init"
    /\ encKey' = IF launch[l].key = None THEN encKey ELSE launch[l].key
    /\ Goto(l, IF launch[l].key = None THEN "settle" ELSE "run")
    /\ UNCHANGED <<running, stopFn, epoch, disk, env, client, stopper>>

\* broker.Run: the client reconnects by itself, so that a broker out of reach
\* is no error; after another error Run closes the client itself.
BrokerRun(l) ==
    /\ launch[l].pc = "run"
    /\ \E result \in {"open", "closed"} :
         client' = [client EXCEPT ![l] = result]
    /\ Goto(l, "settle")
    /\ UNCHANGED <<running, stopFn, epoch, disk, env, encKey,
                   stopper>>

\* A plausible bug: a superseded launch does not call stop().
SupersededLeaves(l) ==
    /\ launch[l].pc = "settle" /\ launch[l].epoch # epoch
    /\ Goto(l, "done")
    /\ UNCHANGED <<running, stopFn, epoch, disk, env, encKey, client,
                   stopper>>

\* The outcome, under the mutex.  A launch of an earlier epoch closes its
\* client (go stop()) and leaves the rest alone.
Superseded(l) ==
    /\ launch[l].pc = "settle" /\ launch[l].epoch # epoch
    /\ client' = [client EXCEPT ![l] = IF @ = "open" THEN "closing" ELSE @]
    /\ Goto(l, "done")
    /\ UNCHANGED <<running, stopFn, epoch, disk, env, encKey,
                   stopper>>

\* A plausible bug: running stays set.
FailedStaysRunning(l) ==
    /\ launch[l].pc = "settle" /\ launch[l].epoch = epoch
    /\ client[l] # "open"
    /\ stopFn' = None
    /\ Goto(l, "done")
    /\ UNCHANGED <<running, epoch, disk, env, encKey, client,
                   stopper>>

Failed(l) ==
    /\ launch[l].pc = "settle" /\ launch[l].epoch = epoch
    /\ client[l] # "open"
    /\ running' = FALSE /\ stopFn' = None
    /\ Goto(l, "done")
    /\ UNCHANGED <<epoch, disk, env, encKey, client, stopper>>

\* A plausible bug: the epoch is not compared.
StartedAnyEpoch(l) ==
    /\ launch[l].pc = "settle" /\ client[l] = "open"
    /\ stopFn' = l /\ running' = TRUE
    /\ Goto(l, "done")
    /\ UNCHANGED <<epoch, disk, env, encKey, client, stopper>>

Started(l) ==
    /\ launch[l].pc = "settle" /\ launch[l].epoch = epoch
    /\ client[l] = "open"
    /\ stopFn' = l /\ running' = TRUE
    /\ Goto(l, "done")
    /\ UNCHANGED <<epoch, disk, env, encKey, client, stopper>>

\* wsClient.Close in the goroutine of a superseded launch.
CloseSuperseded(l) ==
    /\ client[l] = "closing"
    /\ client' = [client EXCEPT ![l] = "closed"]
    /\ UNCHANGED <<running, stopFn, epoch, disk, env, encKey,
                   launch, stopper>>
-----------------------------------------------------------------------------
(***************************************************************************)
(* StopNode: the mutex is released before the secrets are cleared and the  *)
(* client is closed.                                                       *)
(***************************************************************************)
\* A plausible bug: a launch in flight is not superseded.
StopNodeSameEpoch(c) ==
    /\ stopper[c].pc = "idle" /\ epoch < MaxEpoch
    /\ stopper' = [stopper EXCEPT ![c] = [pc |-> "clear", stop |-> stopFn]]
    /\ stopFn' = None /\ running' = FALSE
    /\ UNCHANGED <<epoch, disk, env, encKey, launch, client>>

StopNode(c) ==
    /\ stopper[c].pc = "idle" /\ epoch < MaxEpoch
    /\ epoch' = epoch + 1
    /\ stopper' = [stopper EXCEPT ![c] = [pc |-> "clear", stop |-> stopFn]]
    /\ stopFn' = None /\ running' = FALSE
    /\ UNCHANGED <<disk, env, encKey, launch, client>>

clearMobileNodeSecrets(c) ==
    /\ stopper[c].pc = "clear"
    /\ env' = [key |-> None, prk |-> None]
    /\ stopper' = [stopper EXCEPT ![c].pc = "close"]
    /\ UNCHANGED <<running, stopFn, epoch, disk, encKey, launch,
                   client>>

StopReturns(c) ==
    /\ stopper[c].pc = "close"
    /\ client' = IF stopper[c].stop = None THEN client
                 ELSE [client EXCEPT ![stopper[c].stop] = "closed"]
    /\ stopper' = [stopper EXCEPT ![c] = NoStop]
    /\ UNCHANGED <<running, stopFn, epoch, disk, env, encKey,
                   launch>>

LaunchStep(l) ==
    \/ LoadNodeConfigFile(l) \/ OverrideClientPrk(l)
    \/ OverrideKeystoreKey(l) \/ InitKeystoreEncryption(l) \/ BrokerRun(l)
    \/ Superseded(l) \/ Failed(l) \/ Started(l) \/ CloseSuperseded(l)
StopStep(c) == clearMobileNodeSecrets(c) \/ StopReturns(c)

Next ==
    \/ \E c \in Caller, cfg \in Config :
         \/ StartNodeFails(c, cfg)
         \/ \E l \in Launch : StartNode(c, cfg, l)
    \/ \E l \in Launch : LaunchStep(l)
    \/ \E c \in Caller : StopNode(c) \/ StopStep(c)

\* Goroutines and calls that have begun go on; nobody has to call.
Fairness ==
    /\ \A l \in Launch : WF_vars(LaunchStep(l))
    /\ \A c \in Caller : WF_vars(StopStep(c))

Spec == Init /\ [][Next]_vars
LiveSpec == Spec /\ Fairness
-----------------------------------------------------------------------------
(***************************************************************************)
(* Properties.                                                             *)
(***************************************************************************)
ToBeClosed(l) == \/ client[l] = "closing"
                 \/ \E c \in Caller : stopper[c].stop = l

\* node_mobile.go:66-80: no client is lost.  One that is open belongs to a
\* launch that has yet to report, is the one stopFn closes, or is about to be
\* closed; so a node that was stopped is not brought back by its launch, and
\* two launches never leave two clients behind one stopFn.
NoClientLost ==
    \A l \in Launch : client[l] \in {"open", "closing"} =>
        \/ launch[l].pc = "settle"
        \/ stopFn = l /\ running /\ launch[l].epoch = epoch
        \/ ToBeClosed(l)

\* IsRunning tells the truth, and StartNode is not refused for nothing: a
\* node that is called running is being launched or has an open client.
RunningIsReal ==
    running => \/ \E l \in Launch : InFlight(l) /\ launch[l].epoch = epoch
               \/ stopFn # None /\ client[stopFn] = "open"

\* config_redact.go:52: file, environment and keystore key are shared by all
\* launches, and a superseded one still sets the key.  A node that was
\* started while no launch was in flight and no StopNode was going on works
\* with its own configuration and its own passphrase.
OwnKeystore ==
    stopFn # None /\ launch[stopFn].alone =>
        /\ launch[stopFn].file = launch[stopFn].cfg
        /\ launch[stopFn].cfg \in WithKey => encKey = launch[stopFn].cfg

\* After StopNode the client of the node that was running or being launched
\* is closed in the end.
StoppedIsClosed ==
    \A l \in Launch :
        (launch[l].pc # "none" /\ launch[l].epoch < epoch)
            ~> (launch[l].pc = "done" /\ client[l] \in {"none", "closed"})
=============================================================================

# TLA+ models of wallet-mpc-node

`wallet-mpc-node` is one node of a threshold signing system. A *broker* (not in
this repository) pushes tasks over a WebSocket: generate a key together with
other nodes, sign with it, renew the ECDSA refresh material ("warm"). The nodes
exchange protocol messages through the broker. The threshold protocols are the
alice library's; this repository drives them: it registers tasks and sessions,
keeps the messages that come too early, serialises the use of a key, aborts
tasks, keeps the shares on disk, and moves shares along HD paths.

The models are about that driving. It is concurrent Go code with many small
mutexes, and what can go wrong in it is the order in which goroutines, nodes and
processes meet. Points of a curve are modelled by their discrete logarithm in a
small group, hashes are arbitrary functions, formats and I/O stay abstract.

Paths below are relative to the repository; `P/` is `internal/protocol/`.

## 1. The system

| Component | State | Operations | Hard behaviour |
|---|---|---|---|
| Sign tasks (`P/sign.go`, `P/ecdsa.go`, `P/ed25519.go`, `P/single.go`) | `signActive`, `signKeyActive`, `signSessions`, `mpcKeySessionLocks`, `ecdsaWarmCancels` | `HandleSignStart`, its worker, `submitSignResultWithRetry` | six mutexes; a slot is taken, looked at and released in different sections; duplicated Starts |
| Abort and disconnect (`P/task_abort.go`) | `abortedTasks`, `startingTasks` | `abortTaskSession` from a push, from the loss of the connection, and from a Start that finds its own mark | aborts race Starts, workers and each other |
| Keygen tasks (`P/keygen.go`, `P/ecdsa.go`, `P/ed25519.go`, `P/single.go`) | `keygenActive`, `keygenSessions`, `persistedKey`, share files | `HandleKeygenStart`, its worker, `deleteUnconfirmedKeygenShare` | save, record, acknowledge and delete are separate steps |
| Message delivery (`P/keygen.go`, `P/sign.go`, `P/enqueue.go`) | early caches, `recvCh`, deduplication sets | `Deliver*Msg`, `register*Session`, `enqueueRecvItem`, `run*Delivery` | messages before, during and after the registration; a bounded channel that is closed from outside |
| ECDSA material pool (`mpc/alg_ecdsa/sign_material.go`, `sign.go`, `refresh.go`) | slot with use count and age, `warmPending` | `Acquire`, `CommitWarm`, `MarkWarmFailed` | thresholds; a flag set by one task and cleared by another |
| Wire inbox, Alice runner (`mpc/inbox.go`, `mpc/runner.go`) | handler, pending messages, expected module | `SetHandler`, `Deliver`, `ClearHandler`, `RunAliceBackend` | handler swapped while messages arrive; cap of 256 |
| DKG and partial public keys (`mpc/alg_*/keygen.go`) | phase of each node | DKG, exchange, save | nodes do not advance together |
| Outbound messages (`P/transport.go`, `mpc/peer_manager.go`) | none kept | `sendMpcProtocolMsgWithRetry`, `MustSend` | a send that fails is dropped |
| Temp keys (`internal/tempkey`) | ML-KEM keys with a TTL | store, take, clear | entries shared by duplicate Starts, workers and aborts; cleared by the session that ends; refreshed in two steps |
| Key shares (`mpc/keystore`, `mpc/alg_*/keystore.go`) | files | save, load, delete, encrypt in place | crash inside a save or a migration |
| Mobile node (`mobile`) | running client, epoch, secrets | `StartNode`, `StopNode` | stop racing start |
| Broker client, launch (`internal/broker`, `internal/app`, `cmd`) | the connection | dispatch of pushes, reconnection | handlers on their own goroutines, messages on the reader |
| HD derivation, conversions, verification (`mpc/hd`, `mpc/alg_*`) | shares and refresh results | derive, adjust, refresh, sign, verify | two curves, two derivations (wallet and node) that must agree; a refresh that only some nodes commit |

How they meet: the broker client gives every Start a goroutine of its own
(`internal/broker/client.go:133`), runs protocol messages and abort pushes on
the connection's reader, and calls `OnBrokerWsDisconnected` when the connection
is lost. A handler registers a session and starts a worker; the worker runs the
algorithm, which reads from the session's delivery goroutine and sends through
the broker; when it is finished it submits the result and removes what the
handler registered. An abort does the same removal from outside at any moment.

What makes the parts correct:

- sign tasks: one task at work per key and node; both registries agree; a slot
  and a session belong to the task that took them until it ends or is aborted;
  every slot is released;
- abort: no abort is lost between a Start's checks; the disconnect callback
  misses no task that starts or runs; the broker gets one last gasp per task;
- keygen: one run per task id; the share of an aborted run is deleted as well as
  the store allows, and that of an acknowledged key is not;
- delivery: a message is handed over once and, while the task runs, not lost;
  nobody sends on a closed channel; the registration comes to an end;
- material: bounded use of a result; one request for a warm, made in time; the
  flag is released when the request is answered or has failed;
- protocol runs: no message is lost although nodes start at different times; a
  share is saved only when all nodes have done their part; everyone ends;
- keys: a signature belongs to the address the wallet derives, whatever path,
  participants and refreshes;
- shares on disk: a saved share stays until its own task deletes it, through
  crashes and the encryption of old files;
- temp keys: a run keeps the keys it needs, and the end of the task removes them;
- mobile node: a stopped node's client is closed and never comes back.

## 2. Modules

A step of a model is one critical section of the code, or one call on the disk
or on the connection. Adjacent sections are one step only where nothing between
them can be told apart: `AbortCancel` (`cancelPriorEcdsaWarm`, then
`abortCancel`), `HandlerClearStale` (cancel the stale warm, then end the stale
task), `AbortTake` (`abortCancel`, then `takePersistedKey`). What a goroutine
read in one step it keeps in a variable of its own (`busyTask`, `old`, `asess`,
`cmsg`) and uses in a later one, when it may be stale.

**SignTasks** A handler is one delivery of `mpcSignStart` and stands for the
session it creates. `hpc` follows `HandleSignStart` with its three
`stopIfTaskAborted` checks, the busy test and the clearing of stale slots; `wpc`
follows the worker (warm registration, key mutex, protocol, submission with
retries, deferred removal); `apc` follows `abortTaskSession` in whichever
goroutine calls it. `ModeOf` chooses between the single, FROST, ECDSA and warm
paths. `stolen`, `exposed` and `uncovered` are history for the properties:
handlers whose slot was cleared as stale, those a disconnect must find, and those
whose entry in `startingTasks` another delivery of the task has removed.

**KeygenTasks** The same for `HandleKeygenStart`, without the Start window, plus
the share file, the record of it in the session, and the broker's answer: an
attempt may fail although the broker has recorded the result (`accepted`
without `acked`). The deletion of an abort may fail, after which nobody tries
again (`undeleted`). It also has the temporary keys of `internal/tempkey`: the
node's decapsulation key per task (`decapsKey`, the number of the key pair that
`HandleTempPublicKey` created) and the peers' keys (`peerKeys`, put and removed
together). A Start is only decrypted with a key in the cache, refreshes it with
a read and a write, and the worker or the abort that unregisters the session
clears it, own key first. A key may expire unless a run that has put it is under
way: the TTL (900 s) is longer than a Start and a run (11 minutes).

**MessageDelivery** One task: the reader (courier) that looks the session up,
caches or enqueues, the handlers that take the cache, publish the session and
replay, the delivery goroutines, and the aborts, which close the channel. `Own`
messages come from the node itself; `Receive` may refuse any message
(`DeliveryRefused`). `pushed` counts the pushes, and `missed` has the
messages that were cached after the handler had taken the cache, for the
properties. Nothing
in the repository recovers from a panic, so that the process does nothing more
after one. That a pushed message can be
decrypted is taken for granted here; `RunHasKeys` of KeygenTasks is about the
key that this needs.

**ProtocolRun** continues MessageDelivery at `Receive`, on several nodes: each
has a router with its inbox (handler, pending messages, expected module), a
worker that is idle, sets the handler and replays, runs the backend round by
round and, for an ECDSA keygen, exchanges partial public keys and waits for
those of all peers. `net` holds the messages under way. A fault is a send that
fails after its attempts, a message that the backend refuses, a replay that
fails, or an abort. The alice backend is external: it goes to the next round
with the messages of all peers.

**HDDerivation** has no state: child keys along a path for secp256k1 and
Ed25519, the layers wallet, account and address, and the refusals (hardened
index, zero tweak, tweak not below the order, identity).

**KeyShares** uses it. Keygen makes a polynomial (or a single key), a refresh
adds one that is 0 at 0 and is committed or not by each node on its own, and a
sign lets every node restore its share, choose the participants' entries, and
shift share, public key and partial public keys along the path. The protocol
succeeds if every node's view of the others fits what they bring; `outcome`
records which private key has signed. The value of a polynomial (`Eval`) is
computed by Horner's scheme, and the interpolation at 0 (`Combine`) as a sum of
products in the order of the indices (`Total`, `Product`): recursive functions,
so that they can be proved about. A Start names at least one node,
and `"any"` stands for a Start without an algorithm.

**ShareStore** is the abstract specification of the share directory: `Put` and
`Remove` of a share. **Keystore** implements it: `os.WriteFile` is a truncation
and a write, the migration reads twice, writes a temporary file and renames it,
the node and the migrating process may crash between any two calls and start
again with another passphrase. `stored`, the refinement mapping, takes the files
that are whole.

**MobileNode** `StartNode` up to the end of its critical section, the launch
goroutine (configuration file and the two secrets of the environment, each read
in a step of its own, keystore key, connection, the check of the epoch), and
`StopNode` with what it does after it has released the mutex. What `StartNode`
writes to file and environment is one step, under its mutex.
Configuration file, environment and keystore key are global, as in the code.

**SignMaterial** One key on one node. `used`, `needWarm` and `asked` are the
history that says how often each result was really used and who was told to ask
for the next, and `swallowed` has the workers whose failure left `warmPending`
set with nobody to answer.

The eight `...Proofs` modules (**SignTasksProofs**, **KeygenTasksProofs**,
**MessageDeliveryProofs**, **ProtocolRunProofs**, **SignMaterialProofs**,
**KeySharesProofs**, **KeystoreProofs**, **MobileNodeProofs**) extend the module
they are named after and hold its theorems, see section 4. The `...MC`
modules give the constants their values for TLC. Definitions whose comment
begins "A plausible bug" are used by no specification; they are variants of the
definition below them, kept to show that a property would notice the slip.

The broker, Go's runtime and the alice library are outside the repository. The
broker may push in any order, more than once, or not at all; a protocol run may
succeed or fail at any time.

## 3. What TLC checks

Passing runs:

| Run | Instance | Shows |
|---|---|---|
| `SignTasks_duplicate` | one ECDSA Start delivered twice, one abort push, the connection lost any number of times | `LiveHoldsSlot`, `RunningIsRegistered`, `AbortReaches`, `DisconnectCovers`, `AtMostOneGasp` |
| `SignTasks_live` | two warms on one key, one push, two attempts | `RegistryConsistent`, `WarmRegistryLive`, `SlotReleased` |
| `KeygenTasks_task` | a Start delivered twice (MPC and single), a temp key, one aborter that may come again, two attempts | `OneRunPerTask`, `AbortReaches`, `CancelledRunCleansUp`, `RunHasKeys`, `TempKeysCleared`, `TaskEnds` |
| `MessageDelivery_delivery` | two executions of a task, a message pushed twice and one of the node's own, a channel of two, one abort | `HandedOnce`, `Conserved`, `ReplayNeverWaits` |
| `ProtocolRun_exchange` | three nodes, ECDSA keygen, FROST keygen or sign, two rounds, inbox of two, one fault | `NothingLost`, `SavedMeansAll`, `AllFinish`, `RunEnds` |
| `SignMaterial_pool` | five signs, three warms, three uses, threshold two, expiry at any time | `UsesBounded`, `OneWarmRequest`, `WarmAskedInTime` |
| `KeyShares_address` | group of order 5, three nodes, threshold two, two warms, five paths of every class, both curves, shared and single keys | `SignedByAddressKey`, `RefreshKeepsKey`, `ConsistentInputsSign` |
| `Keystore_store` | two keys, two tasks, two passphrases, one crash of each process | `ImplementsShareStore` (refinement), `MigratedAll` |
| `MobileNode_epochs` | two threads, two launches, two stops, a configuration with and one without a keystore key | `NoClientLost`, `RunningIsReal`, `OwnKeystore`, `StoppedIsClosed` |

Some of these properties name the cases in which the code gives no such promise,
and say that there are no others.

- `LiveHoldsSlot` and `RunningIsRegistered` except tasks that were aborted and
  tasks whose slot was cleared as stale (`stolen`, see below).
- `DisconnectCovers` excepts a Start whose entry in `startingTasks` another
  delivery of its task has removed (`uncovered`): `startingTasks` is a set without
  a count, so that of two deliveries of one Start the first to return removes the
  entry of the other (`P/task_abort.go:90`). `P/task_abort.go:68-69` says that a
  disconnect must find these tasks, too. It also excepts a run whose session
  another delivery has replaced.
- `CancelledRunCleansUp`: the share of a cancelled run stays on disk if it was
  recorded after the abort had looked (`P/ecdsa.go:168-171`), or if the store
  failed (`undeleted`). `P/task_abort.go:195` speaks of every saved share, and of
  best effort.
- `Conserved`: a message is lost if it was cached after the handler had taken
  the cache (`missed`), and in no other way; `MessageDelivery_early` below shows
  that it is lost. It is about tasks with at most `maxEarly` pushes: what
  comes after the early cache is full is dropped.
- `WarmAskedInTime`: the flag stays set without an open request after a warm
  that failed before its protocol (its context ended while it waited for the key,
  or its share cannot be loaded: `P/ecdsa.go:201-209` returns without
  `MarkWarmFailed`, although `mpc/alg_ecdsa/sign_material.go:171` says that a
  failed warm releases the flag), and after a sign that was told to ask and
  failed (`mpc/alg_ecdsa/sign.go:154`). Both are in `swallowed`. In every other
  case a set flag has a request behind it, and no warm leaves it set when it
  gives the key back.
- `RunHasKeys` and `TempKeysCleared`: a run of the same task that had
  unregistered, but not yet cleared, when the next one registered, and a
  duplicate Start that was refreshing the key meanwhile.
- `OwnKeystore` is about a node that was started while no other launch or stop
  was under way.

Runs in which TLC finds a violation of what a comment in the code says:

| Run | Property | Behaviour |
|---|---|---|
| `KeygenTasks_confirmed` | `ConfirmedShareKept` (`mpc/alg_ecdsa/keystore.go:89`) | The broker acknowledges the key; before the worker's deferred removal an abort takes `persistedKey` and deletes the share. |
| `MessageDelivery_panic` | `NoPanic` (`P/enqueue.go:8`) | `enqueueRecvItem` tests `closed`, an abort closes the channel, the send panics. |
| `MessageDelivery_early` | `NoEarlyLost` (`P/keygen.go:32`, `P/timing.go:22`) | The reader finds no session; the handler takes the cache and registers; the reader appends to the cache, which nobody reads again (`P/keygen.go:379-407`). |

Behaviour that the models contain and no run states as a property:

- Two sign tasks on one key can both be at work: a Start on a busy key that
  looks between the other task's `beginSignTask` and `registerSignSession` finds
  no session and clears the slot as stale (`P/sign.go:298`), although
  `P/sign.go:495` calls the slot exclusive per key and node. The key mutex still
  separates MPC runs; single signs have none.
- An empty or truncated file of a crashed save is never taken for a share, but
  it stops every later migration at that file (`mpc/keystore/migrate.go:27`).
- Path indices are `int64` in a Start and are cut to `uint32`
  (`P/ecdsa.go:270`): an index of 2^32 or more signs for its low 32 bits.
  `SignedByAddressKey` is stated for indices that fit.
- A launch that was superseded still sets the keystore key, and `StopNode`
  clears the secrets after it has released the mutex, so that a `StartNode` in
  between can lose its own (`mobile/node_mobile.go:107`).
- A handler stays in the inbox when a replayed message is refused
  (`mpc/runner.go:34`); no later run uses that inbox.
- The warm cancel registry is keyed by key and participants: aborting a sign
  cancels the warm of another task on the same key (`P/task_abort.go:265`).
- `recvCh` is only closed by an abort or a replacement: the delivery goroutine
  of a session that ends normally stays (`P/keygen.go:662`).

### Bounds

- Handlers, tasks, keys. The code has one registry entry per task and per key,
  so that two deliveries of one task, and two tasks on one key, give every kind of
  conflict between two handlers; another key shares nothing. Slots are cleared as
  stale in `SignTasks_live`, which has two tasks. Three handlers
  (two deliveries and a competing task) are left to the theorems, and so is the
  single path of a sign, which takes fewer steps. Where two deliveries differ in
  nothing they are permuted (`Symmetry`); runs with liveness have no symmetry.
- `MaxAttempts` is 3 in the code and 1 or 2 here: first, middle and last attempt
  differ only in whether another one follows.
- `MaxPushes` bounds the abort pushes of SignTasks and the pushes of messages
  in MessageDelivery; an aborter of MessageDelivery comes once, the disconnect
  callback and the aborters of KeygenTasks any number of times.
- `MaxKeys` is 1: a second temp key of the same task is in the model, and in no
  run, because the properties of the keys do not speak of it.
- `RecvBuf` and `maxEarly` are both 1024 in the code, here 2 and 3. Three pushes
  overfill the channel, so that senders wait and time out; `ReplayNeverWaits` is
  about the cases in which all that is pushed fits. The cap of the early cache
  is not reached.
- `InboxPendingCap` is 256 in the code and 2 here, the number of peers: nobody
  can send a second round before this node has taken part in the first.
- Two rounds: a message of the round ahead of a node, and one of its own. Three
  nodes: two peers at different places.
- The group has order 5 and a path element 4 values, two of them hardened. Zero,
  negative, hardened and too large indices, and tweaks that are 0 or not below
  the order, all occur. Two warms: the results of different generations on
  different nodes.
- One crash of the node and one of the migration, at any place; the directory may
  hold old plaintext files of any kind from the start.
- Two launches and two stops: an old launch against a new one.
- `maxUses` 64 and `warmAt` 40 become 3 and 2: below, at and above the threshold
  and the limit. The theorems hold for every value.
- Time is not counted. Expiry, timeouts and cancellations may come at any
  moment; the 15 minute pruning of abort marks only when nothing of the task is
  under way, because every run, submission and abort is shorter. The 15 minute
  expiry of the early caches is left out for the same reason.

### Fairness

Weak fairness of every goroutine that has begun: Go schedules it, a protocol run
ends by its context (11 or 12 minutes), a submission by its timeout. Strong
fairness of taking the key mutex, because `sync.Mutex` does not starve a waiter.
In ProtocolRun the workers of all nodes have it, with their start and their
timeout (each node is told to start, and every context has a limit), and so has
the delivery of what was sent; a timeout is a step of the model only after
a fault, because a run in which nothing goes wrong is much shorter. In MobileNode launches and stops that have
begun go on. Nothing makes Starts, pushes, aborts, disconnects or calls happen.
Deadlock is not checked where the bounds on crashes, launches and faults end the
behaviour (Keystore, MobileNode, ProtocolRun).

## 4. What is proved

37 theorems in eight modules, for every value of the constants: any number of
handlers, tasks, keys, nodes, threads, messages and crashes, any capacity, any
prime group order and any hash. Every invariant that a passing run of section 3
checks on its instance is a theorem, and so is the refinement. Two theorems are
of invariants that are in no run: the types of SignMaterial (`UsesBounded` has
the bound of the counter) and `ViewsAgree` of KeyShares (the end of a sign, where
it matters, is in `ConsistentInputsSign`). The stronger invariants below were checked by TLC on the same instances before they were
proved. The three steps are always the same: `Init` gives the invariant,
`[Next]_vars` keeps it (one step per action), and it implies the property.

**SignTasksProofs** The properties are not inductive one by one:
`LiveHoldsSlot`, `RunningIsRegistered` and `AbortReaches` lean on each other. A
session stays registered because no other handler of the task is past
`beginSignTask`, and that is so because the slot is held.

| Theorem | Property | Invariant it rests on |
|---|---|---|
| `TypeCorrect` | `TypeOK` | `BusyOK`, `AbortOK`, `AttemptOK`: at which control points `busyTask`, `atask`, `asess` are there and an attempt is left |
| `RegistryCorrect` | `RegistryConsistent` | inductive with the types |
| `SlotCorrect`, `RegisteredCorrect` | `LiveHoldsSlot`, `RunningIsRegistered` | `OwnInv`: an entitled owner holds the slot, is the only one of its task and is found under it; `FoundInv`: an abort that has looked for the session has found this one |
| `AbortCorrect` | `AbortReaches` | `ReachInv` on top of these: an entitled worker of an aborted task has an abort on its way to it |
| `GaspCorrect` | `AtMostOneGasp` | `GaspInv`: only the goroutine that set the mark has a last gasp to send, and nobody has sent one |
| `WarmCorrect` | `WarmRegistryLive` | `WarmInv`: only warms have cancel functions |
| `DisconnectCorrect` | `DisconnectCovers` | `CoverInv`: a Start has its entry or is `uncovered`, a live run is the registered one, and who was exposed and is not seen yet has moved to the sessions, which are read second; for any number of deliveries |

**KeygenTasksProofs** `TypeCorrect`, `OneRunCorrect` (`OneRunPerTask`),
`AbortCorrect` (`AbortReaches`), `CleanUpCorrect` (`CancelledRunCleansUp`),
`RunKeysCorrect` (`RunHasKeys`), `KeysClearedCorrect` (`TempKeysCleared`). `CtlInv`
relates the control points of handlers, workers and aborts; `OwnInv` says that
an owner has its task to itself, and loses it only to an abort that has found
this very session; `ReachInv` and `OpenInv` say when a session is cancelled and
closed; `DiskInv` says where the record of a share on disk is: in the session,
with an abort that is about to delete it, at the worker's next step, or nowhere
because the deletion has failed. For the
temporary keys, `KeyInv` (a handler that went on has a key that was created) and
`ClearInv` (until the keys are gone somebody will clear them).

**MessageDeliveryProofs** `TypeCorrect` (the caches never exceed their capacity),
`HandedCorrect` (`HandedOnce`), `ConservedCorrect` (`Conserved`), `ReplayCorrect`
(`ReplayNeverWaits`). `HandedInv`: the deduplication set holds exactly the
messages some execution was given. `CountInv`: for each execution, what lies in
the early cache, in its own queues and in the reader's hands does not exceed
what was pushed; this makes the capacity sufficient. `OnlyInv`: while nothing is
aborted there is one execution and nothing is closed. `KeepInv`: what is on its
way stays on its way until it is handed over, or is among the `missed`; the cache
counts as on the way only until the handler has taken it.

**ProtocolRunProofs** `TypeCorrect`; `SavedCorrect` (`SavedMeansAll`), which holds
with every fault, by `SafeInv`: only what was sent is known, and a node is
through only when all others have reached the last round; `NothingLostCorrect`
(`NothingLost`), by `FaultFreeInv`: without faults peers are at most one round
apart and every message is in one place. It assumes
`InboxPendingCap >= Cardinality(Node) - 1`: the inbox has a place for each peer.
The code's cap is 256.

**SignMaterialProofs** `TypeCorrect`, `UsesCorrect` (`UsesBounded`), `WarmAsked`
(`WarmAskedInTime`), `OneRequest` (`OneWarmRequest`), for any
`warmAt \in 1 .. maxUses`. `NotCommitted`: nobody has used the result of a warm
that has not committed, so that the counter may be reset. `PendingInv`: when the
flag is set there is one sign that was told, it used the result in the slot
(a commit clears the flag), and if it has failed, or a warm has ended since, a
worker is in `swallowed`. It needs `LockInv`, who works holds the key, so that a
warm that gives the key back meets the flag as it left it, and `FailedInv`, a
worker that has failed takes no other step. `ToldInv` is the first half of
`WarmAskedInTime`.

**KeySharesProofs** `TypeCorrect`; `AddressCorrect` (`SignedByAddressKey`);
`ViewsCorrect` (`ViewsAgree`); `RefreshCorrect` (`RefreshKeepsKey`);
`ConsistentCorrect` (`ConsistentInputsSign`). They have four layers:

- arithmetic modulo the order, and induction over data. The prover cannot use
  the library's induction theorems, so that induction is by the least
  counterexample (`LeastNatural`), and `RecursionExists` shows that a function
  defined by recursion on `0 .. n` satisfies its equation. `EvalType`,
  `WalkEquation` and `WalkEd25519Equation` come from these: what `Eval` and the
  walks along a path compute, for every degree and every path;
- Lagrange interpolation over a prime order, for any set of indices at least as
  large as the number of coefficients. `TotalLinear`: a sum of products is
  linear. `WeightsSum`: the weights add up to 1. `Interpolation`: the weighted
  sum of the values of a polynomial is its value at 0. It goes by Horner's steps:
  what lies under the constant term is x times a shorter polynomial, whose
  weighted sum is the same for every set of indices with one left out (Neville's
  scheme) and cancels. `CombineMoved` puts them together for what the nodes
  bring: shares of a polynomial, plus a refresh, plus the tweak of a path;
- that the node's derivation (with the private side, in one walk) and the
  wallet's (public, account and address apart) agree: `PathKey`, `WalletAgrees`,
  for both curves;
- the induction over steps. `InputDerived`: every node that has brought
  something has derived the key of the task's path, whatever its share came
  from. A signature is then of the address key because the protocol only
  accepts inputs whose shares interpolate to the public key they name
  (`AliceAccepts`). `ViewInv`: results of one generation fit on all nodes
  (`ResultsFit`), those of the refresh under way are the ones the rest will
  commit (`WarmFits`), and what a node has brought is what it would bring now,
  since no refresh begins on a node that signs (`InputCurrent`). `RefreshInv`:
  a refresh result lies on the key's polynomial plus one that is 0 at 0
  (`OnPolynomial`, `WarmThroughZero`), so that any threshold of its shares
  combines to the key (`ResultsCombine`) whatever was missed before. `SignInv`:
  who has brought something was admitted by the threshold (`Admitted`), so that
  what consistent nodes bring interpolates to the derived key
  (`BroughtCombines`) and, with `ViewInv`, no check of the protocol fails.

**KeystoreProofs** `TypeCorrect`; `Refinement`, Keystore implements ShareStore;
`MigrationComplete` (`MigratedAll`). The refinement needs `FileInv`: the saver's
path is not there before it opens it and was never deleted, an abort deletes
only encrypted files, and the temporary file of the migration holds what its
path holds, so that neither the truncation, the partial write nor the rename
changes `stored` other than by a `Put` or a `Remove`. `MigrateInv`: a plaintext
file is still to be done.

**MobileNodeProofs** `TypeCorrect`, `ClientsCorrect` (`NoClientLost`),
`RunningCorrect` (`RunningIsReal`), `KeystoreCorrect` (`OwnKeystore`). `ClientInv`
ties clients, epochs and `stopFn` together: one launch of the current epoch at
most, and `stopFn` belongs to it; `OwnInv` follows the configuration and the
keystore key of a launch that is alone from the file to broker.Run.

### Assumptions

The named `ASSUME`s of the modules, which TLC evaluates in every run: Start
messages have a task, key, lock and mode; goroutines of different kinds are
different; the "none" values are not members; bounds and capacities are natural
numbers, and the attempts, the channel's buffer and the threshold are positive;
there is an execution in MessageDelivery and finitely many keys in Keystore; the
order is above 1 and prime (`FieldAssumption`: every scalar but 0 has an
inverse; the orders of both curves are prime, and the weights divide by
differences of indices); nodes have different indices below the order; hashes are
functions into their range; a Start names at least one node. One theorem has
an assumption of its own, `NothingLostCorrect`.

### Only model-checked

- Liveness (`SlotReleased`, `TaskEnds`, `AllFinish`, `RunEnds`,
  `StoppedIsClosed`): the prover does not do fairness.
- `ConfirmedShareKept`, `NoPanic` and `NoEarlyLost`, which are false.

## 5. Not modelled, and the plan

What could come next: action properties (an abort mark is only dropped when
nothing of its task is under way; the epoch of the mobile node only grows), the
temp keys of sign tasks, and a second migration of the same directory.

Not modelled:

- temp keys of sign tasks (the cache, its calls and their places are those of
  keygen), and the Start window of keygen tasks (that of SignTasks);
- `Clear` of the material pool, which only tests call, and `outboundSender`,
  which is never constructed;
- two migrations of one directory at the same time (they would share the name
  of the temporary file);
- number and text formats, the texts of HD paths, ids of wallets and accounts,
  the choice of an algorithm by its name; the cryptography of the alice library;
- configuration except what MobileNode reads, logging, command line, login and
  reconnection (I/O), wire types and generated JSON code.

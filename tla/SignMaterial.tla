---------------------------- MODULE SignMaterial ----------------------------
(***************************************************************************)
(* The refresh material of one key on one node (mpc/alg_ecdsa/             *)
(* sign_material.go) and the workers that use it up and renew it: online   *)
(* signs (RunSignSession under runSignNodeECDSA) and warms (RunWarmRefresh *)
(* under runWarmRefreshNodeECDSA, internal/protocol/ecdsa.go).             *)
(*                                                                         *)
(* The pool counts how often a refresh result was used.  From warmAt uses  *)
(* on, one sign reports NeedRefreshWarm to the broker, which answers with  *)
(* a warm task; warmPending keeps the others from reporting it as well.    *)
(* Workers of one key and one set of participants hold the same mutex.     *)
(***************************************************************************)
EXTENDS Naturals, FiniteSets

CONSTANTS
    Sign, Warm,   \* workers of sign tasks and of warm tasks
    maxUses,      \* SignMaterialMaxUses (64 in the code)
    warmAt,       \* SignMaterialWarmThreshold (40 in the code)
    NoWorker

ASSUME MaterialAssumption ==
    /\ maxUses \in Nat /\ warmAt \in 1 .. maxUses
    /\ Sign \intersect Warm = {}
    /\ NoWorker \notin Sign \union Warm

Worker == Sign \union Warm

VARIABLES
    active,       \* the warm whose result is in the slot, NoWorker when none
    uses,         \* signMaterialSlot.uses
    expired,      \* the slot is older than its ttl
    warmPending,
    lock,         \* mpcKeySessionLock: the worker that holds it
    pc,
    cancelled,    \* warms whose context is cancelled or timed out
    needWarm,     \* sign -> the result whose Acquire returned NeedWarm
    failed,       \* workers that returned an error
    used,         \* history: uses of each refresh result
    asked,        \* history: signs with NeedWarm since pending was released
    swallowed     \* history: workers whose failure left warmPending set with
                  \* nobody to answer, since it was released

slotVars == <<active, uses, expired, warmPending>>
outVars  == <<needWarm, failed, used, asked, swallowed>>
vars == <<slotVars, lock, pc, cancelled, outVars>>

Pcs == {"idle", "lock", "load", "acquire", "run", "commit", "markFailed",
        "unlock", "done"}

\* Types; the slot's counter never passes maxUses (sign_material.go:41-60,
\* 97).
TypeOK ==
    /\ active \in Warm \union {NoWorker}
    /\ uses \in 0 .. maxUses
    /\ expired \in BOOLEAN /\ warmPending \in BOOLEAN
    /\ lock \in Worker \union {NoWorker}
    /\ pc \in [Worker -> Pcs]
    /\ cancelled \in SUBSET Warm
    /\ needWarm \in [Sign -> Warm \union {NoWorker}]
    /\ failed \in SUBSET Worker
    /\ used \in [Warm -> Nat]
    /\ asked \in SUBSET Sign
    /\ swallowed \in SUBSET Worker

Init ==
    /\ active = NoWorker /\ uses = 0 /\ expired = FALSE
    /\ warmPending = FALSE
    /\ lock = NoWorker
    /\ pc = [w \in Worker |-> "idle"]
    /\ needWarm = [w \in Sign |-> NoWorker]
    /\ cancelled = {} /\ failed = {}
    /\ used = [w \in Warm |-> 0] /\ asked = {} /\ swallowed = {}

Goto(w, l) == pc' = [pc EXCEPT ![w] = l]
-----------------------------------------------------------------------------
(***************************************************************************)
(* SignMaterialPool.                                                       *)
(***************************************************************************)
\* A plausible bug: the result may be used once more than allowed.
slotValidOnceMore == active # NoWorker /\ ~expired /\ uses <= maxUses

slotValid == active # NoWorker /\ ~expired /\ uses < maxUses

\* A plausible bug: every sign above the threshold asks for a warm.
NeedsWarmAgain == uses + 1 >= warmAt

\* A plausible bug: the threshold is taken one use too late.
NeedsWarmLate == uses + 1 > warmAt /\ ~warmPending

NeedsWarm == uses + 1 >= warmAt /\ ~warmPending

\* Acquire on a valid slot: the result is cloned and the use counted.
AcquireOK(w) ==
    /\ uses' = uses + 1
    /\ used' = [used EXCEPT ![active] = @ + 1]
    /\ needWarm' = [needWarm EXCEPT ![w] = IF NeedsWarm THEN active ELSE @]
    /\ asked' = IF NeedsWarm THEN asked \union {w} ELSE asked
    /\ warmPending' = (warmPending \/ NeedsWarm)
    /\ UNCHANGED <<active, expired, swallowed>>

CommitWarm(w) ==
    /\ active' = w
    /\ uses' = 0
    /\ expired' = FALSE
    /\ warmPending' = FALSE
    /\ asked' = {} /\ swallowed' = {}

MarkWarmFailed ==
    /\ warmPending' = FALSE
    /\ asked' = {} /\ swallowed' = {}
    /\ UNCHANGED <<active, uses, expired>>

\* SignMaterialTTL passes.
Expire ==
    /\ active # NoWorker /\ ~expired
    /\ expired' = TRUE
    /\ UNCHANGED <<active, uses, warmPending, lock, pc, cancelled, outVars>>
-----------------------------------------------------------------------------
(***************************************************************************)
(* Workers.                                                                *)
(***************************************************************************)
\* The handler has started the worker (SignTasks).  A sign that is refused
\* before it takes the lock does not touch the pool and is left out.
Start(w) ==
    /\ pc[w] = "idle"
    /\ Goto(w, "lock")
    /\ UNCHANGED <<slotVars, lock, cancelled, outVars>>

\* A warm's context ends: an abort, a newer warm or its 12 minute limit.
Cancel(w) ==
    /\ w \in Warm \ cancelled /\ pc[w] \in {"lock", "load", "run"}
    /\ cancelled' = cancelled \union {w}
    /\ UNCHANGED <<slotVars, lock, pc, outVars>>

LockKey(w) ==
    /\ pc[w] = "lock" /\ lock = NoWorker
    /\ lock' = w
    /\ Goto(w, "load")
    /\ UNCHANGED <<slotVars, cancelled, outVars>>

Fail(w) == failed' = failed \union {w}

\* A warm looks at its context, then both kinds load the share.
Load(w) ==
    /\ pc[w] = "load" /\ w \notin cancelled
    /\ Goto(w, IF w \in Sign THEN "acquire" ELSE "run")
    /\ UNCHANGED <<slotVars, lock, cancelled, outVars>>

\* The warm is cancelled already, or the share cannot be loaded: an error.
\* A warm does not call MarkWarmFailed here.
LoadFail(w) ==
    /\ pc[w] = "load"
    /\ Fail(w)
    /\ swallowed' = IF w \in Warm /\ warmPending THEN swallowed \union {w}
                    ELSE swallowed
    /\ Goto(w, "unlock")
    /\ UNCHANGED <<slotVars, lock, cancelled, needWarm, used, asked>>

Acquire(w) ==
    /\ pc[w] = "acquire"
    /\ \/ /\ slotValid
          /\ AcquireOK(w)
          /\ Goto(w, "run")
          /\ UNCHANGED failed
       \/ /\ ~slotValid
          /\ Fail(w)
          /\ Goto(w, "unlock")
          /\ UNCHANGED <<slotVars, needWarm, used, asked, swallowed>>
    /\ UNCHANGED <<lock, cancelled>>

\* The protocol: RunSign or RunRefresh.
Run(w) ==
    /\ pc[w] = "run"
    /\ Goto(w, IF w \in Sign THEN "unlock" ELSE "commit")
    /\ UNCHANGED <<slotVars, lock, cancelled, outVars>>

\* The result of a sign that fails does not carry NeedRefreshWarm.
RunFail(w) ==
    /\ pc[w] = "run"
    /\ Fail(w)
    /\ swallowed' = IF w \in asked THEN swallowed \union {w} ELSE swallowed
    /\ Goto(w, IF w \in Sign THEN "unlock" ELSE "markFailed")
    /\ UNCHANGED <<slotVars, lock, cancelled, needWarm, used, asked>>

Commit(w) ==
    /\ pc[w] = "commit"
    /\ CommitWarm(w)
    /\ Goto(w, "unlock")
    /\ UNCHANGED <<lock, cancelled, needWarm, failed, used>>

MarkFailed(w) ==
    /\ pc[w] = "markFailed"
    /\ MarkWarmFailed
    /\ Goto(w, "unlock")
    /\ UNCHANGED <<lock, cancelled, needWarm, failed, used>>

\* The worker submits its result afterwards (SignTasks).
UnlockKey(w) ==
    /\ pc[w] = "unlock"
    /\ lock' = NoWorker
    /\ Goto(w, "done")
    /\ UNCHANGED <<slotVars, cancelled, outVars>>

WorkerStep(w) ==
    \/ LockKey(w) \/ Load(w)   \/ LoadFail(w) \/ Acquire(w)
    \/ Run(w)     \/ RunFail(w) \/ Commit(w)  \/ MarkFailed(w)
    \/ UnlockKey(w)

\* Every task has been served.
AllServed == (\A w \in Worker : pc[w] = "done") /\ UNCHANGED vars

Next ==
    \/ \E w \in Worker : Start(w) \/ Cancel(w) \/ WorkerStep(w)
    \/ Expire
    \/ AllServed

Spec == Init /\ [][Next]_vars
-----------------------------------------------------------------------------
(***************************************************************************)
(* Properties.                                                             *)
(***************************************************************************)
\* SignMaterialMaxUses: however signs and warms interleave, no refresh result
\* is used more often than that, and the slot's counter is its true number
\* of uses (a warm that commits does not hand a used result out again).
UsesBounded ==
    /\ \A w \in Warm : used[w] <= maxUses
    /\ active # NoWorker => used[active] = uses

\* warmPending keeps the signs after the first from asking for a warm as
\* well: one request for each time the flag is set.
OneWarmRequest == Cardinality(asked) <= 1

\* Past the threshold some sign on this very result has been told to ask for
\* the next one, and warmPending keeps the others quiet only while that
\* request is open: the sign has not failed, and no warm has ended, since a
\* warm releases the flag before it gives the key back.  Two failures leave
\* the flag set with nobody to answer, and are excepted: a warm that ends
\* before its protocol (ecdsa.go:201-209, although MarkWarmFailed is said to
\* release the flag when a warm fails, sign_material.go:171), and a sign that
\* was told and fails (sign.go:154).
WarmAskedInTime ==
    active # NoWorker /\ uses >= warmAt =>
        /\ \E w \in Sign : needWarm[w] = active
        /\ warmPending /\ swallowed = {} =>
             /\ \E w \in asked : needWarm[w] = active /\ w \notin failed
             /\ \A w \in Warm : pc[w] # "unlock"
=============================================================================

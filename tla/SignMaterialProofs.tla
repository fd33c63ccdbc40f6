------------------------- MODULE SignMaterialProofs -------------------------
(***************************************************************************)
(* Proofs about SignMaterial, for any number of signs and warms and any    *)
(* thresholds: how often a refresh result is used, and that the request    *)
(* for the next one is made, once.                                         *)
(***************************************************************************)
EXTENDS SignMaterial, FiniteSetTheorems, TLAPS

\* A warm that has not committed has no result that anyone could have used.
NotCommitted ==
    \A w \in Warm :
        pc[w] \in {"idle", "lock", "load", "run", "commit"}
            => used[w] = 0 /\ active # w

\* The flag is set by the sign that asks, and asking sets it: one sign has
\* asked since it was released, for the result in the slot.  It fails only as
\* one of `swallowed', and a warm gives the key back with the flag released or
\* as another of them.
PendingInv ==
    /\ ~warmPending => asked = {}
    /\ warmPending => asked # {}
    /\ \A v, w \in asked : v = w
    /\ \A w \in asked : active # NoWorker /\ needWarm[w] = active
    /\ \A w \in asked : pc[w] \in {"run", "unlock", "done"}
    /\ asked \intersect failed \subseteq swallowed
    /\ \A w \in Warm : pc[w] = "unlock" /\ warmPending => swallowed # {}

\* Whoever is between taking the key and giving it back is its holder.
LockInv ==
    \A w \in Worker : pc[w] \notin {"idle", "lock", "done"} => lock = w

\* Only a worker that has no protocol left to run has failed.
FailedInv ==
    \A w \in failed : pc[w] \in {"markFailed", "unlock", "done"}

\* Signs acquire, warms commit or give up.
RoleOK ==
    \A w \in Worker :
        /\ pc[w] = "acquire" => w \in Sign
        /\ pc[w] \in {"commit", "markFailed"} => w \in Warm

\* Past the threshold somebody was told, whatever became of the request.
ToldInv == active # NoWorker /\ uses >= warmAt
             => \E w \in Sign : needWarm[w] = active

\* UsesBounded and ToldInv with what they need to be inductive.
Inv == TypeOK /\ UsesBounded /\ NotCommitted /\ PendingInv /\ LockInv
         /\ FailedInv /\ ToldInv /\ RoleOK

\* The steps that leave the pool, its history and the key alone, and in which
\* nobody fails.
LEMMA QuietStep ==
    ASSUME Inv, NEW w \in Worker, NEW l \in Pcs,
           UNCHANGED <<slotVars, cancelled, outVars>>, TypeOK', Goto(w, l),
           <<pc[w], l>> \in {<<"idle", "lock">>, <<"lock", "load">>,
                             <<"load", "acquire">>, <<"load", "run">>,
                             <<"run", "unlock">>, <<"run", "commit">>,
                             <<"unlock", "done">>},
           l \in {"acquire", "unlock"} => w \in Sign,
           l = "commit" => w \in Warm,
           LockInv'
    PROVE  Inv'
<1> USE MaterialAssumption DEF Inv, slotVars, outVars
<1>1. /\ pc'[w] = l
      /\ \A v \in Worker : v # w => pc'[v] = pc[v]
  BY DEF TypeOK, Goto
<1>2. UsesBounded' /\ ToldInv'
  BY DEF UsesBounded, ToldInv
<1>3. NotCommitted'
  BY <1>1 DEF NotCommitted, Worker
<1>4. PendingInv'
  BY <1>1 DEF PendingInv, Worker, TypeOK
<1>5. FailedInv'
  BY <1>1 DEF FailedInv, TypeOK
<1>6. RoleOK'
  BY <1>1 DEF RoleOK, Worker
<1> QED BY <1>2, <1>3, <1>4, <1>5, <1>6

\* The steps in which a worker fails without touching the pool.
LEMMA FailStep ==
    ASSUME Inv, NEW w \in Worker, NEW l \in {"unlock", "markFailed"},
           UNCHANGED <<slotVars, lock, cancelled, needWarm, used, asked>>,
           Goto(w, l), Fail(w), swallowed \subseteq swallowed',
           swallowed' \subseteq swallowed \union {w},
           pc[w] \in {"load", "acquire", "run"},
           w \in asked => w \in swallowed',
           l = "markFailed" => w \in Warm,
           l = "unlock" /\ w \in Warm /\ warmPending => w \in swallowed'
    PROVE  Inv'
<1> USE MaterialAssumption DEF Inv, slotVars
<1>1. /\ pc'[w] = l /\ failed' = failed \union {w}
      /\ \A v \in Worker : v # w => pc'[v] = pc[v]
  BY DEF TypeOK, Goto, Fail
<1>2. TypeOK'
  BY DEF TypeOK, Goto, Fail, Pcs
<1>3. UsesBounded' /\ ToldInv'
  BY DEF UsesBounded, ToldInv
<1>4. NotCommitted'
  BY <1>1 DEF NotCommitted, Worker
<1>5. PendingInv'
  BY <1>1 DEF PendingInv, Worker, TypeOK
<1>6. LockInv' /\ FailedInv'
  BY <1>1 DEF LockInv, FailedInv, TypeOK
<1>7. RoleOK'
  BY <1>1 DEF RoleOK, Worker
<1> QED BY <1>2, <1>3, <1>4, <1>5, <1>6, <1>7

\* A sign that finds the slot valid.
LEMMA AcquireStep ==
    ASSUME Inv, NEW w \in Sign, pc[w] = "acquire", slotValid, AcquireOK(w),
           Goto(w, "run"), UNCHANGED <<lock, cancelled, failed>>
    PROVE  Inv'
<1> USE MaterialAssumption DEF Inv, slotValid, AcquireOK
<1>0. /\ w \in Worker /\ pc'[w] = "run"
      /\ \A v \in Worker : v # w => pc'[v] = pc[v]
  BY DEF TypeOK, Goto, Worker
<1>1. TypeOK'
  BY DEF TypeOK, Goto, Worker, Pcs
<1>2. UsesBounded'
  BY DEF TypeOK, UsesBounded
<1>3. NotCommitted'
  BY DEF TypeOK, NotCommitted, Goto, Worker
<1>4. \A v \in Warm : pc[v] # "unlock"
  BY <1>0 DEF LockInv, Worker
<1>5. w \notin failed
  BY DEF FailedInv
<1>6. ASSUME NeedsWarm PROVE PendingInv' /\ ToldInv'
  <2>1. /\ needWarm' = [needWarm EXCEPT ![w] = active]
        /\ asked' = asked \union {w}
        /\ warmPending' = TRUE
        /\ asked = {}
    BY <1>6 DEF TypeOK, PendingInv, NeedsWarm
  <2>2. needWarm'[w] = active'
    BY <2>1 DEF TypeOK
  <2>3. PendingInv'
    BY <1>0, <1>4, <1>5, <2>1, <2>2 DEF PendingInv, Worker
  <2> QED BY <2>2, <2>3 DEF ToldInv
<1>7. ASSUME ~NeedsWarm PROVE PendingInv' /\ ToldInv'
  <2>1. UNCHANGED <<asked, warmPending>>
    BY <1>7 DEF TypeOK
  <2>2. needWarm' = needWarm
    BY <1>7 DEF TypeOK
  <2>3. PendingInv'
    BY <1>0, <2>1, <2>2 DEF PendingInv, TypeOK, Worker
  <2>4. ToldInv'
    BY <1>7, <2>2 DEF TypeOK, ToldInv, PendingInv, NeedsWarm
  <2> QED BY <2>3, <2>4
<1>8. LockInv' /\ FailedInv'
  BY <1>0, <1>5 DEF LockInv, FailedInv, TypeOK
<1>9. RoleOK'
  BY <1>0 DEF RoleOK, Worker
<1> QED BY <1>1, <1>2, <1>3, <1>6, <1>7, <1>8, <1>9

\* A warm that replaces the slot, or gives up and releases the flag.
LEMMA WarmStep ==
    ASSUME Inv, NEW w \in Warm, Commit(w) \/ MarkFailed(w)
    PROVE  Inv'
<1> USE MaterialAssumption DEF Inv
<1>0. /\ w \in Worker /\ pc'[w] = "unlock"
      /\ \A v \in Worker : v # w => pc'[v] = pc[v]
      /\ pc[w] \in {"commit", "markFailed"} /\ UNCHANGED <<lock, failed>>
      /\ warmPending' = FALSE /\ asked' = {}
  BY DEF Commit, MarkFailed, CommitWarm, MarkWarmFailed, TypeOK, Goto, Worker
<1>1. LockInv' /\ RoleOK'
  BY <1>0 DEF LockInv, RoleOK, Worker
<1>2. PendingInv'
  BY <1>0 DEF PendingInv
<1>3. FailedInv'
  BY <1>0 DEF FailedInv, TypeOK
<1>4. CASE Commit(w)
  <2>0. expired' \in BOOLEAN /\ warmPending' \in BOOLEAN
    BY <1>4 DEF Commit, CommitWarm
  <2>1. TypeOK'
    BY <1>4, <2>0 DEF Commit, CommitWarm, Goto, TypeOK, Worker, Pcs
  <2>2. used[w] = 0
    BY <1>4 DEF Commit, NotCommitted
  <2>3. UsesBounded'
    BY <1>4, <2>2 DEF Commit, CommitWarm, TypeOK, UsesBounded
  <2>4. NotCommitted'
    BY <1>4 DEF Commit, CommitWarm, Goto, TypeOK, NotCommitted, Worker
  <2>5. ToldInv'
    BY <1>4 DEF Commit, CommitWarm, ToldInv
  <2> QED BY <1>1, <1>2, <1>3, <2>1, <2>3, <2>4, <2>5
<1>5. CASE MarkFailed(w)
  <2>1. TypeOK'
    BY <1>5 DEF MarkFailed, MarkWarmFailed, Goto, TypeOK, Pcs
  <2>2. UsesBounded' /\ NotCommitted' /\ ToldInv'
    BY <1>0, <1>5 DEF MarkFailed, MarkWarmFailed, UsesBounded, NotCommitted,
                      ToldInv, Worker
  <2> QED BY <1>1, <1>2, <1>3, <2>1, <2>2
<1> QED BY <1>4, <1>5

\* Every step keeps the inductive invariant.
LEMMA InvStep ==
    ASSUME Inv, [Next]_vars
    PROVE  Inv'
<1> USE DEF slotVars, outVars
<1>0. /\ \A w \in Worker, l \in Pcs : Goto(w, l) =>
           /\ pc'[w] = l
           /\ \A v \in Worker : v # w => pc'[v] = pc[v]
      /\ Sign \intersect Warm = {} /\ Worker = Sign \union Warm
      /\ NoWorker \notin Worker
  BY MaterialAssumption DEF Inv, TypeOK, Goto, Worker
<1>1. ASSUME NEW w \in Worker, Start(w) PROVE Inv'
  <2>1. TypeOK'
    BY <1>1 DEF Start, Goto, Inv, TypeOK, Pcs
  <2>2. LockInv'
    BY <1>0, <1>1 DEF Start, Inv, LockInv, Pcs
  <2> QED BY <1>1, <2>1, <2>2, QuietStep DEF Start, Pcs
<1>2. ASSUME NEW w \in Worker, Cancel(w) PROVE Inv'
  BY <1>2 DEF Cancel, Inv, TypeOK, UsesBounded, NotCommitted, PendingInv,
              LockInv, FailedInv, ToldInv, RoleOK
<1>3. ASSUME NEW w \in Worker, LockKey(w) PROVE Inv'
  <2>1. TypeOK'
    BY <1>3 DEF LockKey, Goto, Inv, TypeOK, Pcs
  <2>2. LockInv'
    BY <1>0, <1>3 DEF LockKey, Inv, LockInv, Pcs
  <2> QED BY <1>3, <2>1, <2>2, QuietStep DEF LockKey, Pcs
<1>4. ASSUME NEW w \in Worker, Load(w) PROVE Inv'
  <2>1. TypeOK'
    BY <1>4 DEF Load, Goto, Inv, TypeOK, Pcs
  <2>2. LockInv'
    BY <1>0, <1>4 DEF Load, Inv, LockInv, Pcs
  <2>3. CASE w \in Sign
    BY <1>4, <2>1, <2>2, <2>3, QuietStep DEF Load, Pcs
  <2>4. CASE w \in Warm
    BY <1>0, <1>4, <2>1, <2>2, <2>4, QuietStep DEF Load, Pcs
  <2> QED BY <1>0, <2>3, <2>4
<1>5. ASSUME NEW w \in Worker, LoadFail(w) PROVE Inv'
  <2>1. w \notin asked
    BY <1>5 DEF LoadFail, Inv, PendingInv
  <2> QED BY <1>5, <2>1, FailStep DEF LoadFail
<1>6. ASSUME NEW w \in Worker, Acquire(w) PROVE Inv'
  <2>1. w \in Sign
    BY <1>6 DEF Acquire, Inv, RoleOK
  <2>2. CASE slotValid
    BY <1>6, <2>1, <2>2, AcquireStep DEF Acquire
  <2>3. CASE ~slotValid
    <3>1. w \notin asked /\ w \notin Warm
      BY <1>0, <1>6, <2>1 DEF Acquire, Inv, PendingInv
    <3> QED BY <1>6, <2>3, <3>1, FailStep DEF Acquire
  <2> QED BY <2>2, <2>3
<1>7. ASSUME NEW w \in Worker, Run(w) PROVE Inv'
  <2>1. TypeOK'
    BY <1>7 DEF Run, Goto, Inv, TypeOK, Pcs
  <2>2. LockInv'
    BY <1>0, <1>7 DEF Run, Inv, LockInv, Pcs
  <2>3. CASE w \in Sign
    BY <1>7, <2>1, <2>2, <2>3, QuietStep DEF Run, Pcs
  <2>4. CASE w \in Warm
    BY <1>0, <1>7, <2>1, <2>2, <2>4, QuietStep DEF Run, Pcs
  <2> QED BY <1>0, <2>3, <2>4
<1>8. ASSUME NEW w \in Worker, RunFail(w) PROVE Inv'
  <2>1. CASE w \in Sign
    BY <1>0, <1>8, <2>1, FailStep DEF RunFail
  <2>2. CASE w \in Warm
    BY <1>0, <1>8, <2>2, FailStep DEF RunFail
  <2> QED BY <1>0, <2>1, <2>2
<1>9. ASSUME NEW w \in Worker, Commit(w) \/ MarkFailed(w) PROVE Inv'
  BY <1>9, WarmStep DEF Inv, RoleOK, Commit, MarkFailed
<1>10. ASSUME NEW w \in Worker, UnlockKey(w) PROVE Inv'
  <2>1. TypeOK'
    BY <1>10 DEF UnlockKey, Goto, Inv, TypeOK, Pcs
  <2>2. LockInv'
    BY <1>0, <1>10 DEF UnlockKey, Inv, LockInv, Pcs
  <2> QED BY <1>10, <2>1, <2>2, QuietStep DEF UnlockKey, Pcs
<1>11. CASE Expire
  BY <1>11 DEF Expire, Inv, TypeOK, UsesBounded, NotCommitted, PendingInv,
               LockInv, FailedInv, ToldInv, RoleOK
<1>12. CASE UNCHANGED vars
  BY <1>12 DEF vars, Inv, TypeOK, UsesBounded, NotCommitted, PendingInv,
               LockInv, FailedInv, ToldInv, RoleOK
<1> QED
  BY <1>1, <1>2, <1>3, <1>4, <1>5, <1>6, <1>7, <1>8, <1>9, <1>10, <1>11,
     <1>12 DEF Next, WorkerStep, AllServed

\* The pool starts empty.
LEMMA InvInit == Init => Inv
<1> SUFFICES ASSUME Init PROVE Inv
  OBVIOUS
<1> USE MaterialAssumption DEF Init
<1>0. expired \in BOOLEAN /\ warmPending \in BOOLEAN
  OBVIOUS
<1>1. TypeOK
  BY <1>0 DEF TypeOK, Pcs
<1>2. UsesBounded /\ ToldInv
  BY DEF UsesBounded, ToldInv
<1>3. NotCommitted /\ RoleOK /\ LockInv /\ FailedInv
  BY DEF NotCommitted, RoleOK, LockInv, FailedInv, Worker
<1>4. PendingInv
  BY DEF PendingInv, Worker
<1> QED BY <1>1, <1>2, <1>3, <1>4 DEF Inv

\* Every variable of the pool and of its workers keeps its type: the counter
\* of a slot stays within 0 .. maxUses (sign_material.go:41-54).
THEOREM TypeCorrect == Spec => []TypeOK
<1>1. Inv => TypeOK
  BY DEF Inv
<1> QED BY InvInit, InvStep, <1>1, PTL DEF Spec

\* No refresh result is used more than maxUses times on this node, and the
\* slot's counter is the true number of its uses, for any number of signs
\* and warms and any maxUses.
THEOREM UsesCorrect == Spec => []UsesBounded
<1>1. Inv => UsesBounded
  BY DEF Inv
<1> QED BY InvInit, InvStep, <1>1, PTL DEF Spec

\* Before a result is used up, some sign on that result has been told to ask
\* for the next one, and while warmPending is up the request is open: that
\* sign has not failed and no warm has ended, unless one of the two failures
\* happened that leave the flag with nobody to answer.
THEOREM WarmAsked == Spec => []WarmAskedInTime
<1>1. Inv => WarmAskedInTime
  BY DEF Inv, PendingInv, ToldInv, WarmAskedInTime
<1> QED BY InvInit, InvStep, <1>1, PTL DEF Spec

\* At most one sign asks for a warm between two releases of warmPending.
THEOREM OneRequest == Spec => []OneWarmRequest
<1>1. Inv => OneWarmRequest
  <2>1. SUFFICES ASSUME Inv PROVE Cardinality(asked) <= 1
    BY DEF OneWarmRequest
  <2>2. CASE asked = {}
    BY <2>2, FS_EmptySet
  <2>3. CASE asked # {}
    <3>1. PICK w \in asked : TRUE
      BY <2>3
    <3>2. asked = {w}
      BY <2>1, <3>1 DEF Inv, PendingInv
    <3> QED BY <3>2, FS_Singleton
  <2> QED BY <2>2, <2>3
<1> QED BY InvInit, InvStep, <1>1, PTL DEF Spec
=============================================================================

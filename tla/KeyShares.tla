----------------------------- MODULE KeyShares -----------------------------
(***************************************************************************)
(* The key behind an address, when it is shared: DKG, the warm's refresh   *)
(* of the shares (mpc/alg_ecdsa/refresh.go, sign_material.go), and a sign  *)
(* with the shares moved along an HD path (hd_adjust.go, sign.go of        *)
(* alg_ecdsa and alg_ed25519); and the wallets with a single key           *)
(* (mpc/alg_single).                                                       *)
(*                                                                         *)
(* Points are modelled by their discrete logarithm (HDDerivation), so that *)
(* a public key tells which private key has to sign for it.  The Alice     *)
(* protocols are external: a DKG is a polynomial, a refresh adds one whose *)
(* value at 0 is 0, a sign succeeds if every node's view of the others     *)
(* fits what they bring.                                                   *)
(***************************************************************************)
EXTENDS HDDerivation, FiniteSets

CONSTANTS
    Node,          \* the holders of shares, named by their x coordinate
    Threshold,
    Participants,  \* the sets of nodes that a Start may name, itself among
                   \* them: the broker sends it to these nodes
    Request,       \* the HD paths that a Start may carry (three int64)
    MaxWarms,      \* bound on the warms
    NoKey, NoMaterial, NoInput, Refused, NoTask

ASSUME ShareAssumption ==
    /\ Node \in SUBSET (Scalar \ {0}) /\ Threshold \in Nat \ {0}
    /\ Participants \in SUBSET SUBSET Node /\ {} \notin Participants
    /\ Request \in SUBSET [account : Int, change : Int, address : Int]
    /\ MaxWarms \in Nat

\* The order of both curves is prime.
ASSUME FieldAssumption ==
    \A k \in Scalar \ {0} : \E y \in Scalar : (k * y) % Order = 1

Algs == {"ecdsa", "ed25519"}
XCoordinate == Scalar \ {0}

VARIABLES
    key,        \* what keygen left: kind, algorithm, polynomial
    material,   \* the refresh result of each node for each set of nodes
    warm,       \* the refresh under way: nodes, polynomial, generation
    warming,    \* the nodes that have not returned from it
    warms,      \* warms started: the generations
    task,       \* the sign under way: nodes, path, algorithm asked for
    input,      \* what each node brings to it
    outcome     \* the last finished sign

vars == <<key, material, warm, warming, warms, task, input, outcome>>

Polynomial == [0 .. Threshold - 1 -> Scalar]

ASSUME NoTaskAssumption ==
    NoTask \notin [nodes : Participants, poly : Polynomial, gen : Nat]

\* The value of polynomial f at x, modulo the order (Horner's scheme).
Eval(f, x) ==
    LET horner[d \in 0 .. Threshold] ==
          IF d = 0 THEN 0
          ELSE (horner[d - 1] * x + f[Threshold - d]) % Order
    IN  horner[Threshold]

RootPub == BaseMult(key.poly[0])
RootKeyID == IF key.alg = "ecdsa" THEN KeyIDFromPubXY(RootPub)
             ELSE KeyIDFromEd25519PubHex(RootPub)

Inputs == [gen : 0 .. MaxWarms, share : Scalar, pub : Scalar,
           pubs : UNION {[p -> Scalar] : p \in Participants}]

\* Types; material of a node is kept under the participants it was made for
\* (sign_material.go:103-106).
TypeOK ==
    /\ key \in {NoKey} \union
         [kind : {"shares", "single"}, alg : Algs, poly : Polynomial]
    /\ \A i \in Node, p \in Participants :
         material[i][p] # NoMaterial =>
             /\ DOMAIN material[i][p].pubs = p
             /\ material[i][p].gen \in 1 .. warms
             /\ material[i][p].share \in Scalar
    /\ warm = NoTask <=> warming = {}
    /\ warming \in SUBSET Node /\ warms \in 0 .. MaxWarms
    /\ input \in [Node -> Inputs \union {NoInput, Refused}]

Init ==
    /\ key = NoKey
    /\ material = [i \in Node |-> [p \in Participants |-> NoMaterial]]
    /\ warm = NoTask /\ warming = {} /\ warms = 0
    /\ task = NoTask
    /\ input = [i \in Node |-> NoInput]
    /\ outcome = NoTask
-----------------------------------------------------------------------------
(***************************************************************************)
(* Keygen.                                                                 *)
(***************************************************************************)
\* RunDKG and the exchange of the partial public keys (ProtocolRun): every
\* node has its share and all public shares.
NewKey(kind, alg, f) ==
    /\ key = NoKey
    /\ key' = [kind |-> kind, alg |-> alg, poly |-> f]
    /\ UNCHANGED <<material, warm, warming, warms, task, input, outcome>>

RunDKG ==
    \E f \in Polynomial : f[0] # 0 /\ NewKey("shares", "ecdsa", f)

\* runKeygenNodeFROST: PubHexFromPoint refuses the identity as a root key.
RunDKGEd25519 ==
    \E f \in Polynomial :
        EncodesEd25519(BaseMult(f[0])) /\ NewKey("shares", "ed25519", f)

\* KeygenECDSA draws a scalar that is not 0, KeygenEd25519 refuses 0; the
\* file also holds the key id and the public key.
Constant(f) == \A d \in DOMAIN f \ {0} : f[d] = 0
KeygenECDSA ==
    \E f \in Polynomial :
        f[0] # 0 /\ Constant(f) /\ NewKey("single", "ecdsa", f)
KeygenEd25519 ==
    \E f \in Polynomial :
        f[0] # 0 /\ Constant(f) /\ NewKey("single", "ed25519", f)

\* dkgResultFromPersist.  Coordinates are stored as decimal numbers; those
\* of the identity do not exist and cannot be read back.
Parses(pubs) == \A i \in DOMAIN pubs : pubs[i] # 0

\* The same in alg_ed25519, where the file has the Ys of all nodes.
ParsesYs(ys) == \A i \in DOMAIN ys : ys[i] # 0

Share(i) == Eval(key.poly, i)
PartialPub == [i \in Node |-> BaseMult(Share(i))]
-----------------------------------------------------------------------------
(***************************************************************************)
(* Warm: RunRefresh on every participant, then CommitWarm on each.         *)
(***************************************************************************)
\* A plausible bug: the maps keep all nodes of the DKG.
FilterNothing(p, pubs) == pubs

\* FilterParticipantMaps (alg_ecdsa): what is known, for the participants.
FilterParticipantMaps(p, pubs) == [i \in p |-> pubs[i]]

\* The same for Ys (alg_ed25519).
FilterYs(p, ys) == [i \in p |-> ys[i]]

\* The refresh runs on the nodes of p: the new shares lie on the DKG's
\* polynomial plus a fresh one through 0.  Every node starts from the share
\* it has on disk, and none is at work on a sign (one task per key and node,
\* SignTasks).
Busy(i) == /\ task # NoTask /\ i \in task.nodes
           /\ input[i] \notin {NoInput, Refused}

RunRefresh(p) ==
    /\ key # NoKey /\ key.kind = "shares" /\ key.alg = "ecdsa"
    /\ warm = NoTask /\ warms < MaxWarms /\ \A i \in p : ~Busy(i)
    /\ Parses(PartialPub) /\ Cardinality(p) >= Threshold
    /\ \E g \in Polynomial :
         /\ g[0] = 0 /\ \E d \in DOMAIN g : g[d] # 0
         /\ warm' = [nodes |-> p, poly |-> g, gen |-> warms + 1]
    /\ warming' = p
    /\ warms' = warms + 1
    /\ UNCHANGED <<key, material, task, input, outcome>>

NewShare(i) == (Share(i) + Eval(warm.poly, i)) % Order
NewPubs == FilterParticipantMaps(warm.nodes,
                                 [i \in Node |-> BaseMult(NewShare(i))])

\* cloneRefreshResult goes through the decimal form as well.
Clones(result) == Parses(result.pubs)

Return(i) ==
    /\ warming' = warming \ {i}
    /\ warm' = IF warming = {i} THEN NoTask ELSE warm

\* A plausible bug: a slot that is in use keeps its share.
CommitWarmOnce(i) ==
    LET m      == material[i][warm.nodes]
        result == [gen |-> warm.gen, pubs |-> NewPubs,
                   share |-> IF m = NoMaterial THEN NewShare(i) ELSE m.share]
    IN  /\ i \in warming
        /\ Clones(result)
        /\ material' = [material EXCEPT ![i][warm.nodes] = result]
        /\ Return(i)
        /\ UNCHANGED <<key, warms, task, input, outcome>>

\* The slot is the one of the participants (MaterialSessionKey).
CommitWarm(i) ==
    LET result == [gen |-> warm.gen, share |-> NewShare(i), pubs |-> NewPubs]
    IN  /\ i \in warming
        /\ Clones(result)
        /\ material' = [material EXCEPT ![i][warm.nodes] = result]
        /\ Return(i)
        /\ UNCHANGED <<key, warms, task, input, outcome>>

\* The node's run was aborted or failed at the last message, or the result
\* cannot be cloned: it keeps what it had (MarkWarmFailed).
WarmFails(i) ==
    /\ i \in warming
    /\ Return(i)
    /\ UNCHANGED <<key, material, warms, task, input, outcome>>
-----------------------------------------------------------------------------
(***************************************************************************)
(* Sign with shares.                                                       *)
(***************************************************************************)
\* The broker sends the Start of one sign to the participants.
SignStart(p, req) ==
    /\ key # NoKey /\ key.kind = "shares" /\ task = NoTask
    /\ task' = [nodes |-> p, req |-> req]
    /\ input' = [i \in Node |-> NoInput]
    /\ outcome' = NoTask
    /\ UNCHANGED <<key, material, warm, warming, warms>>

\* runSignNodeECDSA / runSignNodeFROST: negative indices and too few
\* participants are refused; uint32() then keeps the low 32 bits.
Admits(p, req) ==
    /\ req.account >= 0 /\ req.change >= 0 /\ req.address >= 0
    /\ Cardinality(p) >= Threshold
ToPath(req) == [account |-> req.account % Width, change |-> req.change % Width,
                address |-> req.address % Width]

\* AdjustShareAndPubKeyForPath (alg_ecdsa); NewECPoint refuses the identity.
AdjustShareAndPubKeyForPath(share, root, keyID, path) ==
    LET d == DeriveChildPubFromPath(root, ChainCodeFromKeyID(keyID),
                                    PathFromAccountAndAddress(path))
    IN  [ok |-> d.ok /\ d.pub # 0, share |-> (share + d.delta) % Order,
         pub |-> d.pub, delta |-> d.delta]

\* A plausible bug: the partial public keys stay those of the root key.
AdjustPartialPubsNot(pubs, delta) == pubs

AdjustPartialPubsForDelta(pubs, delta) ==
    IF delta = 0 THEN pubs
    ELSE [i \in DOMAIN pubs |-> (pubs[i] + BaseMult(delta)) % Order]

\* AdjustShareAndPubKeyForPath (alg_ed25519), over the encoded root key.
AdjustShareEd25519(share, root, keyID, path) ==
    LET d == DeriveEd25519ChildPubFromPath(root, ChainCodeFromKeyID(keyID),
                                           PathFromAccountAndAddress(path))
    IN  [ok |-> EncodesEd25519(root) /\ d.ok,
         share |-> (share + d.delta) % Order, pub |-> d.pub,
         delta |-> d.delta]

AdjustYsForDelta(ys, delta) ==
    IF delta = 0 THEN ys
    ELSE [i \in DOMAIN ys |-> (ys[i] + BaseMult(delta)) % Order]

\* RunSignSession takes the material for exactly these participants;
\* RunSign moves the refreshed share and the partial keys along the path.
RunSignECDSA(i, p, path) ==
    LET m   == material[i][p]
        adj == AdjustShareAndPubKeyForPath(m.share, RootPub,
                                           RootKeyID, path)
    IN  IF m = NoMaterial THEN Refused
        ELSE IF ~Clones(m) \/ ~(p \subseteq DOMAIN m.pubs) \/ ~adj.ok
          THEN Refused
        ELSE [gen |-> m.gen, share |-> adj.share, pub |-> adj.pub,
              pubs |-> AdjustPartialPubsForDelta(
                         FilterParticipantMaps(p, m.pubs), adj.delta)]

\* FROST signs with the share of the DKG itself.
RunSignEd25519(i, p, path) ==
    LET adj == AdjustShareEd25519(Share(i), RootPub, RootKeyID, path)
    IN  IF ~ParsesYs(PartialPub) \/ ~adj.ok THEN Refused
        ELSE [gen |-> 0, share |-> adj.share, pub |-> adj.pub,
              pubs |-> AdjustYsForDelta(FilterYs(p, PartialPub), adj.delta)]

\* Node i handles the Start: what it brings to the protocol.  A node that is
\* still in a warm of the key answers that it is busy.
Bring(i, in) ==
    /\ task # NoTask /\ i \in task.nodes /\ input[i] = NoInput
    /\ input' = [input EXCEPT ![i] =
                   IF i \in warming \/ ~Admits(task.nodes, task.req)
                   THEN Refused ELSE in]
    /\ UNCHANGED <<key, material, warm, warming, warms, task, outcome>>

runSignNodeECDSA(i) ==
    /\ key # NoKey /\ key.alg = "ecdsa" /\ task # NoTask
    /\ Bring(i, RunSignECDSA(i, task.nodes, ToPath(task.req)))

runSignNodeFROST(i) ==
    /\ key # NoKey /\ key.alg = "ed25519" /\ task # NoTask
    /\ Bring(i, RunSignEd25519(i, task.nodes, ToPath(task.req)))

\* Alice (external): Lagrange interpolation at 0 over all ranks 0, with the
\* indices in their order ...
Inv(k) == CHOOSE y \in Scalar : (k * y) % Order = 1
Total(u) ==
    LET sum[n \in 0 .. Order - 1] ==
          IF n = 0 THEN 0 ELSE (sum[n - 1] + u[n]) % Order
    IN  sum[Order - 1]
Product(u) ==
    LET prod[n \in 0 .. Order - 1] ==
          IF n = 0 THEN 1 ELSE (prod[n - 1] * u[n]) % Order
    IN  prod[Order - 1]
Factors(p, i) ==
    [j \in XCoordinate |-> IF j \in p \ {i}
                           THEN (j * Inv((j - i) % Order)) % Order ELSE 1]
Weight(p, i) == Product(Factors(p, i))
Combine(p, f) ==
    Total([i \in XCoordinate |->
             IF i \in p THEN (f[i] * Weight(p, i)) % Order ELSE 0])

\* ... and the proofs of every node, checked against every node's view.
AliceAccepts(p, in) ==
    \A i \in p :
        /\ in[i].pub = in[CHOOSE j \in p : TRUE].pub
        /\ Combine(p, in[i].pubs) = in[i].pub
        /\ \A j \in p : in[i].pubs[j] = BaseMult(in[j].share)

SignEnd ==
    /\ task # NoTask
    /\ \A i \in task.nodes : input[i] # NoInput
    /\ LET p  == task.nodes
           go == \A i \in p : input[i] # Refused
       IN  outcome' = [req |-> task.req, brought |-> input, nodes |-> p,
                       ok |-> go /\ AliceAccepts(p, input),
                       signer |-> IF go
                         THEN Combine(p, [i \in p |-> input[i].share]) ELSE 0]
    /\ task' = NoTask
    /\ input' = [i \in Node |-> NoInput]
    /\ UNCHANGED <<key, material, warm, warming, warms>>
-----------------------------------------------------------------------------
(***************************************************************************)
(* Sign with a single key: runSingleSignLocal.                             *)
(***************************************************************************)
\* ValidateLoadedKey: the file belongs to the key and to the algorithm that
\* the Start names ("any" if it names none), and its private key to its
\* public key.
assertPrivateKeyMatchesRootPub(sk, pub) == BaseMult(sk) = pub
parseRootPrivateKey(sk, pub) ==
    sk > 0 /\ sk < Order /\ assertPrivateKeyMatchesRootPub(sk, pub)
ValidateLoadedKey(expectAlg) ==
    /\ expectAlg \in {"any", key.alg}
    /\ parseRootPrivateKey(key.poly[0], RootPub)

signHDIndices(req) == req.account >= 0 /\ req.change >= 0 /\ req.address >= 0

childPrivateKeyECDSA(sk, path) ==
    LET d == DeriveChildPubFromPath(RootPub, ChainCodeFromKeyID(RootKeyID),
                                    PathFromAccountAndAddress(path))
        child == (sk + d.delta) % Order
    IN  [ok |-> d.ok /\ child # 0, sk |-> child]

childPrivateKeyEd25519(sk, path) ==
    LET d == DeriveEd25519ChildPubFromPath(
               RootPub, ChainCodeFromKeyID(RootKeyID),
               PathFromAccountAndAddress(path))
        child == (sk + d.delta) % Order
    IN  [ok |-> d.ok /\ child # 0, sk |-> child]

\* runSingleSignLocal with what RunSign dispatches to.
SingleSign(req, expectAlg, child) ==
    /\ outcome' = [req |-> req, brought |-> input, nodes |-> {},
                   ok |-> /\ ValidateLoadedKey(expectAlg)
                          /\ signHDIndices(req) /\ child.ok,
                   signer |-> child.sk]
    /\ UNCHANGED <<key, material, warm, warming, warms, task, input>>

SignECDSA(req, expectAlg) ==
    /\ key # NoKey /\ key.kind = "single" /\ key.alg = "ecdsa"
    /\ SingleSign(req, expectAlg,
                  childPrivateKeyECDSA(key.poly[0], ToPath(req)))

SignEd25519(req, expectAlg) ==
    /\ key # NoKey /\ key.kind = "single" /\ key.alg = "ed25519"
    /\ SingleSign(req, expectAlg,
                  childPrivateKeyEd25519(key.poly[0], ToPath(req)))

Next ==
    \/ RunDKG \/ RunDKGEd25519 \/ KeygenECDSA \/ KeygenEd25519
    \/ \E p \in Participants : RunRefresh(p)
    \/ \E i \in Node : CommitWarm(i) \/ WarmFails(i)
    \/ \E i \in Node : runSignNodeECDSA(i) \/ runSignNodeFROST(i)
    \/ \E p \in Participants, req \in Request : SignStart(p, req)
    \/ SignEnd
    \/ \E req \in Request, a \in Algs \union {"any"} :
         SignECDSA(req, a) \/ SignEd25519(req, a)

Spec == Init /\ [][Next]_vars
-----------------------------------------------------------------------------
(***************************************************************************)
(* Properties.                                                             *)
(***************************************************************************)
InRange(req) == {req.account, req.change, req.address} \subseteq Index

\* What a client derives from the root public key as the address of req.
Address(req) ==
    IF key.alg = "ecdsa"
      THEN DeriveMPCHDAddress(RootPub, RootKeyID, req)
      ELSE DeriveMPCHDAddressEd25519(RootPub, NoKeyID, req)

\* VerifySignatureHex of mpc/ecdsa and of mpc/ed25519: the signer's key is
\* the one of the public key, which is a point of the curve: for secp256k1
\* the identity, (0, 0), is not, and for Ed25519 it was never encoded.
VerifyECDSA(pub, signer) == pub # 0 /\ BaseMult(signer) = pub
VerifyEd25519(pub, signer) == EncodesEd25519(pub) /\ BaseMult(signer) = pub

\* A signature verifies against the address that the wallet derives for the
\* path, from the root public key alone: for both curves, with one key or
\* with shares, for every set of participants, refreshed or not, whatever
\* warms were committed by some nodes only.
SignedByAddressKey ==
    outcome # NoTask /\ outcome.ok /\ InRange(outcome.req) =>
        /\ Address(outcome.req).ok
        /\ IF key.alg = "ecdsa"
             THEN VerifyECDSA(Address(outcome.req).pub, outcome.signer)
             ELSE VerifyEd25519(Address(outcome.req).pub, outcome.signer)

\* The key outlives its refreshes (RunRefresh, refresh.go:38; CommitWarm,
\* sign_material.go:141): any nodes that have committed the same one, as many
\* as the threshold, hold shares of the key that the DKG made, whatever
\* earlier refreshes each of them has missed.
RefreshKeepsKey ==
    \A p \in Participants : \A q \in SUBSET p :
        /\ Cardinality(q) >= Threshold
        /\ \A i \in q : material[i][p] # NoMaterial
        /\ \A i, j \in q : material[i][p].gen = material[j][p].gen
        => Combine(q, [i \in q |-> material[i][p].share]) = key.poly[0]

\* Nodes that bring shares of the same refresh, at whatever moments, agree on
\* the public key, and each one's view of another fits what that one brings:
\* a refresh that is committed in between on some of them does not mix
\* (sign_material.go:103-106, hd_adjust.go:13 of alg_ecdsa).
ViewsAgree ==
    \A i, j \in Node :
        /\ {input[i], input[j]} \intersect {NoInput, Refused} = {}
        /\ input[i].gen = input[j].gen
        => /\ input[i].pub = input[j].pub
           /\ input[i].pubs[j] = BaseMult(input[j].share)

SameGeneration(o) ==
    \A i, j \in o.nodes : /\ o.brought[i] # Refused
                          /\ o.brought[i].gen = o.brought[j].gen

\* hd_adjust.go:13 (of alg_ecdsa): share, public key and partial public keys
\* that the nodes bring always fit together when they come from the same
\* refresh, so that the protocol does not fail on a path: Alice would only
\* say that a proof is wrong.
ConsistentInputsSign ==
    outcome # NoTask /\ outcome.nodes # {} /\ SameGeneration(outcome)
        => outcome.ok
=============================================================================

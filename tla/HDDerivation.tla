---------------------------- MODULE HDDerivation ----------------------------
(***************************************************************************)
(* Non-hardened derivation of child keys (mpc/hd), for secp256k1 and for   *)
(* Ed25519.  A point k*G of the group is modelled by k, so that the group  *)
(* operation is addition modulo the order and 0 is the identity; the code  *)
(* adds points and the model shows what the sum is.  HMAC-SHA512 and       *)
(* SHA-256 are arbitrary functions.                                        *)
(***************************************************************************)
EXTENDS Integers, Sequences

CONSTANTS
    Order,      \* n, the order of the group
    Width,      \* a path element is a uint32: 0 .. Width - 1 (2^32)
    Hardened,   \* the first hardened index (0x80000000)
    CC,         \* chain codes
    Mac,        \* HMAC-SHA512 of a chain code, a public key and an index
    KeyID,
    KeyIDOf,    \* SHA-256 of a public key
    ChainCode,  \* SHA-256 of a key id (ChainCodeFromKeyID)
    NoKeyID     \* the empty string

Scalar == 0 .. Order - 1
Index  == 0 .. Width - 1

ASSUME OrderAssumption == Order \in Nat /\ Order > 1
ASSUME IndexAssumption == Width \in Nat \ {0} /\ Hardened \in 0 .. Width
ASSUME HashAssumption ==
    /\ Mac \in [CC \X Scalar \X Index -> [il : Nat, cc : CC]]
    /\ KeyIDOf \in [Scalar -> KeyID]
    /\ \A p, q \in Scalar : KeyIDOf[p] = KeyIDOf[q] => p = q
    /\ ChainCode \in [KeyID -> CC]
    /\ NoKeyID \notin KeyID

\* Key ids and chain codes.  The key id hashes the coordinates, or the
\* encoded Ed25519 key, and is only defined for a key of that curve.
KeyIDFromPubXY(pub) == KeyIDOf[pub]
KeyIDFromEd25519PubHex(pub) == KeyIDOf[pub]
ChainCodeFromKeyID(keyID) == ChainCode[keyID]
-----------------------------------------------------------------------------
\* Points: addPubScalar and scalarBaseMult.
BaseMult(k) == k % Order
addPubScalar(pub, k) == (pub + BaseMult(k)) % Order

\* The same on Alice's points, for Ed25519.
addEd25519Scalar(pub, k) == (pub + BaseMult(k)) % Order

\* EncodeEd25519PubKey refuses the identity.
EncodesEd25519(pub) == pub # 0

PathFromAccountIndex(account) == <<account>>
PathFromAccountAndAddress(path) == <<path.account, path.change, path.address>>

\* A plausible bug: the tweak of the last element alone is returned.
ChildLastDelta(node, index) ==
    LET m == Mac[<<node.cc, node.pub, index>>] IN
    [ok    |-> node.ok /\ index < Hardened /\ m.il < Order,
     delta |-> m.il % Order,
     pub   |-> addPubScalar(node.pub, m.il),
     cc    |-> m.cc]

\* One element of the path: the body of the loop in DeriveChildPubFromPath.
Child(node, index) ==
    LET m == Mac[<<node.cc, node.pub, index>>] IN
    [ok    |-> node.ok /\ index < Hardened /\ m.il < Order,
     delta |-> (node.delta + m.il) % Order,
     pub   |-> addPubScalar(node.pub, m.il),
     cc    |-> m.cc]

DeriveChildPubFromPath(root, cc, path) ==
    LET walk[i \in 0 .. Len(path)] ==
          IF i = 0 THEN [ok |-> path # <<>>, delta |-> 0, pub |-> root,
                         cc |-> cc]
          ELSE Child(walk[i - 1], path[i])
    IN  walk[Len(path)]

\* On Ed25519 the tweak is reduced instead of refused, a zero is refused,
\* and so is the identity as a parent.
ChildEd25519(node, index) ==
    LET m  == Mac[<<node.cc, node.pub, index>>]
        il == m.il % Order
    IN  [ok    |-> /\ node.ok /\ index < Hardened
                   /\ EncodesEd25519(node.pub) /\ il # 0,
         delta |-> (node.delta + il) % Order,
         pub   |-> addEd25519Scalar(node.pub, il),
         cc    |-> m.cc]

DeriveEd25519ChildPubFromPath(root, cc, path) ==
    LET walk[i \in 0 .. Len(path)] ==
          IF i = 0 THEN [ok |-> path # <<>>, delta |-> 0, pub |-> root,
                         cc |-> cc]
          ELSE ChildEd25519(walk[i - 1], path[i])
        last == walk[Len(path)]
    IN  [last EXCEPT !.ok = @ /\ EncodesEd25519(last.pub)]
-----------------------------------------------------------------------------
(***************************************************************************)
(* The wallet, account and address layers: what a client that knows the    *)
(* root public key publishes as the address of a path.                     *)
(***************************************************************************)
\* The key id is optional; one that is given must belong to the root.
deriveWalletLayer(root, keyID) ==
    [ok |-> keyID \in {NoKeyID, KeyIDFromPubXY(root)},
     keyID |-> KeyIDFromPubXY(root)]

DeriveMPCHDAccount(root, keyID, account) ==
    LET wallet == deriveWalletLayer(root, keyID)
        child  == DeriveChildPubFromPath(root,
                    ChainCodeFromKeyID(wallet.keyID),
                    PathFromAccountIndex(account))
    IN  [ok |-> wallet.ok /\ child.ok, keyID |-> wallet.keyID,
         pub |-> child.pub]

\* The address is derived from the root again, but only if the account is.
DeriveMPCHDAddress(root, keyID, path) ==
    LET account == DeriveMPCHDAccount(root, keyID, path.account)
        child   == DeriveChildPubFromPath(root,
                     ChainCodeFromKeyID(account.keyID),
                     PathFromAccountAndAddress(path))
    IN  [ok |-> account.ok /\ child.ok, pub |-> child.pub]

DeriveMPCHDAccountEd25519(root, keyID, account) ==
    LET id     == KeyIDFromEd25519PubHex(root)
        wallet == [ok |-> keyID \in {NoKeyID, id}, keyID |-> id]
        child  == DeriveEd25519ChildPubFromPath(
                    root, ChainCodeFromKeyID(wallet.keyID),
                    PathFromAccountIndex(account))
    IN  [ok |-> wallet.ok /\ child.ok, keyID |-> wallet.keyID,
         pub |-> child.pub]

DeriveMPCHDAddressEd25519(root, keyID, path) ==
    LET account == DeriveMPCHDAccountEd25519(root, keyID, path.account)
        child   == DeriveEd25519ChildPubFromPath(
                     root, ChainCodeFromKeyID(account.keyID),
                     PathFromAccountAndAddress(path))
    IN  [ok |-> account.ok /\ child.ok, pub |-> child.pub]
=============================================================================

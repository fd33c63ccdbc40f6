---------------------------- MODULE KeySharesMC ----------------------------
(***************************************************************************)
(* An instance of KeyShares for TLC: a group of order 5, three nodes of    *)
(* which two sign.                                                         *)
(***************************************************************************)
EXTENDS KeyShares

\* Some hash functions.  Tweaks from 0 to Order + 1 occur: zero, and those
\* that are not below the order.
MCMac == [x \in CC \X Scalar \X Index |->
            [il |-> (5 * x[1] + 2 * x[2] + 2 * x[3]) % (Order + 2),
             cc |-> (x[1] + x[2] + x[3]) % 2]]
MCKeyIDOf   == [p \in Scalar |-> 100 + p]
MCKeyID     == {100 + p : p \in Scalar}
MCChainCode == [k \in MCKeyID |-> (k \div 2) % 2]

MCParticipants == {{3}, {1, 2}, {2, 3}, {1, 2, 3}}

\* Width is 4 and Hardened 2: paths that can be derived, a hardened one, a
\* negative one, and one that does not fit into a uint32.
MCRequest ==
    {[account |-> 0, change |-> 0, address |-> 1],
     [account |-> 1, change |-> 0, address |-> 0]}
    \union {[account |-> 0, change |-> 2, address |-> 0],
            [account |-> 1, change |-> -1, address |-> 0],
            [account |-> 4, change |-> 0, address |-> 5]}
=============================================================================

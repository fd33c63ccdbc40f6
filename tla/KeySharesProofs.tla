-------------------------- MODULE KeySharesProofs --------------------------
(***************************************************************************)
(* A signature belongs to the address that the wallet derives, for every   *)
(* group order, every hash function, any nodes, threshold and participants *)
(* and any number of refreshes.                                            *)
(*                                                                         *)
(* The library's induction theorems have operators as parameters, which    *)
(* the provers do not instantiate.  Induction is done here with the least  *)
(* element of the set of counterexamples (WFMin), and a recursive function *)
(* is shown to exist by one lemma about functions, RecursionExists.        *)
(***************************************************************************)
EXTENDS KeyShares, FiniteSetTheorems, WellFoundedInduction, TLAPS

-----------------------------------------------------------------------------
(***************************************************************************)
(* Induction and arithmetic modulo n.                                      *)
(***************************************************************************)
\* A set of natural numbers that is not empty has a least element.
LEMMA LeastNatural ==
  ASSUME NEW T \in SUBSET Nat, T # {}
  PROVE  \E m \in T : \A k \in T : m <= k
<1>1. PICK m \in T : \A k \in T : ~(<<k, m>> \in OpToRel(<, Nat))
  BY NatLessThanWellFounded, WFMin, Zenon
<1>2. \A k \in T : ~(k < m)
  BY <1>1 DEF OpToRel
<1> QED BY <1>2

\* The remainder is determined by its range.
LEMMA ModUnique ==
  ASSUME NEW n \in Nat, n > 0, NEW q \in Int, NEW r \in 0 .. n - 1
  PROVE  (n * q + r) % n = r
<1> DEFINE a == n * q + r
           d == a \div n
           m == a % n
<1>1. a \in Int /\ d \in Int /\ m \in 0 .. n - 1 /\ a = n * d + m
  OBVIOUS
<1>2. n * (q - d) = m - r
  BY <1>1
<1> QED BY <1>1, <1>2

\* Division with remainder.
LEMMA DivMod ==
  ASSUME NEW n \in Nat, n > 0, NEW a \in Int
  PROVE  \E d \in Int, m \in 0 .. n - 1 : a = n * d + m /\ m = a % n
<1> DEFINE d == a \div n
           m == a % n
<1>1. n * d + m = a
  OBVIOUS
<1>2. d \in Int /\ m \in 0 .. n - 1
  OBVIOUS
<1>3. m = a % n
  OBVIOUS
<1> HIDE DEF d, m
<1>4. a = n * d + m
  BY <1>1, <1>2
<1> QED BY <1>2, <1>3, <1>4

\* A sum may be reduced in between.
LEMMA ModAdd ==
  ASSUME NEW n \in Nat, n > 0, NEW a \in Int, NEW b \in Int
  PROVE  ((a % n) + b) % n = (a + b) % n
<1>1. PICK d \in Int, m \in 0 .. n - 1 : a = n * d + m /\ m = a % n
  BY DivMod
<1>2. PICK e \in Int, r \in 0 .. n - 1 : m + b = n * e + r /\ r = (m + b) % n
  <2>1. m + b \in Int
    OBVIOUS
  <2> QED BY <2>1, DivMod
<1>3. a + b = n * (d + e) + r
  BY <1>1, <1>2
<1>4. d + e \in Int
  OBVIOUS
<1>5. (a + b) % n = r
  BY <1>3, <1>4, ModUnique
<1> QED BY <1>1, <1>2, <1>5

\* What is reduced already does not change.
LEMMA ModSmall ==
  ASSUME NEW x \in Scalar
  PROVE  x % Order = x
<1>1. Order * 0 + x = x
  BY OrderAssumption DEF Scalar
<1> QED BY <1>1, ModUnique, OrderAssumption DEF Scalar

\* Reducing gives a scalar.
LEMMA ModScalar ==
  ASSUME NEW x \in Int
  PROVE  x % Order \in Scalar
BY OrderAssumption DEF Scalar

\* w is the function on 0 .. N that begins with s and has F as its step.
Recursion(w, N, X, s, F) ==
    /\ w \in [0 .. N -> X] /\ w[0] = s
    /\ \A i \in 1 .. N : w[i] = F[<<w[i - 1], i>>]

\* A function defined by recursion on 0 .. N exists.
LEMMA RecursionExists ==
  ASSUME NEW N \in Nat, NEW X, NEW s \in X,
         NEW F \in [X \X (1 .. N) -> X]
  PROVE  \E w : Recursion(w, N, X, s, F)
<1> DEFINE Good(n, w) == /\ w \in [0 .. n -> X] /\ w[0] = s
                         /\ \A i \in 1 .. n : w[i] = F[<<w[i - 1], i>>]
           T == {n \in 0 .. N : ~ \E w : Good(n, w)}
<1>1. SUFFICES T = {}
  <2>1. ASSUME T = {} PROVE \E w : Good(N, w)
    <3> HIDE DEF Good
    <3> QED BY <2>1
  <2> QED BY <1>1, <2>1 DEF Recursion
<1>2. SUFFICES ASSUME T # {} PROVE FALSE
  OBVIOUS
<1>3. T \in SUBSET Nat
  OBVIOUS
<1>4. PICK m \in T : \A k \in T : m <= k
  BY <1>2, <1>3, LeastNatural
<1>5. Good(0, [i \in 0 .. 0 |-> s])
  OBVIOUS
<1>6. m # 0
  BY <1>5
<1>7. m - 1 \in 0 .. N /\ m - 1 \notin T
  BY <1>4, <1>6
<1>8. PICK v : Good(m - 1, v)
  BY <1>7
<1> DEFINE w == [i \in 0 .. m |-> IF i = m THEN F[<<v[m - 1], m>>] ELSE v[i]]
<1>9. F[<<v[m - 1], m>>] \in X
  BY <1>6, <1>7, <1>8
<1>10. w \in [0 .. m -> X]
  BY <1>8, <1>9
<1>11. w[0] = s
  BY <1>6, <1>7, <1>8
<1>12. ASSUME NEW i \in 1 .. m PROVE w[i] = F[<<w[i - 1], i>>]
  <2>1. w[i - 1] = v[i - 1]
    BY <1>6, <1>7
  <2>2. CASE i = m
    <3>1. w[m] = F[<<v[m - 1], m>>]
      BY <1>7
    <3> HIDE DEF w
    <3> QED BY <2>1, <2>2, <3>1
  <2>3. CASE i # m
    <3>1. w[i] = v[i] /\ i \in 1 .. m - 1
      BY <2>3
    <3> QED BY <1>8, <2>1, <3>1
  <2> QED BY <2>2, <2>3
<1>13. Good(m, w)
  BY <1>10, <1>11, <1>12
<1> QED BY <1>13
-----------------------------------------------------------------------------
(***************************************************************************)
(* The recursive definitions: polynomials and paths.                       *)
(***************************************************************************)
\* h holds the steps of Horner's scheme for f at x.
IsHorner(f, x, h) ==
    /\ h \in [0 .. Threshold -> Scalar] /\ h[0] = 0
    /\ \A d \in 1 .. Threshold :
         h[d] = (h[d - 1] * x + f[Threshold - d]) % Order

\* Horner's scheme has such steps, and the last one is the value.
LEMMA EvalEquation ==
  ASSUME NEW f \in Polynomial, NEW x \in Int
  PROVE  \E h : IsHorner(f, x, h) /\ Eval(f, x) = h[Threshold]
<1> DEFINE Body(h, d) == IF d = 0 THEN 0
                         ELSE (h[d - 1] * x + f[Threshold - d]) % Order
           H == CHOOSE h : h = [d \in 0 .. Threshold |-> Body(h, d)]
           F == [vi \in Scalar \X (1 .. Threshold) |->
                   (vi[1] * x + f[Threshold - vi[2]]) % Order]
<1>0. /\ Threshold \in Nat /\ Threshold > 0
      /\ 0 \in Scalar /\ Scalar \subseteq Int
  BY ShareAssumption, OrderAssumption DEF Scalar
<1>1. Eval(f, x) = H[Threshold]
  BY Zenon DEF Eval
<1>2. ASSUME NEW v \in Scalar, NEW i \in 1 .. Threshold
      PROVE  (v * x + f[Threshold - i]) % Order \in Scalar
  <2>1. f[Threshold - i] \in Scalar
    BY <1>0 DEF Polynomial
  <2> DEFINE b == f[Threshold - i]
  <2>2. v * x + b \in Int
    <3>1. v \in Int /\ b \in Int
      BY <2>1, <1>0
    <3> HIDE DEF b
    <3> QED BY <3>1
  <2> QED BY <2>2, ModScalar
<1>3. F \in [Scalar \X (1 .. Threshold) -> Scalar]
  BY <1>2
<1>4. PICK w : Recursion(w, Threshold, Scalar, 0, F)
  <2> HIDE DEF F
  <2> QED BY <1>0, <1>3, RecursionExists, Zenon
<1> USE DEF Recursion
<1>5. ASSUME NEW d \in 0 .. Threshold PROVE w[d] = Body(w, d)
  <2>1. CASE d = 0
    BY <1>4, <2>1
  <2>2. CASE d # 0
    <3>0. d \in 1 .. Threshold /\ d - 1 \in 0 .. Threshold
      BY <1>0, <2>2
    <3>1. d \in 1 .. Threshold /\ w[d - 1] \in Scalar
      BY <1>4, <3>0
    <3>2. F[<<w[d - 1], d>>] = (w[d - 1] * x + f[Threshold - d]) % Order
      BY <3>1
    <3> QED BY <1>4, <3>1, <3>2, <2>2
  <2> QED BY <2>1, <2>2
<1>6. w = [d \in 0 .. Threshold |-> Body(w, d)]
  BY <1>4, <1>5
<1>7. H = [d \in 0 .. Threshold |-> Body(H, d)]
  <2> HIDE DEF Body
  <2> QED BY <1>6, Zenon
<1> HIDE DEF H
<1>8. /\ H[0] = 0
      /\ \A d \in 1 .. Threshold :
           H[d] = (H[d - 1] * x + f[Threshold - d]) % Order
  <2>1. \A d \in 0 .. Threshold : H[d] = Body(H, d)
    <3> HIDE DEF Body
    <3> QED BY <1>7, Zenon
  <2>2. 0 \in 0 .. Threshold /\ 1 .. Threshold \subseteq 0 .. Threshold
    BY <1>0
  <2>3. \A d \in 1 .. Threshold : d # 0
    BY <1>0
  <2> QED BY <2>1, <2>2, <2>3
<1> DEFINE T == {d \in 0 .. Threshold : H[d] \notin Scalar}
<1>9. T = {}
  <2> SUFFICES ASSUME T # {} PROVE FALSE
    OBVIOUS
  <2>1. T \in SUBSET Nat
    OBVIOUS
  <2>2. PICK m \in T : \A k \in T : m <= k
    BY <2>1, LeastNatural
  <2>3. m # 0 /\ m \in 1 .. Threshold /\ m - 1 \in 0 .. Threshold
    BY <1>8, <1>0
  <2>4. H[m - 1] \in Scalar
    BY <2>2, <2>3
  <2> QED BY <1>2, <1>8, <2>3, <2>4
<1>10. H \in [0 .. Threshold -> Scalar]
  <2> HIDE DEF Body
  <2>1. \A d \in 0 .. Threshold : H[d] \in Scalar
    BY <1>9
  <2> QED BY <1>7, <2>1
<1> QED BY <1>1, <1>8, <1>10 DEF IsHorner

\* The value of a polynomial is a scalar.
LEMMA EvalType ==
  ASSUME NEW f \in Polynomial, NEW x \in Int
  PROVE  Eval(f, x) \in Scalar
BY EvalEquation, ShareAssumption DEF IsHorner

\* What the walk along a path carries.
HDNode == [ok : BOOLEAN, delta : Scalar, pub : Scalar, cc : CC]

\* A child is such a node again.
LEMMA ChildType ==
  ASSUME NEW v \in HDNode, NEW i \in Index
  PROVE  Child(v, i) \in HDNode
<1> DEFINE m == Mac[<<v.cc, v.pub, i>>]
<1>1. v.cc \in CC /\ v.pub \in Scalar /\ v.delta \in Scalar
  BY DEF HDNode
<1>2. m \in [il : Nat, cc : CC]
  BY <1>1, HashAssumption
<1>3. v.delta \in Int /\ v.pub \in Int /\ m.il \in Nat /\ m.cc \in CC
  BY <1>1, <1>2, OrderAssumption DEF Scalar
<1> HIDE DEF m
<1>4. (v.delta + m.il) % Order \in Scalar
  BY <1>3, ModScalar
<1>5. addPubScalar(v.pub, m.il) \in Scalar
  BY <1>3, ModScalar, OrderAssumption DEF addPubScalar, BaseMult
<1>6. Child(v, i) = [ok    |-> v.ok /\ i < Hardened /\ m.il < Order,
                     delta |-> (v.delta + m.il) % Order,
                     pub   |-> addPubScalar(v.pub, m.il),
                     cc    |-> m.cc]
  BY DEF Child, m
<1>7. (v.ok /\ i < Hardened /\ m.il < Order) \in BOOLEAN
  OBVIOUS
<1> QED BY <1>3, <1>4, <1>5, <1>6, <1>7 DEF HDNode

\* The same on Ed25519.
LEMMA ChildEd25519Type ==
  ASSUME NEW v \in HDNode, NEW i \in Index
  PROVE  ChildEd25519(v, i) \in HDNode
<1> DEFINE m  == Mac[<<v.cc, v.pub, i>>]
           il == m.il % Order
<1>1. v.cc \in CC /\ v.pub \in Scalar /\ v.delta \in Scalar
  BY DEF HDNode
<1>2. m \in [il : Nat, cc : CC]
  BY <1>1, HashAssumption
<1>3. v.delta \in Int /\ v.pub \in Int /\ il \in Nat /\ m.cc \in CC
  BY <1>1, <1>2, OrderAssumption DEF Scalar
<1>4. ChildEd25519(v, i) =
        [ok    |-> /\ v.ok /\ i < Hardened
                   /\ EncodesEd25519(v.pub) /\ il # 0,
         delta |-> (v.delta + il) % Order,
         pub   |-> addEd25519Scalar(v.pub, il),
         cc    |-> m.cc]
  BY DEF ChildEd25519
<1> HIDE DEF m, il
<1>5. (v.delta + il) % Order \in Scalar
  BY <1>3, ModScalar
<1>6. addEd25519Scalar(v.pub, il) \in Scalar
  BY <1>3, ModScalar, OrderAssumption DEF addEd25519Scalar, BaseMult
<1>7. (/\ v.ok /\ i < Hardened
       /\ EncodesEd25519(v.pub) /\ il # 0) \in BOOLEAN
  OBVIOUS
<1> QED BY <1>3, <1>4, <1>5, <1>6, <1>7 DEF HDNode

\* The keys along a path.
Walk(w, root, cc, path, N) ==
    /\ w[0] = [ok |-> path # <<>>, delta |-> 0, pub |-> root, cc |-> cc]
    /\ \A i \in 1 .. N : w[i] = Child(w[i - 1], path[i])

\* DeriveChildPubFromPath goes from child to child.
LEMMA WalkEquation ==
  ASSUME NEW root \in Scalar, NEW cc \in CC, NEW N \in Nat,
         NEW path \in [1 .. N -> Index], Len(path) = N
  PROVE  \E w :
           /\ Walk(w, root, cc, path, N)
           /\ DeriveChildPubFromPath(root, cc, path) = w[N]
<1> DEFINE s == [ok |-> path # <<>>, delta |-> 0, pub |-> root, cc |-> cc]
           Body(h, i) == IF i = 0 THEN s ELSE Child(h[i - 1], path[i])
           W == CHOOSE h : h = [i \in 0 .. Len(path) |-> Body(h, i)]
           F == [vi \in HDNode \X (1 .. N) |-> Child(vi[1], path[vi[2]])]
<1>0. s \in HDNode
  <2>1. 0 \in Scalar
    BY OrderAssumption DEF Scalar
  <2>2. (path # <<>>) \in BOOLEAN
    OBVIOUS
  <2> QED BY <2>1, <2>2 DEF HDNode
<1>1. DeriveChildPubFromPath(root, cc, path) = W[Len(path)]
  BY Zenon DEF DeriveChildPubFromPath
<1>2. ASSUME NEW v \in HDNode, NEW i \in 1 .. N
      PROVE  Child(v, path[i]) \in HDNode
  BY ChildType
<1>3. F \in [HDNode \X (1 .. N) -> HDNode]
  BY <1>2
<1> HIDE DEF s
<1>4. PICK w : Recursion(w, N, HDNode, s, F)
  <2> HIDE DEF F
  <2> QED BY <1>0, <1>3, RecursionExists, Zenon
<1>5. ASSUME NEW i \in 0 .. Len(path) PROVE w[i] = Body(w, i)
  <2>1. CASE i = 0
    BY <1>4, <2>1 DEF Recursion
  <2>2. CASE i # 0
    <3>1. i \in 1 .. N /\ w[i - 1] \in HDNode
      BY <1>4, <2>2 DEF Recursion
    <3>2. F[<<w[i - 1], i>>] = Child(w[i - 1], path[i])
      BY <3>1
    <3> QED BY <1>4, <2>2, <3>1, <3>2 DEF Recursion
  <2> QED BY <2>1, <2>2
<1>6. w = [i \in 0 .. Len(path) |-> Body(w, i)]
  BY <1>4, <1>5 DEF Recursion
<1>7. W = [i \in 0 .. Len(path) |-> Body(W, i)]
  <2> HIDE DEF Body
  <2> QED BY <1>6, Zenon
<1> HIDE DEF W
<1>8. \A i \in 0 .. Len(path) : W[i] = Body(W, i)
  <2> HIDE DEF Body
  <2> QED BY <1>7, Zenon
<1>9. /\ 0 \in 0 .. Len(path)
      /\ \A i \in 1 .. N : i \in 0 .. Len(path) /\ i # 0
  OBVIOUS
<1>10. W[0] = s /\ \A i \in 1 .. N : W[i] = Child(W[i - 1], path[i])
  BY <1>8, <1>9
<1> QED BY <1>1, <1>10 DEF s, Walk

\* The test of the last key of a path.
LastEd25519(v) == [v EXCEPT !.ok = @ /\ EncodesEd25519(v.pub)]

\* The keys along a path of Ed25519.
WalkEd25519(w, root, cc, path, N) ==
    /\ w[0] = [ok |-> path # <<>>, delta |-> 0, pub |-> root, cc |-> cc]
    /\ \A i \in 1 .. N : w[i] = ChildEd25519(w[i - 1], path[i])

\* The same on Ed25519, where the last key is tested as well.
LEMMA WalkEd25519Equation ==
  ASSUME NEW root \in Scalar, NEW cc \in CC, NEW N \in Nat,
         NEW path \in [1 .. N -> Index], Len(path) = N
  PROVE  \E w :
           /\ WalkEd25519(w, root, cc, path, N)
           /\ DeriveEd25519ChildPubFromPath(root, cc, path)
                = LastEd25519(w[N])
<1> DEFINE s == [ok |-> path # <<>>, delta |-> 0, pub |-> root, cc |-> cc]
           Body(h, i) == IF i = 0 THEN s ELSE ChildEd25519(h[i - 1], path[i])
           W == CHOOSE h : h = [i \in 0 .. Len(path) |-> Body(h, i)]
           F == [vi \in HDNode \X (1 .. N) |->
                   ChildEd25519(vi[1], path[vi[2]])]
<1>0. s \in HDNode
  <2>1. 0 \in Scalar
    BY OrderAssumption DEF Scalar
  <2>2. (path # <<>>) \in BOOLEAN
    OBVIOUS
  <2> QED BY <2>1, <2>2 DEF HDNode
<1>1. DeriveEd25519ChildPubFromPath(root, cc, path)
        = LastEd25519(W[Len(path)])
  BY Zenon DEF DeriveEd25519ChildPubFromPath, LastEd25519
<1>2. ASSUME NEW v \in HDNode, NEW i \in 1 .. N
      PROVE  ChildEd25519(v, path[i]) \in HDNode
  BY ChildEd25519Type
<1>3. F \in [HDNode \X (1 .. N) -> HDNode]
  BY <1>2
<1> HIDE DEF s
<1>4. PICK w : Recursion(w, N, HDNode, s, F)
  <2> HIDE DEF F
  <2> QED BY <1>0, <1>3, RecursionExists, Zenon
<1>5. ASSUME NEW i \in 0 .. Len(path) PROVE w[i] = Body(w, i)
  <2>1. CASE i = 0
    BY <1>4, <2>1 DEF Recursion
  <2>2. CASE i # 0
    <3>1. i \in 1 .. N /\ w[i - 1] \in HDNode
      BY <1>4, <2>2 DEF Recursion
    <3>2. F[<<w[i - 1], i>>] = ChildEd25519(w[i - 1], path[i])
      BY <3>1
    <3> QED BY <1>4, <2>2, <3>1, <3>2 DEF Recursion
  <2> QED BY <2>1, <2>2
<1>6. w = [i \in 0 .. Len(path) |-> Body(w, i)]
  BY <1>4, <1>5 DEF Recursion
<1>7. W = [i \in 0 .. Len(path) |-> Body(W, i)]
  <2> HIDE DEF Body
  <2> QED BY <1>6, Zenon
<1> HIDE DEF W
<1>8. \A i \in 0 .. Len(path) : W[i] = Body(W, i)
  <2> HIDE DEF Body
  <2> QED BY <1>7, Zenon
<1>9. /\ 0 \in 0 .. Len(path)
      /\ \A i \in 1 .. N : i \in 0 .. Len(path) /\ i # 0
  OBVIOUS
<1>10. W[0] = s /\ \A i \in 1 .. N : W[i] = ChildEd25519(W[i - 1], path[i])
  BY <1>8, <1>9
<1> QED BY <1>1, <1>10 DEF s, WalkEd25519

\* The node where a walk begins, on a path that is not empty.
RootNode(root, cc) == [ok |-> TRUE, delta |-> 0, pub |-> root, cc |-> cc]

\* The account's key is one child away from the root ...
LEMMA DeriveAccount ==
  ASSUME NEW root \in Scalar, NEW cc \in CC, NEW a \in Index
  PROVE  DeriveChildPubFromPath(root, cc, <<a>>) = Child(RootNode(root, cc), a)
<1> DEFINE p == <<a>>
<1>1. /\ 1 \in Nat /\ p \in [1 .. 1 -> Index] /\ Len(p) = 1 /\ p # <<>>
      /\ p[1] = a
  OBVIOUS
<1> HIDE DEF p
<1>2. PICK w : /\ Walk(w, root, cc, p, 1)
               /\ DeriveChildPubFromPath(root, cc, p) = w[1]
  BY <1>1, WalkEquation, Zenon
<1>3. w[0] = RootNode(root, cc)
  BY <1>1, <1>2, Zenon DEF Walk, RootNode
<1>4. w[1] = Child(w[0], a)
  BY <1>1, <1>2 DEF Walk
<1> QED BY <1>2, <1>3, <1>4 DEF p

\* ... and the address's key three.
LEMMA DeriveAddress ==
  ASSUME NEW root \in Scalar, NEW cc \in CC, NEW a \in Index,
         NEW b \in Index, NEW c \in Index
  PROVE  DeriveChildPubFromPath(root, cc, <<a, b, c>>)
           = Child(Child(Child(RootNode(root, cc), a), b), c)
<1> DEFINE p == <<a, b, c>>
<1>1. /\ 3 \in Nat /\ p \in [1 .. 3 -> Index] /\ Len(p) = 3 /\ p # <<>>
      /\ p[1] = a /\ p[2] = b /\ p[3] = c
  OBVIOUS
<1> HIDE DEF p
<1>2. PICK w : /\ Walk(w, root, cc, p, 3)
               /\ DeriveChildPubFromPath(root, cc, p) = w[3]
  BY <1>1, WalkEquation, Zenon
<1>3. w[0] = RootNode(root, cc)
  BY <1>1, <1>2, Zenon DEF Walk, RootNode
<1>4. /\ w[1] = Child(w[0], a)
      /\ w[2] = Child(w[1], b) /\ w[3] = Child(w[2], c)
  BY <1>1, <1>2 DEF Walk
<1> QED BY <1>2, <1>3, <1>4 DEF p

\* The same two on Ed25519.
LEMMA DeriveAccountEd25519 ==
  ASSUME NEW root \in Scalar, NEW cc \in CC, NEW a \in Index
  PROVE  DeriveEd25519ChildPubFromPath(root, cc, <<a>>)
           = LastEd25519(ChildEd25519(RootNode(root, cc), a))
<1> DEFINE p == <<a>>
<1>1. /\ 1 \in Nat /\ p \in [1 .. 1 -> Index] /\ Len(p) = 1 /\ p # <<>>
      /\ p[1] = a
  OBVIOUS
<1> HIDE DEF p
<1>2. PICK w : /\ WalkEd25519(w, root, cc, p, 1)
               /\ DeriveEd25519ChildPubFromPath(root, cc, p)
                    = LastEd25519(w[1])
  BY <1>1, WalkEd25519Equation, Zenon
<1>3. w[0] = RootNode(root, cc)
  BY <1>1, <1>2, Zenon DEF WalkEd25519, RootNode
<1>4. w[1] = ChildEd25519(w[0], a)
  BY <1>1, <1>2 DEF WalkEd25519
<1> QED BY <1>2, <1>3, <1>4 DEF p

LEMMA DeriveAddressEd25519 ==
  ASSUME NEW root \in Scalar, NEW cc \in CC, NEW a \in Index,
         NEW b \in Index, NEW c \in Index
  PROVE  DeriveEd25519ChildPubFromPath(root, cc, <<a, b, c>>)
           = LastEd25519(ChildEd25519(ChildEd25519(ChildEd25519(
                           RootNode(root, cc), a), b), c))
<1> DEFINE p == <<a, b, c>>
<1>1. /\ 3 \in Nat /\ p \in [1 .. 3 -> Index] /\ Len(p) = 3 /\ p # <<>>
      /\ p[1] = a /\ p[2] = b /\ p[3] = c
  OBVIOUS
<1> HIDE DEF p
<1>2. PICK w : /\ WalkEd25519(w, root, cc, p, 3)
               /\ DeriveEd25519ChildPubFromPath(root, cc, p)
                    = LastEd25519(w[3])
  BY <1>1, WalkEd25519Equation, Zenon
<1>3. w[0] = RootNode(root, cc)
  BY <1>1, <1>2, Zenon DEF WalkEd25519, RootNode
<1>4. /\ w[1] = ChildEd25519(w[0], a)
      /\ w[2] = ChildEd25519(w[1], b) /\ w[3] = ChildEd25519(w[2], c)
  BY <1>1, <1>2 DEF WalkEd25519
<1> QED BY <1>2, <1>3, <1>4 DEF p
-----------------------------------------------------------------------------
(***************************************************************************)
(* What a derived key is.                                                  *)
(***************************************************************************)
\* The order in which sums are reduced does not matter.
LEMMA MoveOne ==
  ASSUME NEW r \in Int, NEW d \in Int, NEW il \in Int
  PROVE  (((r + d) % Order) + (il % Order)) % Order = (r + d + il) % Order
<1> DEFINE x == (r + d) % Order
           y == il % Order
<1>0. Order \in Nat /\ Order > 0
  BY OrderAssumption
<1>1. x \in Int /\ y \in Int /\ r + d \in Int
  BY OrderAssumption
<1>2. (y + x) % Order = (il + x) % Order
  <2> HIDE DEF x
  <2> QED BY <1>0, <1>1, ModAdd, Zenon
<1>3. (x + il) % Order = (r + d + il) % Order
  BY <1>0, <1>1, ModAdd, Zenon
<1>4. x + y = y + x /\ x + il = il + x
  <2> HIDE DEF x, y
  <2> QED BY <1>1
<1> QED BY <1>2, <1>3, <1>4

\* The tweak of a path is what lies between the root key and the child: it
\* stays so from child to child.
LEMMA ChildMoves ==
  ASSUME NEW root \in Scalar, NEW v \in HDNode, NEW i \in Index,
         v.pub = (root + v.delta) % Order
  PROVE  LET c == Child(v, i)
         IN  c.pub = (root + c.delta) % Order /\ (c.ok => v.ok)
<1> DEFINE il == Mac[<<v.cc, v.pub, i>>].il
<1>1. v.cc \in CC /\ v.pub \in Scalar /\ v.delta \in Scalar
  BY DEF HDNode
<1>2. Mac[<<v.cc, v.pub, i>>] \in [il : Nat, cc : CC]
  BY <1>1, HashAssumption
<1>3. v.delta \in Int /\ v.pub \in Int /\ root \in Int /\ il \in Nat
  BY <1>1, <1>2, OrderAssumption DEF Scalar
<1>4. /\ Child(v, i).pub = (v.pub + (il % Order)) % Order
      /\ Child(v, i).delta = (v.delta + il) % Order
      /\ Child(v, i).ok => v.ok
  BY DEF Child, addPubScalar, BaseMult
<1> DEFINE d == v.delta
           p == v.pub
<1> HIDE DEF il, d, p
<1>5. d \in Int /\ p \in Int /\ p = (root + d) % Order
  BY <1>3 DEF d, p
<1>6. (p + (il % Order)) % Order = (root + d + il) % Order
  BY <1>3, <1>5, MoveOne
<1>7. (root + ((d + il) % Order)) % Order = (root + d + il) % Order
  <2>0. Order \in Nat /\ Order > 0
    BY OrderAssumption
  <2>1. d + il \in Int
    BY <1>3, <1>5
  <2>2. (((d + il) % Order) + root) % Order = (d + il + root) % Order
    BY <2>0, <2>1, <1>3, ModAdd, Zenon
  <2>3. /\ (d + il) % Order \in Int
        /\ d + il + root = root + d + il
    BY <2>1, <1>3, <1>5, OrderAssumption
  <2> QED BY <1>3, <2>2, <2>3
<1> QED BY <1>4, <1>6, <1>7 DEF d, p

\* The same on Ed25519.
LEMMA ChildEd25519Moves ==
  ASSUME NEW root \in Scalar, NEW v \in HDNode, NEW i \in Index,
         v.pub = (root + v.delta) % Order
  PROVE  LET c == ChildEd25519(v, i)
         IN  /\ c.pub = (root + c.delta) % Order
             /\ c.ok => v.ok /\ EncodesEd25519(v.pub)
<1> DEFINE il == Mac[<<v.cc, v.pub, i>>].il % Order
<1>1. v.cc \in CC /\ v.pub \in Scalar /\ v.delta \in Scalar
  BY DEF HDNode
<1>2. Mac[<<v.cc, v.pub, i>>] \in [il : Nat, cc : CC]
  BY <1>1, HashAssumption
<1>3. v.delta \in Int /\ v.pub \in Int /\ root \in Int /\ il \in Nat
  BY <1>1, <1>2, OrderAssumption DEF Scalar
<1>4. /\ ChildEd25519(v, i).pub = (v.pub + (il % Order)) % Order
      /\ ChildEd25519(v, i).delta = (v.delta + il) % Order
      /\ ChildEd25519(v, i).ok => v.ok /\ EncodesEd25519(v.pub)
  BY DEF ChildEd25519, addEd25519Scalar, BaseMult
<1> DEFINE d == v.delta
           p == v.pub
<1> HIDE DEF il, d, p
<1>5. d \in Int /\ p \in Int /\ p = (root + d) % Order
  BY <1>3 DEF d, p
<1>6. (p + (il % Order)) % Order = (root + d + il) % Order
  BY <1>3, <1>5, MoveOne
<1>7. (root + ((d + il) % Order)) % Order = (root + d + il) % Order
  <2>0. Order \in Nat /\ Order > 0
    BY OrderAssumption
  <2>1. d + il \in Int
    BY <1>3, <1>5
  <2>2. (((d + il) % Order) + root) % Order = (d + il + root) % Order
    BY <2>0, <2>1, <1>3, ModAdd, Zenon
  <2>3. /\ (d + il) % Order \in Int
        /\ d + il + root = root + d + il
    BY <2>1, <1>3, <1>5, OrderAssumption
  <2> QED BY <1>3, <2>2, <2>3
<1> QED BY <1>4, <1>6, <1>7 DEF d, p

\* Every walk begins at the root, with no tweak.
LEMMA RootType ==
  ASSUME NEW root \in Scalar, NEW cc \in CC
  PROVE  /\ RootNode(root, cc) \in HDNode
         /\ RootNode(root, cc).pub
              = (root + RootNode(root, cc).delta) % Order
<1>1. 0 \in Scalar /\ root + 0 = root
  BY OrderAssumption DEF Scalar
<1>2. RootNode(root, cc) \in HDNode
  <2>1. TRUE \in BOOLEAN
    OBVIOUS
  <2> QED BY <1>1, <2>1 DEF RootNode, HDNode
<1>3. root % Order = root
  BY ModSmall
<1> QED BY <1>1, <1>2, <1>3 DEF RootNode

\* The key of an address lies the tweak away from the root, and who can
\* derive it can derive the account's (DeriveMPCHDAddress asks for both).
LEMMA PathKey ==
  ASSUME NEW root \in Scalar, NEW cc \in CC, NEW a \in Index,
         NEW b \in Index, NEW c \in Index
  PROVE  LET d == DeriveChildPubFromPath(root, cc, <<a, b, c>>)
         IN  /\ d \in HDNode
             /\ d.pub = (root + d.delta) % Order
             /\ d.ok => DeriveChildPubFromPath(root, cc, <<a>>).ok
<1> DEFINE v0 == RootNode(root, cc)
           v1 == Child(v0, a)
           v2 == Child(v1, b)
           v3 == Child(v2, c)
<1>1. v0 \in HDNode /\ v0.pub = (root + v0.delta) % Order
  BY RootType
<1> HIDE DEF v0
<1>2. v1 \in HDNode /\ v1.pub = (root + v1.delta) % Order
  BY <1>1, ChildType, ChildMoves
<1> HIDE DEF v1
<1>3. v2 \in HDNode /\ v2.pub = (root + v2.delta) % Order /\ (v2.ok => v1.ok)
  BY <1>2, ChildType, ChildMoves
<1> HIDE DEF v2
<1>4. v3 \in HDNode /\ v3.pub = (root + v3.delta) % Order /\ (v3.ok => v2.ok)
  BY <1>3, ChildType, ChildMoves
<1>5. DeriveChildPubFromPath(root, cc, <<a, b, c>>) = v3
  BY DeriveAddress DEF v0, v1, v2
<1>6. DeriveChildPubFromPath(root, cc, <<a>>) = v1
  BY DeriveAccount DEF v0, v1
<1> HIDE DEF v3
<1> QED BY <1>3, <1>4, <1>5, <1>6

\* The same on Ed25519.
LEMMA PathKeyEd25519 ==
  ASSUME NEW root \in Scalar, NEW cc \in CC, NEW a \in Index,
         NEW b \in Index, NEW c \in Index
  PROVE  LET d == DeriveEd25519ChildPubFromPath(root, cc, <<a, b, c>>)
         IN  /\ d \in HDNode
             /\ d.pub = (root + d.delta) % Order
             /\ d.ok => DeriveEd25519ChildPubFromPath(root, cc, <<a>>).ok
<1> DEFINE v0 == RootNode(root, cc)
           v1 == ChildEd25519(v0, a)
           v2 == ChildEd25519(v1, b)
           v3 == ChildEd25519(v2, c)
<1>1. v0 \in HDNode /\ v0.pub = (root + v0.delta) % Order
  BY RootType
<1> HIDE DEF v0
<1>2. v1 \in HDNode /\ v1.pub = (root + v1.delta) % Order
  BY <1>1, ChildEd25519Type, ChildEd25519Moves
<1> HIDE DEF v1
<1>3. /\ v2 \in HDNode /\ v2.pub = (root + v2.delta) % Order
      /\ v2.ok => v1.ok /\ EncodesEd25519(v1.pub)
  BY <1>2, ChildEd25519Type, ChildEd25519Moves
<1> HIDE DEF v2
<1>4. v3 \in HDNode /\ v3.pub = (root + v3.delta) % Order /\ (v3.ok => v2.ok)
  BY <1>3, ChildEd25519Type, ChildEd25519Moves
<1>5. DeriveEd25519ChildPubFromPath(root, cc, <<a, b, c>>) = LastEd25519(v3)
  BY DeriveAddressEd25519 DEF v0, v1, v2
<1>6. DeriveEd25519ChildPubFromPath(root, cc, <<a>>) = LastEd25519(v1)
  BY DeriveAccountEd25519 DEF v0, v1
<1> HIDE DEF v3
<1> DEFINE d == LastEd25519(v3)
<1>7. d \in HDNode /\ d.pub = v3.pub /\ d.delta = v3.delta
  BY <1>4 DEF LastEd25519, HDNode
<1>8. /\ d.ok => v3.ok
      /\ v1.ok /\ EncodesEd25519(v1.pub) => LastEd25519(v1).ok
  BY <1>2, <1>4 DEF LastEd25519, HDNode, EncodesEd25519
<1> HIDE DEF d
<1> QED BY <1>3, <1>4, <1>5, <1>6, <1>7, <1>8 DEF d

\* On Ed25519 a key that was derived is not the identity.
LEMMA NotIdentity ==
  ASSUME NEW root \in Scalar, NEW cc \in CC, NEW a \in Index,
         NEW b \in Index, NEW c \in Index,
         DeriveEd25519ChildPubFromPath(root, cc, <<a, b, c>>).ok
  PROVE  DeriveEd25519ChildPubFromPath(root, cc, <<a, b, c>>).pub # 0
<1> DEFINE d == DeriveEd25519ChildPubFromPath(root, cc, <<a, b, c>>)
           v == ChildEd25519(ChildEd25519(ChildEd25519(
                  RootNode(root, cc), a), b), c)
<1>1. d = LastEd25519(v)
  BY DeriveAddressEd25519
<1>2. v \in HDNode
  <2> DEFINE v0 == RootNode(root, cc)
             v1 == ChildEd25519(v0, a)
             v2 == ChildEd25519(v1, b)
  <2>1. v0 \in HDNode
    BY RootType
  <2>2. v1 \in HDNode
    <3> HIDE DEF v0
    <3> QED BY <2>1, ChildEd25519Type
  <2>3. v2 \in HDNode
    <3> HIDE DEF v1
    <3> QED BY <2>2, ChildEd25519Type
  <2> HIDE DEF v2
  <2> QED BY <2>3, ChildEd25519Type DEF v2
<1> HIDE DEF d, v
<1>3. LastEd25519(v).ok => v.pub # 0
  BY <1>2 DEF LastEd25519, HDNode, EncodesEd25519
<1>4. LastEd25519(v).pub = v.pub
  BY <1>2 DEF LastEd25519, HDNode
<1>5. d.ok
  BY DEF d
<1> QED BY <1>1, <1>3, <1>4, <1>5 DEF d
-----------------------------------------------------------------------------
(***************************************************************************)
(* The invariant.                                                          *)
(***************************************************************************)
\* Nothing happens before there is a key.
KeyFirst == key = NoKey => outcome = NoTask /\ task = NoTask /\ warm = NoTask

\* Every slot holds nothing or a result for its own participants.
StoredOK ==
    /\ material = [i \in Node |-> [p \in Participants |-> material[i][p]]]
    /\ \A i \in Node, p \in Participants :
         material[i][p] # NoMaterial =>
             material[i][p] \in [gen : 1 .. warms, share : Scalar,
                                 pubs : [p -> Scalar]]

\* The refresh and the sign under way.
WarmOK == warm # NoTask =>
    warm \in [nodes : Participants, poly : Polynomial, gen : 1 .. warms]
TaskOK == task # NoTask => task \in [nodes : Participants, req : Request]

Present(i) == input[i] \notin {NoInput, Refused}

\* What a node brings is for the participants of the task.
InputOK ==
    \A i \in Node : Present(i) =>
        task # NoTask /\ input[i].pubs \in [task.nodes -> Scalar]

TypeInv == TypeOK /\ KeyFirst /\ StoredOK /\ WarmOK /\ TaskOK /\ InputOK

\* The key that a node derives for a Start, from the root key and the path.
NodeKey(req) ==
    IF key.alg = "ecdsa"
      THEN DeriveChildPubFromPath(RootPub, ChainCodeFromKeyID(RootKeyID),
                                  PathFromAccountAndAddress(ToPath(req)))
      ELSE DeriveEd25519ChildPubFromPath(
             RootPub, ChainCodeFromKeyID(RootKeyID),
             PathFromAccountAndAddress(ToPath(req)))

\* Every node that has brought something has derived the key of the task's
\* path, whatever material its share came from.
InputDerived ==
    \A i \in Node : Present(i) =>
        /\ NodeKey(task.req).ok /\ input[i].pub = NodeKey(task.req).pub
        /\ input[i].pub # 0

AddressInv == TypeInv /\ InputDerived /\ SignedByAddressKey
-----------------------------------------------------------------------------
(***************************************************************************)
(* Facts about the state's operators.                                      *)
(***************************************************************************)
\* A key that exists is a record, and its root is a scalar.
LEMMA KeyFacts ==
  ASSUME TypeOK, key # NoKey
  PROVE  /\ key.poly \in Polynomial /\ key.poly[0] \in Scalar
         /\ RootPub = key.poly[0] /\ RootPub \in Scalar
         /\ RootKeyID = KeyIDOf[RootPub] /\ RootKeyID \in KeyID
         /\ ChainCodeFromKeyID(RootKeyID) \in CC
         /\ key.alg \in Algs
<1>1. key.poly \in Polynomial /\ key.alg \in Algs
  BY DEF TypeOK
<1>2. key.poly[0] \in Scalar
  BY <1>1, ShareAssumption DEF Polynomial
<1>3. RootPub = key.poly[0]
  BY <1>2, ModSmall DEF RootPub, BaseMult
<1>4. RootKeyID = KeyIDOf[RootPub]
  BY DEF RootKeyID, KeyIDFromPubXY, KeyIDFromEd25519PubHex
<1>5. RootKeyID \in KeyID /\ ChainCodeFromKeyID(RootKeyID) \in CC
  BY <1>2, <1>3, <1>4, HashAssumption DEF ChainCodeFromKeyID
<1> QED BY <1>1, <1>2, <1>3, <1>4, <1>5

\* The DKG's shares are scalars.
LEMMA ShareType ==
  ASSUME TypeOK, key # NoKey, NEW i \in Node
  PROVE  Share(i) \in Scalar
<1>1. key.poly \in Polynomial
  BY KeyFacts
<1>2. i \in Int
  BY ShareAssumption, OrderAssumption DEF Scalar
<1> QED BY <1>1, <1>2, EvalType DEF Share

\* Whatever a Start names, its path has three uint32 elements.
LEMMA PathType ==
  ASSUME NEW req \in Request
  PROVE  /\ ToPath(req).account \in Index /\ ToPath(req).change \in Index
         /\ ToPath(req).address \in Index
         /\ PathFromAccountAndAddress(ToPath(req)) =
              <<ToPath(req).account, ToPath(req).change, ToPath(req).address>>
<1>1. req.account \in Int /\ req.change \in Int /\ req.address \in Int
  BY ShareAssumption
<1>2. \A x \in Int : x % Width \in Index
  BY IndexAssumption DEF Index
<1> QED BY <1>1, <1>2 DEF ToPath, PathFromAccountAndAddress

\* Indices that fit into a uint32 are not changed.
LEMMA PathInRange ==
  ASSUME NEW req \in Request, InRange(req)
  PROVE  /\ ToPath(req).account = req.account
         /\ ToPath(req).change = req.change
         /\ ToPath(req).address = req.address
<1>1. \A x \in Index : x % Width = x
  <2>1. SUFFICES ASSUME NEW x \in Index PROVE x % Width = x
    OBVIOUS
  <2>2. Width * 0 + x = x /\ x \in 0 .. Width - 1 /\ Width \in Nat /\ Width > 0
    BY IndexAssumption DEF Index
  <2>3. (Width * 0 + x) % Width = x
    <3>1. 0 \in Int
      OBVIOUS
    <3> QED BY <2>2, <3>1, ModUnique, Zenon
  <2> QED BY <2>2, <2>3
<1>2. req.account \in Index /\ req.change \in Index /\ req.address \in Index
  BY DEF InRange
<1> QED BY <1>1, <1>2 DEF ToPath

\* What the nodes derive: the root moved by the tweak.
LEMMA NodeKeyFacts ==
  ASSUME TypeOK, key # NoKey, NEW req \in Request
  PROVE  LET d == NodeKey(req)
         IN  /\ d \in HDNode
             /\ d.pub = (RootPub + d.delta) % Order
             /\ key.alg # "ecdsa" /\ d.ok => d.pub # 0
<1> DEFINE cc == ChainCodeFromKeyID(RootKeyID)
           a == ToPath(req).account
           b == ToPath(req).change
           c == ToPath(req).address
<1>1. RootPub \in Scalar /\ cc \in CC
  BY KeyFacts
<1>2. /\ a \in Index /\ b \in Index /\ c \in Index
      /\ PathFromAccountAndAddress(ToPath(req)) = <<a, b, c>>
  BY PathType
<1> HIDE DEF a, b, c, cc
<1>3. CASE key.alg = "ecdsa"
  <2> DEFINE d == DeriveChildPubFromPath(RootPub, cc, <<a, b, c>>)
  <2>1. NodeKey(req) = d
    BY <1>2, <1>3 DEF NodeKey, cc
  <2>2. d \in HDNode /\ d.pub = (RootPub + d.delta) % Order
    BY <1>1, <1>2, PathKey, Zenon
  <2> HIDE DEF d
  <2> QED BY <1>3, <2>1, <2>2
<1>4. CASE key.alg # "ecdsa"
  <2> DEFINE d == DeriveEd25519ChildPubFromPath(RootPub, cc, <<a, b, c>>)
  <2>1. NodeKey(req) = d
    BY <1>2, <1>4 DEF NodeKey, cc
  <2>2. d \in HDNode /\ d.pub = (RootPub + d.delta) % Order
    BY <1>1, <1>2, PathKeyEd25519, Zenon
  <2>3. ASSUME d.ok PROVE d.pub # 0
    BY <1>1, <1>2, <2>3, NotIdentity, Zenon
  <2> HIDE DEF d
  <2> QED BY <2>1, <2>2, <2>3
<1> QED BY <1>3, <1>4

\* The wallet derives the same key, and derives it whenever a node does.
LEMMA WalletAgrees ==
  ASSUME TypeOK, key # NoKey, NEW req \in Request, InRange(req),
         NodeKey(req).ok
  PROVE  Address(req).ok /\ Address(req).pub = NodeKey(req).pub
<1> DEFINE cc == ChainCodeFromKeyID(RootKeyID)
           a == req.account
           b == req.change
           c == req.address
<1>1. RootPub \in Scalar /\ cc \in CC /\ RootKeyID = KeyIDOf[RootPub]
  BY KeyFacts
<1>2. /\ a \in Index /\ b \in Index /\ c \in Index
      /\ PathFromAccountAndAddress(ToPath(req)) = <<a, b, c>>
      /\ PathFromAccountAndAddress(req) = <<a, b, c>>
      /\ PathFromAccountIndex(a) = <<a>>
  BY PathInRange DEF InRange, PathFromAccountAndAddress, PathFromAccountIndex
<1>3. CASE key.alg = "ecdsa"
  <2> DEFINE d  == DeriveChildPubFromPath(RootPub, cc, <<a, b, c>>)
             d1 == DeriveChildPubFromPath(RootPub, cc, <<a>>)
  <2>1. NodeKey(req) = d
    BY <1>2, <1>3 DEF NodeKey
  <2>2. d1.ok
    BY <1>1, <1>2, <2>1, PathKey
  <2>3. Address(req) = [ok |-> d1.ok /\ d.ok, pub |-> d.pub]
    BY <1>1, <1>2, <1>3 DEF Address, DeriveMPCHDAddress, DeriveMPCHDAccount,
                            deriveWalletLayer, KeyIDFromPubXY
  <2> HIDE DEF d, d1
  <2>4. /\ Address(req).ok = (d1.ok /\ d.ok)
        /\ Address(req).pub = d.pub
    BY <2>3
  <2> QED BY <2>1, <2>2, <2>4
<1>4. CASE key.alg # "ecdsa"
  <2> DEFINE d  == DeriveEd25519ChildPubFromPath(RootPub, cc, <<a, b, c>>)
             d1 == DeriveEd25519ChildPubFromPath(RootPub, cc, <<a>>)
  <2>1. NodeKey(req) = d
    BY <1>2, <1>4 DEF NodeKey
  <2>2. d1.ok
    BY <1>1, <1>2, <2>1, PathKeyEd25519
  <2>3. Address(req) = [ok |-> d1.ok /\ d.ok, pub |-> d.pub]
    BY <1>1, <1>2, <1>4
       DEF Address, DeriveMPCHDAddressEd25519, DeriveMPCHDAccountEd25519,
           KeyIDFromEd25519PubHex
  <2> HIDE DEF d, d1
  <2>4. /\ Address(req).ok = (d1.ok /\ d.ok)
        /\ Address(req).pub = d.pub
    BY <2>3
  <2> QED BY <2>1, <2>2, <2>4
<1> QED BY <1>3, <1>4
-----------------------------------------------------------------------------
(***************************************************************************)
(* Every step keeps the types.                                             *)
(***************************************************************************)
\* What the parts say does not change with variables they do not name.
LEMMA SameAddress ==
  ASSUME UNCHANGED <<key, outcome>>
  PROVE  SignedByAddressKey' <=> SignedByAddressKey
BY DEF SignedByAddressKey, Address, RootPub, RootKeyID

LEMMA SameDerived ==
  ASSUME UNCHANGED <<key, task, input>>
  PROVE  InputDerived' <=> InputDerived
BY DEF InputDerived, NodeKey, Present, RootPub, RootKeyID

LEMMA SameInput ==
  ASSUME UNCHANGED <<task, input>>
  PROVE  InputOK' <=> InputOK
BY DEF InputOK, Present

\* Keygen.
LEMMA TypeNewKey ==
  ASSUME TypeInv, NEW f \in Polynomial, NEW kind \in {"shares", "single"},
         NEW alg \in Algs, NewKey(kind, alg, f)
  PROVE  TypeInv'
<1> USE DEF NewKey, TypeInv
<1>1. TypeOK'
  <2>1. key' \in [kind : {"shares", "single"}, alg : Algs, poly : Polynomial]
    OBVIOUS
  <2> QED BY <2>1 DEF TypeOK
<1>2. KeyFirst' /\ StoredOK' /\ WarmOK' /\ TaskOK'
  BY DEF KeyFirst, StoredOK, WarmOK, TaskOK
<1>3. InputOK'
  BY SameInput
<1> QED BY <1>1, <1>2, <1>3

\* A refresh begins.
LEMMA TypeRunRefresh ==
  ASSUME TypeInv, NEW p \in Participants, RunRefresh(p)
  PROVE  TypeInv'
<1> USE DEF TypeInv
<1>0. warms \in Nat /\ warms' = warms + 1 /\ warms' \in 0 .. MaxWarms
  BY ShareAssumption DEF RunRefresh, TypeOK
<1>1. PICK g \in Polynomial :
         warm' = [nodes |-> p, poly |-> g, gen |-> warms + 1]
  BY DEF RunRefresh
<1>2. /\ warm' \in [nodes : Participants, poly : Polynomial, gen : 1 .. warms']
      /\ warm' # NoTask
  <2>1. warm' \in [nodes : Participants, poly : Polynomial, gen : Nat]
    BY <1>0, <1>1
  <2>2. warm' \in [nodes : Participants, poly : Polynomial, gen : 1 .. warms']
    BY <1>0, <1>1
  <2> QED BY <2>1, <2>2, NoTaskAssumption
<1>3. p # {} /\ p \subseteq Node /\ warming' = p
  BY ShareAssumption DEF RunRefresh
<1>4. UNCHANGED <<key, material, task, input, outcome>> /\ key # NoKey
  BY DEF RunRefresh
<1>5. StoredOK'
  <2>1. ASSUME NEW i \in Node, NEW q \in Participants,
               material[i][q] # NoMaterial
        PROVE  material[i][q] \in [gen : 1 .. warms', share : Scalar,
                                   pubs : [q -> Scalar]]
    <3>1. material[i][q] \in [gen : 1 .. warms, share : Scalar,
                              pubs : [q -> Scalar]]
      BY <2>1 DEF StoredOK
    <3>2. 1 .. warms \subseteq 1 .. warms'
      BY <1>0
    <3> QED BY <3>1, <3>2
  <2> QED BY <1>4, <2>1 DEF StoredOK
<1>6. TypeOK'
  <2>1. \A i \in Node, q \in Participants :
         material'[i][q] # NoMaterial =>
             /\ DOMAIN material'[i][q].pubs = q
             /\ material'[i][q].gen \in 1 .. warms'
             /\ material'[i][q].share \in Scalar
    BY <1>5 DEF StoredOK
  <2>2. (warm' = NoTask) <=> (warming' = {})
    BY <1>2, <1>3
  <2> QED BY <1>0, <1>3, <1>4, <2>1, <2>2 DEF TypeOK
<1>7. KeyFirst' /\ WarmOK' /\ TaskOK'
  BY <1>2, <1>4 DEF KeyFirst, WarmOK, TaskOK
<1>8. InputOK'
  BY <1>4, SameInput
<1> QED BY <1>5, <1>6, <1>7, <1>8

\* The end of a refresh on one node, for the variables that it shares.
LEMMA ReturnFacts ==
  ASSUME TypeInv, NEW i \in warming, Return(i), UNCHANGED warms
  PROVE  /\ (warm' = NoTask) <=> (warming' = {})
         /\ warming' \in SUBSET Node
         /\ WarmOK' /\ warm # NoTask /\ i \in Node
         /\ warm \in [nodes : Participants, poly : Polynomial,
                      gen : 1 .. warms]
<1>1. warm # NoTask /\ i \in Node /\ warming \in SUBSET Node
  BY DEF TypeInv, TypeOK
<1>2. warm \in [nodes : Participants, poly : Polynomial, gen : 1 .. warms]
  BY <1>1 DEF TypeInv, WarmOK
<1>3. CASE warming = {i}
  BY <1>1, <1>2, <1>3 DEF Return, WarmOK
<1>4. CASE warming # {i}
  BY <1>1, <1>2, <1>4 DEF Return, WarmOK
<1> QED BY <1>1, <1>2, <1>3, <1>4

\* What every node keeps of the refresh under way are the new shares.
LEMMA NewShareFacts ==
  ASSUME TypeInv, warm # NoTask
  PROVE  /\ warm \in [nodes : Participants, poly : Polynomial,
                      gen : 1 .. warms]
         /\ \A j \in Node : NewShare(j) \in Scalar
         /\ NewPubs \in [warm.nodes -> Scalar]
         /\ \A j \in warm.nodes : j \in Node /\ NewPubs[j] = NewShare(j)
<1> USE DEF TypeInv
<1>1. warm \in [nodes : Participants, poly : Polynomial, gen : 1 .. warms]
  BY DEF WarmOK
<1>2. key # NoKey
  BY DEF KeyFirst
<1>3. ASSUME NEW j \in Node PROVE NewShare(j) \in Scalar
  <2>1. Share(j) \in Scalar
    BY <1>2, ShareType
  <2>2. j \in Int /\ warm.poly \in Polynomial
    BY <1>1, ShareAssumption, OrderAssumption DEF Scalar
  <2>3. Eval(warm.poly, j) \in Scalar
    BY <2>2, EvalType
  <2>4. Share(j) + Eval(warm.poly, j) \in Int
    BY <2>1, <2>3, OrderAssumption DEF Scalar
  <2> QED BY <2>4, ModScalar DEF NewShare
<1>4. warm.nodes \subseteq Node
  BY <1>1, ShareAssumption
<1>5. \A j \in Node : BaseMult(NewShare(j)) = NewShare(j)
  BY <1>3, ModSmall DEF BaseMult
<1>6. NewPubs = [j \in warm.nodes |-> NewShare(j)]
  BY <1>4, <1>5 DEF NewPubs, FilterParticipantMaps
<1> QED BY <1>1, <1>3, <1>4, <1>6

\* CommitWarm stores a scalar and the public shares of the participants.
LEMMA TypeCommitWarm ==
  ASSUME TypeInv, NEW i \in Node, CommitWarm(i)
  PROVE  TypeInv'
<1> USE DEF TypeInv
<1> DEFINE result == [gen |-> warm.gen, share |-> NewShare(i),
                      pubs |-> NewPubs]
<1>0. /\ i \in warming /\ Return(i)
      /\ material' = [material EXCEPT ![i][warm.nodes] = result]
      /\ UNCHANGED <<key, warms, task, input, outcome>>
  BY DEF CommitWarm
<1>1. /\ (warm' = NoTask) <=> (warming' = {})
      /\ warming' \in SUBSET Node
      /\ WarmOK' /\ warm # NoTask
      /\ warm \in [nodes : Participants, poly : Polynomial, gen : 1 .. warms]
  BY <1>0, ReturnFacts
<1>2. key # NoKey
  BY <1>1 DEF KeyFirst
<1>3. NewShare(i) \in Scalar
  BY <1>1, NewShareFacts
<1>4. NewPubs \in [warm.nodes -> Scalar]
  BY <1>1, NewShareFacts
<1>5. result \in [gen : 1 .. warms, share : Scalar,
                  pubs : [warm.nodes -> Scalar]]
  BY <1>1, <1>3, <1>4
<1> HIDE DEF result
<1>6. warm.nodes \in Participants
  BY <1>1
<1>7. /\ material'
           = [k \in Node |-> [p \in Participants |-> material'[k][p]]]
      /\ \A k \in Node, p \in Participants :
           material'[k][p] = IF k = i /\ p = warm.nodes THEN result
                             ELSE material[k][p]
  BY <1>0, <1>6 DEF StoredOK
<1>8. StoredOK'
  <2>1. ASSUME NEW k \in Node, NEW p \in Participants,
               material'[k][p] # NoMaterial
        PROVE  material'[k][p] \in [gen : 1 .. warms, share : Scalar,
                                    pubs : [p -> Scalar]]
    <3>1. CASE k = i /\ p = warm.nodes
      BY <1>5, <1>7, <3>1
    <3>2. CASE ~(k = i /\ p = warm.nodes)
      <4>1. material'[k][p] = material[k][p]
        BY <1>7, <3>2
      <4> QED BY <2>1, <4>1 DEF StoredOK
    <3> QED BY <3>1, <3>2
  <2> QED BY <1>0, <1>7, <2>1 DEF StoredOK
<1>9. TypeOK'
  <2>1. \A k \in Node, q \in Participants :
         material'[k][q] # NoMaterial =>
             /\ DOMAIN material'[k][q].pubs = q
             /\ material'[k][q].gen \in 1 .. warms'
             /\ material'[k][q].share \in Scalar
    BY <1>8 DEF StoredOK
  <2> QED BY <1>0, <1>1, <2>1 DEF TypeOK
<1>10. KeyFirst' /\ TaskOK' /\ InputOK'
  BY <1>0, <1>2, SameInput DEF KeyFirst, TaskOK
<1> QED BY <1>1, <1>8, <1>9, <1>10

\* A refresh that fails leaves the slots alone.
LEMMA TypeWarmFails ==
  ASSUME TypeInv, NEW i \in Node, WarmFails(i)
  PROVE  TypeInv'
<1> USE DEF TypeInv
<1>0. /\ i \in warming /\ Return(i)
      /\ UNCHANGED <<key, material, warms, task, input, outcome>>
  BY DEF WarmFails
<1>1. /\ (warm' = NoTask) <=> (warming' = {})
      /\ warming' \in SUBSET Node /\ WarmOK' /\ warm # NoTask
  BY <1>0, ReturnFacts
<1>2. key # NoKey
  BY <1>1 DEF KeyFirst
<1>3. StoredOK' /\ KeyFirst' /\ TaskOK' /\ InputOK'
  BY <1>0, <1>2, SameInput DEF StoredOK, KeyFirst, TaskOK
<1>4. TypeOK'
  BY <1>0, <1>1 DEF TypeOK
<1> QED BY <1>1, <1>3, <1>4

\* A Start resets what the nodes bring.
LEMMA TypeSignStart ==
  ASSUME TypeInv, NEW p \in Participants, NEW req \in Request,
         SignStart(p, req)
  PROVE  TypeInv' /\ InputDerived'
<1> USE DEF TypeInv, SignStart
<1>1. \A i \in Node : input'[i] = NoInput
  OBVIOUS
<1>2. TypeOK'
  <2>1. input' \in [Node -> Inputs \union {NoInput, Refused}]
    OBVIOUS
  <2> QED BY <2>1 DEF TypeOK
<1>3. KeyFirst' /\ StoredOK' /\ WarmOK' /\ TaskOK'
  BY DEF KeyFirst, StoredOK, WarmOK, TaskOK
<1>4. InputOK' /\ InputDerived'
  BY <1>1 DEF InputOK, InputDerived, Present
<1> QED BY <1>2, <1>3, <1>4

\* What a node may bring to the task: nothing, or the key of the path and
\* the partial public keys of the participants.
Fits(in) ==
    in # Refused =>
        /\ in \in Inputs /\ in.pubs \in [task.nodes -> Scalar]
        /\ NodeKey(task.req).ok /\ in.pub = NodeKey(task.req).pub
        /\ in.pub # 0

\* A node that brings what fits keeps the invariant.
LEMMA BringFits ==
  ASSUME TypeInv, InputDerived, NEW i \in Node, NEW in, Bring(i, in), Fits(in)
  PROVE  TypeInv' /\ InputDerived'
<1> USE DEF TypeInv
<1> DEFINE b == IF i \in warming \/ ~Admits(task.nodes, task.req)
                THEN Refused ELSE in
<1>1. /\ task # NoTask /\ input' = [input EXCEPT ![i] = b]
      /\ UNCHANGED <<key, material, warm, warming, warms, task, outcome>>
  BY DEF Bring
<1>2. Fits(b)
  BY DEF Fits
<1> HIDE DEF b
<1>3. input \in [Node -> Inputs \union {NoInput, Refused}]
  BY DEF TypeOK
<1>4. \A k \in Node : input'[k] = IF k = i THEN b ELSE input[k]
  BY <1>1, <1>3
<1>5. TypeOK'
  <2>1. b \in Inputs \union {NoInput, Refused}
    BY <1>2 DEF Fits
  <2>2. input' \in [Node -> Inputs \union {NoInput, Refused}]
    BY <1>1, <1>3, <2>1
  <2> QED BY <1>1, <2>2 DEF TypeOK
<1>6. KeyFirst' /\ StoredOK' /\ WarmOK' /\ TaskOK'
  BY <1>1 DEF KeyFirst, StoredOK, WarmOK, TaskOK
<1>7. InputOK'
  BY <1>1, <1>2, <1>4 DEF InputOK, Present, Fits
<1>8. NodeKey(task.req)' = NodeKey(task.req)
  BY <1>1 DEF NodeKey, RootPub, RootKeyID
<1>9. InputDerived'
  <2>1. SUFFICES ASSUME NEW k \in Node, Present(k)'
                 PROVE  /\ NodeKey(task.req).ok
                        /\ input'[k].pub = NodeKey(task.req).pub
                        /\ input'[k].pub # 0
    BY <1>8 DEF InputDerived
  <2>2. CASE k = i
    BY <1>2, <1>4, <2>1, <2>2 DEF Present, Fits
  <2>3. CASE k # i
    BY <1>4, <2>1, <2>3 DEF Present, InputDerived
  <2> QED BY <2>2, <2>3
<1> QED BY <1>5, <1>6, <1>7, <1>9

\* Moving partial public keys along a path keeps them scalars.
LEMMA AdjustType ==
  ASSUME NEW p, NEW pubs \in [p -> Scalar], NEW delta \in Scalar
  PROVE  /\ AdjustPartialPubsForDelta(pubs, delta) \in [p -> Scalar]
         /\ AdjustYsForDelta(pubs, delta) \in [p -> Scalar]
<1>1. BaseMult(delta) \in Scalar
  BY ModSmall DEF BaseMult
<1>2. \A i \in p : (pubs[i] + BaseMult(delta)) % Order \in Scalar
  <2>1. SUFFICES ASSUME NEW i \in p
                 PROVE  (pubs[i] + BaseMult(delta)) % Order \in Scalar
    OBVIOUS
  <2>2. pubs[i] + BaseMult(delta) \in Int
    BY <1>1, OrderAssumption DEF Scalar
  <2> QED BY <2>2, ModScalar
<1> QED BY <1>2 DEF AdjustPartialPubsForDelta, AdjustYsForDelta

\* ECDSA: the material of these participants, moved along the path.
LEMMA ECDSAFits ==
  ASSUME TypeInv, key # NoKey, key.alg = "ecdsa", task # NoTask,
         NEW i \in Node
  PROVE  Fits(RunSignECDSA(i, task.nodes, ToPath(task.req)))
<1> USE DEF TypeInv
<1> DEFINE p   == task.nodes
           m   == material[i][p]
           d   == NodeKey(task.req)
           sh  == (m.share + d.delta) % Order
           pbs == AdjustPartialPubsForDelta(FilterParticipantMaps(p, m.pubs),
                                            d.delta)
           in  == RunSignECDSA(i, p, ToPath(task.req))
<1>1. p \in Participants /\ task.req \in Request
  BY DEF TaskOK
<1>2. d \in HDNode
  BY <1>1, NodeKeyFacts
<1>3. d.pub \in Scalar /\ d.delta \in Scalar
  BY <1>2 DEF HDNode
<1>4. \/ in = Refused
      \/ /\ m # NoMaterial /\ d.ok /\ d.pub # 0
         /\ in = [gen |-> m.gen, share |-> sh, pub |-> d.pub, pubs |-> pbs]
  BY DEF RunSignECDSA, AdjustShareAndPubKeyForPath, NodeKey
<1> HIDE DEF d, in
<1>5. CASE in = Refused
  BY <1>5 DEF Fits, in
<1>6. CASE in # Refused
  <2>1. m \in [gen : 1 .. warms, share : Scalar, pubs : [p -> Scalar]]
    BY <1>1, <1>4, <1>6 DEF StoredOK
  <2>2. m.gen \in 0 .. MaxWarms
    BY <2>1, ShareAssumption DEF TypeOK
  <2>3. m.share + d.delta \in Int
    BY <1>3, <2>1, OrderAssumption DEF Scalar
  <2>4. sh \in Scalar
    BY <2>3, ModScalar
  <2>5. FilterParticipantMaps(p, m.pubs) \in [p -> Scalar]
    BY <2>1 DEF FilterParticipantMaps
  <2>6. pbs \in [p -> Scalar]
    BY <1>3, <2>5, AdjustType
  <2> HIDE DEF p, m, sh, pbs
  <2>7. in \in Inputs
    BY <1>1, <1>3, <1>4, <1>6, <2>2, <2>4, <2>6 DEF Inputs
  <2>8. in.pubs \in [p -> Scalar] /\ d.ok /\ in.pub = d.pub /\ in.pub # 0
    BY <1>4, <1>6, <2>6
  <2> QED BY <2>7, <2>8 DEF Fits, in, d, p
<1> QED BY <1>5, <1>6

\* FROST: the share of the DKG, moved along the path.
LEMMA Ed25519Fits ==
  ASSUME TypeInv, key # NoKey, key.alg = "ed25519", task # NoTask,
         NEW i \in Node
  PROVE  Fits(RunSignEd25519(i, task.nodes, ToPath(task.req)))
<1> USE DEF TypeInv
<1> DEFINE p   == task.nodes
           d   == NodeKey(task.req)
           sh  == (Share(i) + d.delta) % Order
           pbs == AdjustYsForDelta(FilterYs(p, PartialPub), d.delta)
           in  == RunSignEd25519(i, p, ToPath(task.req))
<1>1. p \in Participants /\ task.req \in Request
  BY DEF TaskOK
<1>2. d \in HDNode /\ (d.ok => d.pub # 0)
  BY <1>1, NodeKeyFacts
<1>3. d.pub \in Scalar /\ d.delta \in Scalar
  BY <1>2 DEF HDNode
<1>4. \/ in = Refused
      \/ /\ d.ok
         /\ in = [gen |-> 0, share |-> sh, pub |-> d.pub, pubs |-> pbs]
  BY DEF RunSignEd25519, AdjustShareEd25519, NodeKey
<1> HIDE DEF d, in
<1>5. CASE in = Refused
  BY <1>5 DEF Fits, in
<1>6. CASE in # Refused
  <2>1. 0 \in 0 .. MaxWarms
    BY ShareAssumption
  <2>2. \A j \in Node : Share(j) \in Scalar
    BY ShareType
  <2>3. Share(i) + d.delta \in Int
    BY <1>3, <2>2, OrderAssumption DEF Scalar
  <2>4. sh \in Scalar
    BY <2>3, ModScalar
  <2>5. p \subseteq Node
    BY <1>1, ShareAssumption
  <2>6. FilterYs(p, PartialPub) \in [p -> Scalar]
    BY <2>2, <2>5, ModSmall DEF FilterYs, PartialPub, BaseMult
  <2>7. pbs \in [p -> Scalar]
    BY <1>3, <2>6, AdjustType
  <2> HIDE DEF p, sh, pbs
  <2>8. in \in Inputs
    BY <1>1, <1>3, <1>4, <1>6, <2>1, <2>4, <2>7 DEF Inputs
  <2>9. in.pubs \in [p -> Scalar] /\ d.ok /\ in.pub = d.pub /\ in.pub # 0
    BY <1>2, <1>4, <1>6, <2>7
  <2> QED BY <2>8, <2>9 DEF Fits, in, d, p
<1> QED BY <1>5, <1>6
-----------------------------------------------------------------------------
(***************************************************************************)
(* The ends of signs, and the theorems.                                    *)
(***************************************************************************)
\* What the protocol accepts was signed with the key that all nodes have
\* derived: the shares that combine to the signer are the discrete logarithms
\* of the partial public keys that combine to that key.
LEMMA AcceptedSigner ==
  ASSUME TypeInv, InputDerived, task # NoTask,
         \A i \in task.nodes : Present(i),
         AliceAccepts(task.nodes, input)
  PROVE  /\ NodeKey(task.req).ok /\ NodeKey(task.req).pub # 0
         /\ Combine(task.nodes, [i \in task.nodes |-> input[i].share])
              = NodeKey(task.req).pub
<1> DEFINE p == task.nodes
<1>1. p \subseteq Node /\ p # {}
  BY ShareAssumption DEF TypeInv, TaskOK
<1>2. PICK k \in p : k \in Node
  BY <1>1
<1>3. ASSUME NEW j \in p PROVE input[j].share \in Scalar
  <2>1. j \in Node /\ Present(j)
    BY <1>1
  <2>2. input[j] \in Inputs
    BY <2>1 DEF TypeInv, TypeOK, Present
  <2> QED BY <2>2 DEF Inputs
<1>4. /\ Combine(p, input[k].pubs) = input[k].pub
      /\ \A j \in p : input[k].pubs[j] = BaseMult(input[j].share)
  BY <1>2 DEF AliceAccepts
<1>5. \A j \in p : input[k].pubs[j] = input[j].share
  BY <1>3, <1>4, ModSmall DEF BaseMult
<1>6. input[k].pubs \in [p -> Scalar]
  BY <1>2 DEF TypeInv, InputOK
<1>7. input[k].pubs = [j \in p |-> input[j].share]
  BY <1>5, <1>6
<1>8. /\ NodeKey(task.req).ok /\ input[k].pub = NodeKey(task.req).pub
      /\ input[k].pub # 0
  BY <1>2 DEF InputDerived
<1> QED BY <1>4, <1>7, <1>8

\* A signer with the derived key verifies against the wallet's address.
LEMMA DerivedVerifies ==
  ASSUME TypeOK, key # NoKey, NEW req \in Request, InRange(req),
         NodeKey(req).ok, NodeKey(req).pub # 0,
         NEW signer, signer = NodeKey(req).pub
  PROVE  /\ Address(req).ok
         /\ IF key.alg = "ecdsa"
              THEN VerifyECDSA(Address(req).pub, signer)
              ELSE VerifyEd25519(Address(req).pub, signer)
<1>1. Address(req).ok /\ Address(req).pub = NodeKey(req).pub
  BY WalletAgrees
<1>2. NodeKey(req).pub \in Scalar
  BY NodeKeyFacts DEF HDNode
<1>3. BaseMult(signer) = signer
  BY <1>2, ModSmall DEF BaseMult
<1> QED BY <1>1, <1>3 DEF VerifyECDSA, VerifyEd25519, EncodesEd25519

\* The end of a sign with shares.
LEMMA SignEndKeeps ==
  ASSUME AddressInv, SignEnd
  PROVE  AddressInv'
<1> USE DEF AddressInv
<1> DEFINE p  == task.nodes
           go == \A i \in p : input[i] # Refused
           signer == IF go THEN Combine(p, [i \in p |-> input[i].share]) ELSE 0
<1>1. /\ task # NoTask /\ \A i \in p : input[i] # NoInput
      /\ outcome' = [req |-> task.req, brought |-> input, nodes |-> p,
                     ok |-> go /\ AliceAccepts(p, input), signer |-> signer]
      /\ task' = NoTask /\ input' = [i \in Node |-> NoInput]
      /\ UNCHANGED <<key, material, warm, warming, warms>>
  BY DEF SignEnd
<1>2. key # NoKey /\ task.req \in Request
  BY <1>1 DEF TypeInv, KeyFirst, TaskOK
<1>3. TypeInv'
  <2>1. input' \in [Node -> Inputs \union {NoInput, Refused}]
    BY <1>1
  <2>2. TypeOK'
    BY <1>1, <2>1 DEF TypeInv, TypeOK
  <2>3. KeyFirst' /\ StoredOK' /\ WarmOK' /\ TaskOK'
    BY <1>1, <1>2 DEF TypeInv, KeyFirst, StoredOK, WarmOK, TaskOK
  <2>4. InputOK'
    BY <1>1 DEF InputOK, Present
  <2> QED BY <2>2, <2>3, <2>4 DEF TypeInv
<1>4. InputDerived'
  BY <1>1 DEF InputDerived, Present
<1>5. SignedByAddressKey'
  <2>1. SUFFICES ASSUME outcome'.ok, InRange(outcome'.req)
                 PROVE  /\ Address(task.req).ok
                        /\ IF key.alg = "ecdsa"
                             THEN VerifyECDSA(Address(task.req).pub, signer)
                             ELSE VerifyEd25519(Address(task.req).pub, signer)
    <3>1. outcome'.req = task.req /\ outcome'.signer = signer
      BY <1>1
    <3>2. \A r : Address(r)' = Address(r)
      BY <1>1 DEF Address, RootPub, RootKeyID
    <3> HIDE DEF signer
    <3> QED BY <1>1, <3>1, <3>2 DEF SignedByAddressKey
  <2>2. go /\ AliceAccepts(p, input) /\ InRange(task.req)
    BY <1>1, <2>1
  <2>3. \A i \in p : Present(i)
    BY <1>1, <2>2 DEF Present
  <2>4. /\ NodeKey(task.req).ok /\ NodeKey(task.req).pub # 0
        /\ signer = NodeKey(task.req).pub
    BY <1>1, <2>2, <2>3, AcceptedSigner
  <2> HIDE DEF signer
  <2> QED BY <1>2, <2>2, <2>4, DerivedVerifies DEF TypeInv
<1> QED BY <1>3, <1>4, <1>5

\* A sign with a single key.
LEMMA SingleSignKeeps ==
  ASSUME AddressInv, key # NoKey, NEW req \in Request, NEW alg, NEW child,
         SingleSign(req, alg, child),
         child.ok => /\ NodeKey(req).ok /\ NodeKey(req).pub # 0
                     /\ child.sk = NodeKey(req).pub
  PROVE  AddressInv'
<1> USE DEF AddressInv
<1>1. /\ outcome'.req = req /\ outcome'.signer = child.sk
      /\ outcome'.ok => child.ok
      /\ UNCHANGED <<key, material, warm, warming, warms, task, input>>
  BY DEF SingleSign
<1>2. TypeInv'
  <2>1. TypeOK' /\ KeyFirst' /\ StoredOK' /\ WarmOK' /\ TaskOK'
    BY <1>1 DEF TypeInv, TypeOK, KeyFirst, StoredOK, WarmOK, TaskOK
  <2> QED BY <1>1, <2>1, SameInput DEF TypeInv
<1>3. InputDerived'
  BY <1>1, SameDerived
<1>4. SignedByAddressKey'
  <2>1. SUFFICES ASSUME outcome'.ok, InRange(req)
                 PROVE  /\ Address(req).ok
                        /\ IF key.alg = "ecdsa"
                             THEN VerifyECDSA(Address(req).pub, child.sk)
                             ELSE VerifyEd25519(Address(req).pub, child.sk)
    <3>1. \A r : Address(r)' = Address(r)
      BY <1>1 DEF Address, RootPub, RootKeyID
    <3> QED BY <1>1, <3>1 DEF SignedByAddressKey
  <2> QED BY <1>1, <2>1, DerivedVerifies DEF TypeInv
<1> QED BY <1>2, <1>3, <1>4

\* The private key of the path is the root's moved by the same tweak as the
\* public key.
LEMMA SingleChild ==
  ASSUME TypeInv, key # NoKey, NEW req \in Request
  PROVE  /\ key.alg = "ecdsa" =>
              LET c == childPrivateKeyECDSA(key.poly[0], ToPath(req))
              IN  c.ok => /\ NodeKey(req).ok /\ NodeKey(req).pub # 0
                          /\ c.sk = NodeKey(req).pub
         /\ key.alg # "ecdsa" =>
              LET c == childPrivateKeyEd25519(key.poly[0], ToPath(req))
              IN  c.ok => /\ NodeKey(req).ok /\ NodeKey(req).pub # 0
                          /\ c.sk = NodeKey(req).pub
<1> DEFINE d == NodeKey(req)
           s == (key.poly[0] + d.delta) % Order
<1>1. d.pub = s
  BY KeyFacts, NodeKeyFacts DEF TypeInv
<1>2. ASSUME key.alg = "ecdsa"
      PROVE  childPrivateKeyECDSA(key.poly[0], ToPath(req))
               = [ok |-> d.ok /\ s # 0, sk |-> s]
  BY <1>2 DEF childPrivateKeyECDSA, NodeKey
<1>3. ASSUME key.alg # "ecdsa"
      PROVE  childPrivateKeyEd25519(key.poly[0], ToPath(req))
               = [ok |-> d.ok /\ s # 0, sk |-> s]
  BY <1>3 DEF childPrivateKeyEd25519, NodeKey
<1> HIDE DEF d, s
<1>4. ASSUME NEW c, c = [ok |-> d.ok /\ s # 0, sk |-> s], c.ok
      PROVE  d.ok /\ d.pub # 0 /\ c.sk = d.pub
  BY <1>1, <1>4
<1>5. CASE key.alg = "ecdsa"
  <2> DEFINE c == childPrivateKeyECDSA(key.poly[0], ToPath(req))
  <2>1. c.ok => d.ok /\ d.pub # 0 /\ c.sk = d.pub
    <3>1. c = [ok |-> d.ok /\ s # 0, sk |-> s]
      BY <1>2, <1>5
    <3> HIDE DEF c
    <3> QED BY <1>4, <3>1
  <2> QED BY <1>5, <2>1 DEF d
<1>6. CASE key.alg # "ecdsa"
  <2> DEFINE c == childPrivateKeyEd25519(key.poly[0], ToPath(req))
  <2>1. c.ok => d.ok /\ d.pub # 0 /\ c.sk = d.pub
    <3>1. c = [ok |-> d.ok /\ s # 0, sk |-> s]
      BY <1>3, <1>6
    <3> HIDE DEF c
    <3> QED BY <1>4, <3>1
  <2> QED BY <1>6, <2>1 DEF d
<1> QED BY <1>5, <1>6

\* Before keygen nothing has been brought or signed.
LEMMA AddressInit == Init => AddressInv
<1> SUFFICES ASSUME Init PROVE AddressInv
  OBVIOUS
<1> USE DEF Init
<1>1. TypeOK
  <2>1. input \in [Node -> Inputs \union {NoInput, Refused}]
    OBVIOUS
  <2> QED BY <2>1, ShareAssumption DEF TypeOK
<1>2. KeyFirst /\ StoredOK /\ WarmOK /\ TaskOK
  BY DEF KeyFirst, StoredOK, WarmOK, TaskOK
<1>3. InputOK /\ InputDerived
  BY DEF InputOK, InputDerived, Present
<1>4. SignedByAddressKey
  BY DEF SignedByAddressKey
<1> QED BY <1>1, <1>2, <1>3, <1>4 DEF AddressInv, TypeInv

\* Every step keeps the invariant.
LEMMA AddressStep == AddressInv /\ [Next]_vars => AddressInv'
<1> SUFFICES ASSUME AddressInv, [Next]_vars PROVE AddressInv'
  OBVIOUS
<1> USE DEF AddressInv
<1>1. ASSUME NEW f \in Polynomial, NEW kind \in {"shares", "single"},
             NEW alg \in Algs, NewKey(kind, alg, f)
      PROVE  AddressInv'
  <2>1. TypeInv'
    BY <1>1, TypeNewKey
  <2>2. outcome' = NoTask /\ task' = NoTask
    BY <1>1 DEF NewKey, TypeInv, KeyFirst
  <2>3. InputDerived'
    BY <2>1, <2>2 DEF InputDerived, TypeInv, InputOK
  <2>4. SignedByAddressKey'
    BY <2>2 DEF SignedByAddressKey
  <2> QED BY <2>1, <2>3, <2>4
<1>2. CASE RunDKG \/ RunDKGEd25519 \/ KeygenECDSA \/ KeygenEd25519
  <2>1. \E f \in Polynomial, kind \in {"shares", "single"}, alg \in Algs :
          NewKey(kind, alg, f)
    BY <1>2 DEF RunDKG, RunDKGEd25519, KeygenECDSA, KeygenEd25519, Algs
  <2> QED BY <1>1, <2>1
<1>3. ASSUME NEW p \in Participants, RunRefresh(p) PROVE AddressInv'
  <2>1. UNCHANGED <<key, task, input, outcome>>
    BY <1>3 DEF RunRefresh
  <2> QED BY <1>3, <2>1, TypeRunRefresh, SameDerived, SameAddress
<1>4. ASSUME NEW i \in Node, CommitWarm(i) PROVE AddressInv'
  <2>1. UNCHANGED <<key, task, input, outcome>>
    BY <1>4 DEF CommitWarm
  <2> QED BY <1>4, <2>1, TypeCommitWarm, SameDerived, SameAddress
<1>5. ASSUME NEW i \in Node, WarmFails(i) PROVE AddressInv'
  <2>1. UNCHANGED <<key, task, input, outcome>>
    BY <1>5 DEF WarmFails
  <2> QED BY <1>5, <2>1, TypeWarmFails, SameDerived, SameAddress
<1>6. ASSUME NEW i \in Node, runSignNodeECDSA(i) PROVE AddressInv'
  <2> DEFINE in == RunSignECDSA(i, task.nodes, ToPath(task.req))
  <2>1. key # NoKey /\ key.alg = "ecdsa" /\ task # NoTask /\ Bring(i, in)
    BY <1>6 DEF runSignNodeECDSA
  <2>2. Fits(in)
    BY <2>1, ECDSAFits
  <2>3. UNCHANGED <<key, outcome>>
    BY <2>1 DEF Bring
  <2> HIDE DEF in
  <2> QED BY <2>1, <2>2, <2>3, BringFits, SameAddress
<1>7. ASSUME NEW i \in Node, runSignNodeFROST(i) PROVE AddressInv'
  <2> DEFINE in == RunSignEd25519(i, task.nodes, ToPath(task.req))
  <2>1. key # NoKey /\ key.alg = "ed25519" /\ task # NoTask /\ Bring(i, in)
    BY <1>7 DEF runSignNodeFROST
  <2>2. Fits(in)
    BY <2>1, Ed25519Fits
  <2>3. UNCHANGED <<key, outcome>>
    BY <2>1 DEF Bring
  <2> HIDE DEF in
  <2> QED BY <2>1, <2>2, <2>3, BringFits, SameAddress
<1>8. ASSUME NEW p \in Participants, NEW req \in Request, SignStart(p, req)
      PROVE  AddressInv'
  <2>1. TypeInv' /\ InputDerived'
    BY <1>8, TypeSignStart
  <2>2. SignedByAddressKey'
    BY <1>8 DEF SignStart, SignedByAddressKey
  <2> QED BY <2>1, <2>2
<1>9. CASE SignEnd
  BY <1>9, SignEndKeeps
<1>10. ASSUME NEW req \in Request, NEW a, SignECDSA(req, a)
       PROVE  AddressInv'
  <2> DEFINE c == childPrivateKeyECDSA(key.poly[0], ToPath(req))
  <2>1. key # NoKey /\ key.alg = "ecdsa" /\ SingleSign(req, a, c)
    BY <1>10 DEF SignECDSA
  <2>2. c.ok => /\ NodeKey(req).ok /\ NodeKey(req).pub # 0
                /\ c.sk = NodeKey(req).pub
    BY <2>1, SingleChild
  <2> HIDE DEF c
  <2> QED BY <2>1, <2>2, SingleSignKeeps
<1>11. ASSUME NEW req \in Request, NEW a, SignEd25519(req, a)
       PROVE  AddressInv'
  <2> DEFINE c == childPrivateKeyEd25519(key.poly[0], ToPath(req))
  <2>1. key # NoKey /\ key.alg # "ecdsa" /\ SingleSign(req, a, c)
    BY <1>11 DEF SignEd25519
  <2>2. c.ok => /\ NodeKey(req).ok /\ NodeKey(req).pub # 0
                /\ c.sk = NodeKey(req).pub
    BY <2>1, SingleChild
  <2> HIDE DEF c
  <2> QED BY <2>1, <2>2, SingleSignKeeps
<1>12. CASE UNCHANGED vars
  <2>1. /\ UNCHANGED <<key, task, input, outcome>>
        /\ UNCHANGED <<material, warm, warming, warms>>
    BY <1>12 DEF vars
  <2>2. TypeOK' /\ KeyFirst' /\ StoredOK' /\ WarmOK' /\ TaskOK'
    BY <2>1 DEF TypeInv, TypeOK, KeyFirst, StoredOK, WarmOK, TaskOK
  <2> QED BY <2>1, <2>2, SameInput, SameDerived, SameAddress DEF TypeInv
<1> QED BY <1>2, <1>3, <1>4, <1>5, <1>6, <1>7, <1>8, <1>9, <1>10, <1>11,
           <1>12 DEF Next

\* Every variable keeps its type: shares and public keys are reduced
\* (convert.go of alg_ecdsa and alg_ed25519), and a refresh result lies in
\* the slot of the participants it was made for (sign_material.go:103-106).
THEOREM TypeCorrect == Spec => []TypeOK
<1>1. AddressInv => TypeOK
  BY DEF AddressInv, TypeInv
<1> QED BY AddressInit, AddressStep, <1>1, PTL DEF Spec

\* A signature that the protocol accepts, or that a single key makes,
\* verifies against the address that the wallet derives for the path from
\* the root public key alone (hd_adjust.go and derive_layers.go): for both
\* curves, any participants and threshold, whatever refreshes were committed
\* by some nodes only, and whatever the hash functions return.
THEOREM AddressCorrect == Spec => []SignedByAddressKey
<1>1. AddressInv => SignedByAddressKey
  BY DEF AddressInv
<1> QED BY AddressInit, AddressStep, <1>1, PTL DEF Spec
-----------------------------------------------------------------------------
(***************************************************************************)
(* Nodes that bring the same refresh fit together.                         *)
(***************************************************************************)
\* Results of one generation in the slots of some participants fit: what one
\* node keeps as the public share of another is that one's share.
ResultsFit ==
    \A p \in Participants : \A i \in Node, j \in p :
        /\ material[i][p] # NoMaterial /\ material[j][p] # NoMaterial
        /\ material[i][p].gen = material[j][p].gen
        => material[i][p].pubs[j] = material[j][p].share

\* The results of the refresh under way are those that the other nodes will
\* commit.
WarmFits ==
    warm # NoTask =>
        \A i \in Node, p \in Participants :
            material[i][p] # NoMaterial /\ material[i][p].gen = warm.gen =>
                /\ p = warm.nodes
                /\ material[i][p].share = NewShare(i)
                /\ material[i][p].pubs = NewPubs

\* The node i would bring now.
Brings(i) ==
    IF key.alg = "ecdsa" THEN RunSignECDSA(i, task.nodes, ToPath(task.req))
    ELSE RunSignEd25519(i, task.nodes, ToPath(task.req))

\* What a node has brought is still what it would bring: it is in no refresh,
\* and none begins (one task per key and node).
InputCurrent ==
    \A i \in Node : Present(i) =>
        i \in task.nodes /\ i \notin warming /\ input[i] = Brings(i)

ViewInv == ResultsFit /\ WarmFits /\ InputCurrent

\* CommitWarm writes one slot of one node.
LEMMA CommitFacts ==
  ASSUME TypeInv, NEW i \in Node, CommitWarm(i)
  PROVE  LET result == [gen |-> warm.gen, share |-> NewShare(i),
                        pubs |-> NewPubs]
         IN  /\ i \in warming /\ warm # NoTask
             /\ warming' = warming \ {i} /\ warm' \in {warm, NoTask}
             /\ UNCHANGED <<key, warms, task, input, outcome>>
             /\ \A k \in Node : k # i => material'[k] = material[k]
             /\ \A k \in Node, p \in Participants :
                  material'[k][p] = IF k = i /\ p = warm.nodes THEN result
                                    ELSE material[k][p]
<1> DEFINE result == [gen |-> warm.gen, share |-> NewShare(i),
                      pubs |-> NewPubs]
<1>1. /\ i \in warming /\ Return(i)
      /\ material' = [material EXCEPT ![i][warm.nodes] = result]
      /\ UNCHANGED <<key, warms, task, input, outcome>>
  BY DEF CommitWarm
<1>2. warm # NoTask
  BY <1>1, ReturnFacts
<1>3. warm.nodes \in Participants
  BY <1>2, NewShareFacts
<1> HIDE DEF result
<1>4. /\ \A k \in Node : k # i => material'[k] = material[k]
      /\ \A k \in Node, p \in Participants :
           material'[k][p] = IF k = i /\ p = warm.nodes THEN result
                             ELSE material[k][p]
  BY <1>1, <1>3 DEF TypeInv, StoredOK
<1>5. warming' = warming \ {i} /\ warm' \in {warm, NoTask}
  BY <1>1 DEF Return
<1> QED BY <1>1, <1>2, <1>4, <1>5 DEF result

\* The results stay together when one more node commits.
LEMMA ResultsFitCommit ==
  ASSUME TypeInv, ViewInv, NEW i \in Node, CommitWarm(i)
  PROVE  ResultsFit'
<1> DEFINE result == [gen |-> warm.gen, share |-> NewShare(i),
                      pubs |-> NewPubs]
<1>1. /\ warm # NoTask
      /\ \A k \in Node, p \in Participants :
           material'[k][p] = IF k = i /\ p = warm.nodes THEN result
                             ELSE material[k][p]
  BY CommitFacts
<1>2. \A j \in warm.nodes : j \in Node /\ NewPubs[j] = NewShare(j)
  BY <1>1, NewShareFacts
<1>3. /\ result.gen = warm.gen /\ result.share = NewShare(i)
      /\ result.pubs = NewPubs
  OBVIOUS
<1> HIDE DEF result
<1>4. SUFFICES ASSUME NEW p \in Participants, NEW a \in Node, NEW b \in p,
                      material'[a][p] # NoMaterial,
                      material'[b][p] # NoMaterial,
                      material'[a][p].gen = material'[b][p].gen
               PROVE  material'[a][p].pubs[b] = material'[b][p].share
  BY DEF ResultsFit
<1>5. b \in Node
  BY ShareAssumption
<1>6. CASE p # warm.nodes \/ (a # i /\ b # i)
  <2>1. material'[a][p] = material[a][p] /\ material'[b][p] = material[b][p]
    BY <1>1, <1>5, <1>6
  <2> QED BY <1>4, <2>1 DEF ViewInv, ResultsFit
<1>7. CASE p = warm.nodes /\ (a = i \/ b = i)
  <2>1. material'[a][p].gen = warm.gen /\ material'[b][p].gen = warm.gen
    BY <1>1, <1>3, <1>4, <1>5, <1>7
  <2>2. material'[a][p].pubs = NewPubs
    <3>1. CASE a = i
      BY <1>1, <1>3, <1>7, <3>1
    <3>2. CASE a # i
      <4>1. material'[a][p] = material[a][p]
        BY <1>1, <3>2
      <4> QED BY <1>1, <1>4, <2>1, <4>1 DEF ViewInv, WarmFits
    <3> QED BY <3>1, <3>2
  <2>3. material'[b][p].share = NewShare(b)
    <3>1. CASE b = i
      BY <1>1, <1>3, <1>7, <3>1
    <3>2. CASE b # i
      <4>1. material'[b][p] = material[b][p]
        BY <1>1, <1>5, <3>2
      <4> QED BY <1>1, <1>4, <1>5, <2>1, <4>1 DEF ViewInv, WarmFits
    <3> QED BY <3>1, <3>2
  <2> QED BY <1>2, <1>7, <2>2, <2>3
<1> QED BY <1>6, <1>7

\* ... and so do those of the refresh under way.
LEMMA WarmFitsCommit ==
  ASSUME TypeInv, ViewInv, NEW i \in Node, CommitWarm(i)
  PROVE  WarmFits'
<1> DEFINE result == [gen |-> warm.gen, share |-> NewShare(i),
                      pubs |-> NewPubs]
<1>1. /\ warm # NoTask /\ warm' \in {warm, NoTask} /\ key' = key
      /\ \A k \in Node, p \in Participants :
           material'[k][p] = IF k = i /\ p = warm.nodes THEN result
                             ELSE material[k][p]
  BY CommitFacts
<1>2. /\ result.gen = warm.gen /\ result.share = NewShare(i)
      /\ result.pubs = NewPubs
  OBVIOUS
<1> HIDE DEF result
<1>3. CASE warm' = NoTask
  BY <1>3 DEF WarmFits
<1>4. CASE warm' = warm
  <2>1. NewPubs' = NewPubs /\ \A k : NewShare(k)' = NewShare(k)
    BY <1>1, <1>4 DEF NewPubs, NewShare, Share
  <2>2. SUFFICES ASSUME NEW k \in Node, NEW p \in Participants,
                        material'[k][p] # NoMaterial,
                        material'[k][p].gen = warm.gen
                 PROVE  /\ p = warm.nodes
                        /\ material'[k][p].share = NewShare(k)
                        /\ material'[k][p].pubs = NewPubs
    BY <1>4, <2>1 DEF WarmFits
  <2>3. CASE k = i /\ p = warm.nodes
    BY <1>1, <1>2, <2>3
  <2>4. CASE ~(k = i /\ p = warm.nodes)
    <3>1. material'[k][p] = material[k][p]
      BY <1>1, <2>4
    <3> QED BY <1>1, <2>2, <3>1 DEF ViewInv, WarmFits
  <2> QED BY <2>3, <2>4
<1> QED BY <1>1, <1>3, <1>4

\* What a node would bring depends on the key, the task and its own slots.
LEMMA SameBrings ==
  ASSUME NEW i, UNCHANGED <<key, task>>, material'[i] = material[i]
  PROVE  Brings(i)' = Brings(i)
BY DEF Brings, RunSignECDSA, RunSignEd25519, RootPub, RootKeyID, Share,
       PartialPub, Clones, Parses, ParsesYs

\* Every step keeps what the nodes hold and bring together.
LEMMA ViewStep == AddressInv /\ ViewInv /\ [Next]_vars => ViewInv'
<1> SUFFICES ASSUME AddressInv, ViewInv, [Next]_vars PROVE ViewInv'
  OBVIOUS
<1>0. TypeInv
  BY DEF AddressInv
<1>1. ASSUME UNCHANGED <<key, material, warm>>
      PROVE  ResultsFit' /\ WarmFits'
  <2>1. ResultsFit'
    BY <1>1 DEF ViewInv, ResultsFit
  <2>2. NewPubs' = NewPubs /\ \A k : NewShare(k)' = NewShare(k)
    BY <1>1 DEF NewPubs, NewShare, Share
  <2>3. WarmFits'
    BY <1>1, <2>2 DEF ViewInv, WarmFits
  <2> QED BY <2>1, <2>3
<1>2. ASSUME UNCHANGED <<key, task, input, material>>,
             \A k \in Node : Present(k) => k \notin warming'
      PROVE  InputCurrent'
  <2>1. \A k : Present(k)' = Present(k) /\ Brings(k)' = Brings(k)
    <3>1. \A k : Present(k)' = Present(k)
      BY <1>2 DEF Present
    <3>2. \A k : Brings(k)' = Brings(k)
      BY <1>2, SameBrings
    <3> QED BY <3>1, <3>2
  <2> QED BY <1>2, <2>1 DEF ViewInv, InputCurrent
<1>3. ASSUME NEW f \in Polynomial, NEW kind \in {"shares", "single"},
             NEW alg \in Algs, NewKey(kind, alg, f)
      PROVE  ViewInv'
  <2>1. UNCHANGED <<material, warm, warming, task, input>>
    BY <1>3 DEF NewKey
  <2>2. task = NoTask /\ warm = NoTask
    BY <1>0, <1>3 DEF NewKey, TypeInv, KeyFirst
  <2>3. \A k \in Node : ~Present(k)'
    BY <1>0, <2>1, <2>2 DEF TypeInv, InputOK, Present
  <2>4. ResultsFit'
    BY <2>1 DEF ViewInv, ResultsFit
  <2>5. WarmFits' /\ InputCurrent'
    BY <2>1, <2>2, <2>3 DEF WarmFits, InputCurrent
  <2> QED BY <2>4, <2>5 DEF ViewInv
<1>4. CASE RunDKG \/ RunDKGEd25519 \/ KeygenECDSA \/ KeygenEd25519
  <2>1. \E f \in Polynomial, kind \in {"shares", "single"}, alg \in Algs :
          NewKey(kind, alg, f)
    BY <1>4 DEF RunDKG, RunDKGEd25519, KeygenECDSA, KeygenEd25519, Algs
  <2> QED BY <1>3, <2>1
<1>5. ASSUME NEW p \in Participants, RunRefresh(p) PROVE ViewInv'
  <2>1. /\ UNCHANGED <<key, material, task, input>> /\ warming' = p
        /\ warm'.gen = warms + 1
    BY <1>5 DEF RunRefresh
  <2>2. ASSUME NEW i \in Node, NEW q \in Participants,
               material[i][q] # NoMaterial
        PROVE  material[i][q].gen # warms + 1
    <3>1. material[i][q].gen \in 1 .. warms /\ warms \in Nat
      BY <1>0, <2>2 DEF TypeInv, TypeOK
    <3> QED BY <3>1
  <2>3. WarmFits'
    BY <2>1, <2>2 DEF WarmFits
  <2>4. ResultsFit'
    BY <2>1 DEF ViewInv, ResultsFit
  <2>5. \A k \in Node : Present(k) => k \notin warming'
    <3>1. \A k \in Node : Present(k) => Busy(k)
      BY <1>0 DEF ViewInv, InputCurrent, TypeInv, InputOK, Present, Busy
    <3> QED BY <1>5, <2>1, <3>1 DEF RunRefresh
  <2> QED BY <1>2, <2>1, <2>3, <2>4, <2>5 DEF ViewInv
<1>6. ASSUME NEW i \in Node, CommitWarm(i) PROVE ViewInv'
  <2>1. ResultsFit' /\ WarmFits'
    BY <1>0, <1>6, ResultsFitCommit, WarmFitsCommit
  <2>2. /\ i \in warming /\ warming' = warming \ {i}
        /\ UNCHANGED <<key, task, input>>
        /\ \A k \in Node : k # i => material'[k] = material[k]
    BY <1>0, <1>6, CommitFacts
  <2>3. ASSUME NEW k \in Node, Present(k)'
        PROVE  /\ k \in task'.nodes /\ k \notin warming'
               /\ input'[k] = Brings(k)'
    <3>1. Present(k)
      BY <2>2, <2>3 DEF Present
    <3>2. k \in task.nodes /\ k \notin warming /\ input[k] = Brings(k)
      BY <3>1 DEF ViewInv, InputCurrent
    <3>3. Brings(k)' = Brings(k)
      BY <2>2, <3>2, SameBrings
    <3> QED BY <2>2, <3>2, <3>3
  <2>4. InputCurrent'
    BY <2>3 DEF InputCurrent
  <2> QED BY <2>1, <2>4 DEF ViewInv
<1>7. ASSUME NEW i \in Node, WarmFails(i) PROVE ViewInv'
  <2>1. /\ UNCHANGED <<key, material, task, input>>
        /\ warming' = warming \ {i} /\ warm' \in {warm, NoTask}
    BY <1>7 DEF WarmFails, Return
  <2>2. InputCurrent'
    BY <1>2, <2>1 DEF ViewInv, InputCurrent
  <2>3. CASE warm' = warm
    BY <1>1, <2>1, <2>2, <2>3 DEF ViewInv
  <2>4. CASE warm' = NoTask
    BY <2>1, <2>2, <2>4 DEF ViewInv, ResultsFit, WarmFits
  <2> QED BY <2>1, <2>3, <2>4
<1>8. ASSUME NEW i \in Node, NEW in, Bring(i, in), in = Brings(i)
      PROVE  ViewInv'
  <2>1. /\ UNCHANGED <<key, material, warm, warming, task>>
        /\ task # NoTask /\ i \in task.nodes
        /\ input' = [input EXCEPT ![i] =
                       IF i \in warming \/ ~Admits(task.nodes, task.req)
                       THEN Refused ELSE in]
    BY <1>8 DEF Bring
  <2>2. input \in [Node -> Inputs \union {NoInput, Refused}]
    BY <1>0 DEF TypeInv, TypeOK
  <2>3. \A k \in Node : Brings(k)' = Brings(k)
    BY <2>1, SameBrings
  <2>4. ASSUME NEW k \in Node, Present(k)'
        PROVE  k \in task.nodes /\ k \notin warming /\ input'[k] = Brings(k)
    <3>1. CASE k = i
      BY <1>8, <2>1, <2>2, <2>4, <3>1 DEF Present
    <3>2. CASE k # i
      BY <2>1, <2>2, <2>4, <3>2 DEF Present, ViewInv, InputCurrent
    <3> QED BY <3>1, <3>2
  <2>5. InputCurrent'
    BY <2>1, <2>3, <2>4 DEF InputCurrent
  <2> QED BY <1>1, <2>1, <2>5 DEF ViewInv
<1>9. ASSUME NEW i \in Node, runSignNodeECDSA(i) \/ runSignNodeFROST(i)
      PROVE  ViewInv'
  <2>1. Bring(i, Brings(i))
    BY <1>9 DEF runSignNodeECDSA, runSignNodeFROST, Brings
  <2> QED BY <1>8, <2>1
<1>10. ASSUME UNCHANGED <<key, material, warm>>,
              \A k \in Node : input'[k] = NoInput
       PROVE  ViewInv'
  BY <1>1, <1>10 DEF ViewInv, InputCurrent, Present
<1>11. ASSUME NEW p \in Participants, NEW req \in Request, SignStart(p, req)
       PROVE  ViewInv'
  BY <1>10, <1>11 DEF SignStart
<1>12. CASE SignEnd
  BY <1>10, <1>12 DEF SignEnd
<1>13. ASSUME UNCHANGED <<key, material, warm, warming, task, input>>
       PROVE  ViewInv'
  <2>1. \A k \in Node : Present(k) => k \notin warming'
    BY <1>13 DEF ViewInv, InputCurrent
  <2> QED BY <1>1, <1>2, <1>13, <2>1 DEF ViewInv
<1>14. ASSUME NEW req \in Request, NEW a,
              SignECDSA(req, a) \/ SignEd25519(req, a)
       PROVE  ViewInv'
  BY <1>13, <1>14 DEF SignECDSA, SignEd25519, SingleSign
<1>15. CASE UNCHANGED vars
  BY <1>13, <1>15 DEF vars
<1> QED BY <1>4, <1>5, <1>6, <1>7, <1>9, <1>11, <1>12, <1>14, <1>15 DEF Next

\* A share and its public share move along the path by the same tweak.
LEMMA AdjustFits ==
  ASSUME NEW p, NEW pubs \in [p -> Scalar], NEW delta \in Scalar, NEW j \in p
  PROVE  /\ AdjustPartialPubsForDelta(pubs, delta)[j]
              = BaseMult((pubs[j] + delta) % Order)
         /\ AdjustYsForDelta(pubs, delta)[j]
              = BaseMult((pubs[j] + delta) % Order)
<1> DEFINE s == pubs[j]
<1>1. s \in Scalar /\ s \in Int /\ delta \in Int
  BY OrderAssumption DEF Scalar
<1> HIDE DEF s
<1>2. (s + delta) % Order \in Scalar
  BY <1>1, ModScalar
<1>3. BaseMult((s + delta) % Order) = (s + delta) % Order
  BY <1>2, ModSmall DEF BaseMult
<1>4. BaseMult(delta) = delta
  BY ModSmall DEF BaseMult
<1>5. CASE delta = 0
  <2>1. s + delta = s /\ s % Order = s
    BY <1>1, <1>5, ModSmall
  <2> QED BY <1>3, <1>5, <2>1
          DEF AdjustPartialPubsForDelta, AdjustYsForDelta, s
<1>6. CASE delta # 0
  BY <1>3, <1>4, <1>6 DEF AdjustPartialPubsForDelta, AdjustYsForDelta, s
<1> QED BY <1>5, <1>6 DEF s

\* The invariants say that views agree.
LEMMA ViewsFit == AddressInv /\ ViewInv => ViewsAgree
<1> SUFFICES ASSUME AddressInv, ViewInv, NEW i \in Node, NEW j \in Node,
                    Present(i), Present(j), input[i].gen = input[j].gen
             PROVE  /\ input[i].pub = input[j].pub
                    /\ input[i].pubs[j] = BaseMult(input[j].share)
  BY DEF ViewsAgree, Present
<1> USE DEF AddressInv, TypeInv
<1> DEFINE p == task.nodes
           d == NodeKey(task.req)
<1>1. input[i].pub = input[j].pub
  BY DEF InputDerived
<1>2. /\ task # NoTask /\ i \in p /\ j \in p
      /\ input[i] = Brings(i) /\ input[j] = Brings(j)
      /\ Brings(i) # Refused /\ Brings(j) # Refused
  BY DEF InputOK, ViewInv, InputCurrent, Present
<1>3. key # NoKey /\ p \in Participants /\ task.req \in Request
  BY <1>2 DEF KeyFirst, TaskOK
<1>4. d \in HDNode
  BY <1>3, NodeKeyFacts
<1>5. d.delta \in Scalar
  BY <1>4 DEF HDNode
<1>6. CASE key.alg = "ecdsa"
  <2> DEFINE mi == material[i][p]
             mj == material[j][p]
             f  == FilterParticipantMaps(p, mi.pubs)
             adj(k) == AdjustShareAndPubKeyForPath(
                         material[k][p].share, RootPub, RootKeyID,
                         ToPath(task.req))
             bring(k) == [gen |-> material[k][p].gen, share |-> adj(k).share,
                          pub |-> adj(k).pub,
                          pubs |-> AdjustPartialPubsForDelta(
                            FilterParticipantMaps(p, material[k][p].pubs),
                            adj(k).delta)]
  <2>1. \A k \in Node : Brings(k) = RunSignECDSA(k, p, ToPath(task.req))
    BY <1>6 DEF Brings
  <2>2. \A k \in Node : RunSignECDSA(k, p, ToPath(task.req)) # Refused =>
          /\ material[k][p] # NoMaterial
          /\ RunSignECDSA(k, p, ToPath(task.req)) = bring(k)
    BY Zenon DEF RunSignECDSA
  <2>3. \A k \in Node : /\ adj(k).share = (material[k][p].share + d.delta)
                                             % Order
                         /\ adj(k).delta = d.delta
    BY <1>6 DEF AdjustShareAndPubKeyForPath, NodeKey
  <2> HIDE DEF adj, d
  <2>4. \A k \in Node : /\ bring(k).gen = material[k][p].gen
                          /\ bring(k).share = adj(k).share
                          /\ bring(k).pubs = AdjustPartialPubsForDelta(
                               FilterParticipantMaps(p, material[k][p].pubs),
                               adj(k).delta)
    OBVIOUS
  <2> HIDE DEF bring
  <2>5. \A k \in {i, j} : /\ material[k][p] # NoMaterial
                            /\ input[k] = bring(k)
    BY <1>2, <2>1, <2>2, Zenon
  <2>6. /\ mi # NoMaterial /\ input[i].gen = mi.gen
        /\ input[i].pubs = AdjustPartialPubsForDelta(f, d.delta)
    BY <2>3, <2>4, <2>5, Zenon
  <2>7. /\ mj # NoMaterial /\ input[j].gen = mj.gen
        /\ input[j].share = (mj.share + d.delta) % Order
    BY <2>3, <2>4, <2>5, Zenon
  <2>8. mi.pubs \in [p -> Scalar]
    BY <1>3, <2>6 DEF StoredOK
  <2>9. f \in [p -> Scalar] /\ f[j] = mi.pubs[j]
    BY <1>2, <2>8 DEF FilterParticipantMaps
  <2>10. mi.pubs[j] = mj.share
    BY <1>2, <1>3, <2>6, <2>7 DEF ViewInv, ResultsFit
  <2> HIDE DEF f, mi, mj
  <2>11. AdjustPartialPubsForDelta(f, d.delta)[j]
          = BaseMult((f[j] + d.delta) % Order)
    BY <1>2, <1>5, <2>9, AdjustFits
  <2> QED BY <1>1, <2>6, <2>7, <2>9, <2>10, <2>11
<1>7. CASE key.alg # "ecdsa"
  <2> DEFINE f == FilterYs(p, PartialPub)
  <2>1. input[i].pubs = AdjustYsForDelta(f, d.delta)
    BY <1>2, <1>7 DEF Brings, RunSignEd25519, AdjustShareEd25519, NodeKey
  <2>2. input[j].share = (Share(j) + d.delta) % Order
    BY <1>2, <1>7 DEF Brings, RunSignEd25519, AdjustShareEd25519, NodeKey
  <2>3. \A k \in Node : Share(k) \in Scalar /\ BaseMult(Share(k)) = Share(k)
    BY <1>3, ShareType, ModSmall DEF BaseMult
  <2>4. p \subseteq Node
    BY <1>3, ShareAssumption
  <2>5. f \in [p -> Scalar] /\ f[j] = Share(j)
    BY <1>2, <2>3, <2>4 DEF FilterYs, PartialPub
  <2> HIDE DEF f, d
  <2>6. AdjustYsForDelta(f, d.delta)[j] = BaseMult((f[j] + d.delta) % Order)
    BY <1>2, <1>5, <2>5, AdjustFits
  <2> QED BY <1>1, <2>1, <2>2, <2>5, <2>6
<1> QED BY <1>6, <1>7

\* Before keygen nothing is held or brought.
LEMMA ViewInit == Init => ViewInv
<1> SUFFICES ASSUME Init PROVE ViewInv
  OBVIOUS
<1>1. ResultsFit /\ WarmFits
  BY ShareAssumption DEF Init, ResultsFit, WarmFits
<1>2. InputCurrent
  BY DEF Init, InputCurrent, Present
<1> QED BY <1>1, <1>2 DEF ViewInv

\* Whatever refreshes are committed by some nodes and not by others while a
\* sign is under way, nodes that bring shares of the same refresh fit
\* together after the move along the path (RunSign, FilterParticipantMaps and
\* AdjustPartialPubsForDelta), so that no proof of the protocol fails.
THEOREM ViewsCorrect == Spec => []ViewsAgree
BY ViewInit, AddressInit, AddressStep, ViewStep, ViewsFit, PTL DEF Spec
-----------------------------------------------------------------------------
(***************************************************************************)
(* Interpolation at 0 over the field of scalars.                           *)
(***************************************************************************)
\* A factor may be reduced in between.
LEMMA ModMul ==
  ASSUME NEW n \in Nat, n > 0, NEW a \in Int, NEW b \in Int
  PROVE  ((a % n) * b) % n = (a * b) % n
<1>1. PICK d \in Int, m \in 0 .. n - 1 : a = n * d + m /\ m = a % n
  BY DivMod
<1>2. m \in Int /\ m * b \in Int
  OBVIOUS
<1>3. PICK e \in Int, r \in 0 .. n - 1 : m * b = n * e + r /\ r = (m * b) % n
  BY <1>2, DivMod
<1>4. a * b = n * (d * b + e) + r
  <2>1. a * b = (n * d + m) * b
    BY <1>1
  <2>2. (n * d + m) * b = n * (d * b) + m * b
    BY <1>2
  <2>3. n * (d * b + e) = n * (d * b) + n * e
    OBVIOUS
  <2> QED BY <2>1, <2>2, <2>3, <1>3
<1>5. d * b + e \in Int
  OBVIOUS
<1>6. (a * b) % n = r
  BY <1>4, <1>5, ModUnique
<1> QED BY <1>1, <1>3, <1>6

\* Equal modulo the order.
Cong(a, b) == a % Order = b % Order

\* A remainder stands for what it is the remainder of.
LEMMA CongMod ==
  ASSUME NEW a \in Int
  PROVE  a % Order \in Int /\ Cong(a % Order, a)
<1>1. a % Order \in Scalar
  BY ModScalar
<1> QED BY <1>1, ModSmall DEF Cong, Scalar

\* Sums of what is equal modulo the order.
LEMMA CongAdd ==
  ASSUME NEW a \in Int, NEW b \in Int, NEW c \in Int, NEW d \in Int,
         Cong(a, b), Cong(c, d)
  PROVE  Cong(a + c, b + d)
<1>0. Order \in Nat /\ Order > 0 /\ a % Order \in Int /\ c % Order \in Int
  BY OrderAssumption, CongMod
<1>1. (a + c) % Order = ((a % Order) + c) % Order
  BY <1>0, ModAdd
<1>2. ((b % Order) + c) % Order = (b + c) % Order
  BY <1>0, ModAdd
<1>3. (c + b) % Order = ((c % Order) + b) % Order
  BY <1>0, ModAdd
<1>4. ((d % Order) + b) % Order = (d + b) % Order
  BY <1>0, ModAdd
<1>5. b + c = c + b /\ b + d = d + b
  OBVIOUS
<1> QED BY <1>1, <1>2, <1>3, <1>4, <1>5 DEF Cong

\* Products.
LEMMA CongMul ==
  ASSUME NEW a \in Int, NEW b \in Int, NEW c \in Int, NEW d \in Int,
         Cong(a, b), Cong(c, d)
  PROVE  Cong(a * c, b * d)
<1>0. Order \in Nat /\ Order > 0 /\ a % Order \in Int /\ c % Order \in Int
  BY OrderAssumption, CongMod
<1>1. (a * c) % Order = ((a % Order) * c) % Order
  BY <1>0, ModMul
<1>2. ((b % Order) * c) % Order = (b * c) % Order
  BY <1>0, ModMul
<1>3. (c * b) % Order = ((c % Order) * b) % Order
  BY <1>0, ModMul
<1>4. ((d % Order) * b) % Order = (d * b) % Order
  BY <1>0, ModMul
<1>5. b * c = c * b /\ b * d = d * b
  OBVIOUS
<1> QED BY <1>1, <1>2, <1>3, <1>4, <1>5 DEF Cong

\* Multiples.
LEMMA CongTimes ==
  ASSUME NEW a \in Int, NEW b \in Int, NEW c \in Int, Cong(a, b)
  PROVE  Cong(c * a, c * b) /\ Cong(a * c, b * c)
<1>1. Cong(c, c)
  BY DEF Cong
<1> QED BY <1>1, CongMul

\* Equality modulo the order is transitive ...
LEMMA CongTrans ==
  ASSUME NEW a, NEW b, NEW c, Cong(a, b), Cong(b, c)
  PROVE  Cong(a, c)
BY DEF Cong

\* ... and symmetric.
LEMMA CongSym ==
  ASSUME NEW a, NEW b, Cong(a, b)
  PROVE  Cong(b, a)
BY DEF Cong

\* Every scalar but 0 has an inverse.
LEMMA InvFact ==
  ASSUME NEW k \in Scalar, k # 0
  PROVE  Inv(k) \in Scalar /\ (k * Inv(k)) % Order = 1
<1>1. \E y \in Scalar : (k * y) % Order = 1
  BY FieldAssumption
<1> QED BY <1>1 DEF Inv

\* Different nodes have coordinates that differ modulo the order.
LEMMA Difference ==
  ASSUME NEW i \in XCoordinate, NEW j \in XCoordinate, i # j
  PROVE  (j - i) % Order \in Scalar /\ (j - i) % Order # 0
<1>0. /\ Order \in Nat /\ Order > 0 /\ j - i \in Int
      /\ i \in 1 .. Order - 1 /\ j \in 1 .. Order - 1
  BY OrderAssumption DEF XCoordinate, Scalar
<1>1. PICK d \in Int, m \in 0 .. Order - 1 :
        j - i = Order * d + m /\ m = (j - i) % Order
  BY <1>0, DivMod
<1>2. ASSUME m = 0 PROVE FALSE
  <2>1. j - i = Order * d
    BY <1>0, <1>1, <1>2
  <2>2. CASE d >= 1
    <3>1. Order * d >= Order
      BY <1>0, <2>2
    <3> QED BY <1>0, <2>1, <3>1
  <2>3. CASE d <= -1
    <3>1. Order * d <= -Order
      BY <1>0, <2>3
    <3> QED BY <1>0, <2>1, <3>1
  <2>4. CASE d = 0
    BY <1>0, <2>1, <2>4
  <2> QED BY <2>2, <2>3, <2>4
<1> QED BY <1>1, <1>2, <1>0, ModScalar

\* What is not 0 may be cancelled.
LEMMA Cancel ==
  ASSUME NEW k \in Int, k % Order # 0, NEW a \in Int, NEW b \in Int,
         Cong(k * a, k * b)
  PROVE  Cong(a, b)
<1> DEFINE m == k % Order
           y == Inv(m)
<1>1. m \in Scalar /\ y \in Scalar /\ (m * y) % Order = 1
  BY ModScalar, InvFact
<1>2. m \in Int /\ y \in Int /\ Cong(m, k)
  BY <1>1, CongMod DEF Scalar
<1> HIDE DEF m, y
<1>3. 1 % Order = 1
  BY OrderAssumption, ModSmall DEF Scalar
<1>4. Cong(m * y, 1)
  BY <1>1, <1>3 DEF Cong
<1>5. ASSUME NEW x \in Int PROVE Cong(y * (k * x), x)
  <2>1. Cong(k * y, m * y)
    BY <1>2, CongSym, CongTimes
  <2>2. Cong(k * y, 1)
    BY <2>1, <1>4, CongTrans
  <2> DEFINE t == k * y
  <2>3. t \in Int /\ 1 \in Int /\ Cong(t, 1)
    BY <1>2, <2>2
  <2> HIDE DEF t
  <2>4. Cong(t * x, 1 * x)
    BY <2>3, CongTimes
  <2>5. (k * y) * x = y * (k * x) /\ 1 * x = x
    BY <1>2
  <2> QED BY <2>4, <2>5 DEF t
<1>6. k * a \in Int /\ k * b \in Int
  OBVIOUS
<1>7. Cong(y * (k * a), y * (k * b))
  BY <1>2, <1>6, CongTimes
<1> QED BY <1>5, <1>7 DEF Cong

\* The sum and the product as recursions over the coordinates.
LEMMA TotalEquation ==
  ASSUME NEW u \in [XCoordinate -> Scalar]
  PROVE  \E s \in [0 .. Order - 1 -> Scalar] :
           /\ s[0] = 0
           /\ \A n \in XCoordinate : s[n] = (s[n - 1] + u[n]) % Order
           /\ Total(u) = s[Order - 1]
<1> DEFINE Body(h, n) == IF n = 0 THEN 0 ELSE (h[n - 1] + u[n]) % Order
           H == CHOOSE h : h = [n \in 0 .. Order - 1 |-> Body(h, n)]
           F == [vi \in Scalar \X (1 .. Order - 1) |->
                   (vi[1] + u[vi[2]]) % Order]
<1>0. /\ Order - 1 \in Nat /\ 0 \in Scalar /\ Scalar \subseteq Int
      /\ XCoordinate = 1 .. Order - 1
  BY OrderAssumption DEF Scalar, XCoordinate
<1>1. Total(u) = H[Order - 1]
  BY Zenon DEF Total
<1>2. ASSUME NEW v \in Scalar, NEW i \in 1 .. Order - 1
      PROVE  (v + u[i]) % Order \in Scalar
  <2>1. u[i] \in Int /\ v \in Int
    BY <1>0
  <2> QED BY <2>1, ModScalar
<1>3. F \in [Scalar \X (1 .. Order - 1) -> Scalar]
  BY <1>2
<1>4. PICK w : Recursion(w, Order - 1, Scalar, 0, F)
  <2> HIDE DEF F
  <2> QED BY <1>0, <1>3, RecursionExists, Zenon
<1> USE DEF Recursion
<1>5. ASSUME NEW n \in 0 .. Order - 1 PROVE w[n] = Body(w, n)
  <2>1. CASE n = 0
    BY <1>4, <2>1
  <2>2. CASE n # 0
    <3>1. n \in 1 .. Order - 1 /\ n - 1 \in 0 .. Order - 1
      BY <1>0, <2>2
    <3>2. w[n - 1] \in Scalar
      BY <1>4, <3>1
    <3>3. F[<<w[n - 1], n>>] = (w[n - 1] + u[n]) % Order
      BY <3>1, <3>2
    <3> QED BY <1>4, <3>1, <3>3, <2>2
  <2> QED BY <2>1, <2>2
<1>6. w = [n \in 0 .. Order - 1 |-> Body(w, n)]
  BY <1>4, <1>5
<1>7. H = [n \in 0 .. Order - 1 |-> Body(H, n)]
  <2> HIDE DEF Body
  <2> QED BY <1>6, Zenon
<1> HIDE DEF H
<1>8. /\ H[0] = 0
      /\ \A n \in XCoordinate : H[n] = (H[n - 1] + u[n]) % Order
  <2>1. \A n \in 0 .. Order - 1 : H[n] = Body(H, n)
    <3> HIDE DEF Body
    <3> QED BY <1>7, Zenon
  <2>2. 0 \in 0 .. Order - 1 /\ 1 .. Order - 1 \subseteq 0 .. Order - 1
    BY <1>0
  <2>3. \A n \in 1 .. Order - 1 : n # 0
    OBVIOUS
  <2> QED BY <1>0, <2>1, <2>2, <2>3
<1> DEFINE T == {n \in 0 .. Order - 1 : H[n] \notin Scalar}
<1>9. T = {}
  <2> SUFFICES ASSUME T # {} PROVE FALSE
    OBVIOUS
  <2>1. T \in SUBSET Nat
    OBVIOUS
  <2>2. PICK m \in T : \A k \in T : m <= k
    BY <2>1, LeastNatural
  <2>3. m # 0 /\ m \in 1 .. Order - 1 /\ m - 1 \in 0 .. Order - 1
    BY <1>8, <1>0
  <2>4. H[m - 1] \in Scalar
    BY <2>2, <2>3
  <2> QED BY <1>0, <1>2, <1>8, <2>3, <2>4
<1>10. H \in [0 .. Order - 1 -> Scalar]
  <2> HIDE DEF Body
  <2>1. \A n \in 0 .. Order - 1 : H[n] \in Scalar
    BY <1>9
  <2> QED BY <1>7, <2>1
<1> QED BY <1>1, <1>8, <1>10
\* Products are built up in the same way.
LEMMA ProductEquation ==
  ASSUME NEW u \in [XCoordinate -> Scalar]
  PROVE  \E s \in [0 .. Order - 1 -> Scalar] :
           /\ s[0] = 1
           /\ \A n \in XCoordinate : s[n] = (s[n - 1] * u[n]) % Order
           /\ Product(u) = s[Order - 1]
<1> DEFINE Body(h, n) == IF n = 0 THEN 1 ELSE (h[n - 1] * u[n]) % Order
           H == CHOOSE h : h = [n \in 0 .. Order - 1 |-> Body(h, n)]
           F == [vi \in Scalar \X (1 .. Order - 1) |->
                   (vi[1] * u[vi[2]]) % Order]
<1>0. /\ Order - 1 \in Nat /\ 1 \in Scalar /\ Scalar \subseteq Int
      /\ XCoordinate = 1 .. Order - 1
  BY OrderAssumption DEF Scalar, XCoordinate
<1>1. Product(u) = H[Order - 1]
  BY Zenon DEF Product
<1>2. ASSUME NEW v \in Scalar, NEW i \in 1 .. Order - 1
      PROVE  (v * u[i]) % Order \in Scalar
  <2>1. u[i] \in Int /\ v \in Int
    BY <1>0
  <2> DEFINE x == u[i]
  <2>2. v * x \in Int
    <3>1. x \in Int
      BY <2>1
    <3> HIDE DEF x
    <3> QED BY <2>1, <3>1
  <2> QED BY <2>2, ModScalar
<1>3. F \in [Scalar \X (1 .. Order - 1) -> Scalar]
  BY <1>2
<1>4. PICK w : Recursion(w, Order - 1, Scalar, 1, F)
  <2> HIDE DEF F
  <2> QED BY <1>0, <1>3, RecursionExists, Zenon
<1> USE DEF Recursion
<1>5. ASSUME NEW n \in 0 .. Order - 1 PROVE w[n] = Body(w, n)
  <2>1. CASE n = 0
    BY <1>4, <2>1
  <2>2. CASE n # 0
    <3>1. n \in 1 .. Order - 1 /\ n - 1 \in 0 .. Order - 1
      BY <1>0, <2>2
    <3>2. w[n - 1] \in Scalar
      BY <1>4, <3>1
    <3>3. F[<<w[n - 1], n>>] = (w[n - 1] * u[n]) % Order
      BY <3>1, <3>2
    <3> QED BY <1>4, <3>1, <3>3, <2>2
  <2> QED BY <2>1, <2>2
<1>6. w = [n \in 0 .. Order - 1 |-> Body(w, n)]
  BY <1>4, <1>5
<1>7. H = [n \in 0 .. Order - 1 |-> Body(H, n)]
  <2> HIDE DEF Body
  <2> QED BY <1>6, Zenon
<1> HIDE DEF H
<1>8. /\ H[0] = 1
      /\ \A n \in XCoordinate : H[n] = (H[n - 1] * u[n]) % Order
  <2>1. \A n \in 0 .. Order - 1 : H[n] = Body(H, n)
    <3> HIDE DEF Body
    <3> QED BY <1>7, Zenon
  <2>2. 0 \in 0 .. Order - 1 /\ 1 .. Order - 1 \subseteq 0 .. Order - 1
    BY <1>0
  <2>3. \A n \in 1 .. Order - 1 : n # 0
    OBVIOUS
  <2> QED BY <1>0, <2>1, <2>2, <2>3
<1> DEFINE T == {n \in 0 .. Order - 1 : H[n] \notin Scalar}
<1>9. T = {}
  <2> SUFFICES ASSUME T # {} PROVE FALSE
    OBVIOUS
  <2>1. T \in SUBSET Nat
    OBVIOUS
  <2>2. PICK m \in T : \A k \in T : m <= k
    BY <2>1, LeastNatural
  <2>3. m # 0 /\ m \in 1 .. Order - 1 /\ m - 1 \in 0 .. Order - 1
    BY <1>8, <1>0
  <2>4. H[m - 1] \in Scalar
    BY <2>2, <2>3
  <2> QED BY <1>0, <1>2, <1>8, <2>3, <2>4
<1>10. H \in [0 .. Order - 1 -> Scalar]
  <2> HIDE DEF Body
  <2>1. \A n \in 0 .. Order - 1 : H[n] \in Scalar
    BY <1>9
  <2> QED BY <1>7, <2>1
<1> QED BY <1>1, <1>8, <1>10

\* A sum of sums: three vectors at most are combined below.
LEMMA TotalLinear ==
  ASSUME NEW u \in [XCoordinate -> Scalar], NEW e \in Int,
         NEW v \in [XCoordinate -> Scalar], NEW c \in Int,
         NEW w \in [XCoordinate -> Scalar], NEW d \in Int,
         NEW x \in [XCoordinate -> Scalar], NEW g \in Int,
         \A n \in XCoordinate :
            Cong(e * u[n], c * v[n] + d * w[n] + g * x[n])
  PROVE  Cong(e * Total(u), c * Total(v) + d * Total(w) + g * Total(x))
<1>0. /\ Order - 1 \in Nat /\ Scalar \subseteq Int
      /\ XCoordinate = 1 .. Order - 1 /\ 0 % Order = 0
  BY OrderAssumption, ModSmall DEF Scalar, XCoordinate
<1> DEFINE Sums(s, y) == /\ s \in [0 .. Order - 1 -> Scalar] /\ s[0] = 0
                         /\ \A n \in XCoordinate :
                              s[n] = (s[n - 1] + y[n]) % Order
                         /\ Total(y) = s[Order - 1]
<1>1. /\ \E s : Sums(s, u)
      /\ \E s : Sums(s, v)
      /\ \E s : Sums(s, w)
      /\ \E s : Sums(s, x)
  BY TotalEquation
<1>2. PICK su : Sums(su, u)
  <2> HIDE DEF Sums
  <2> QED BY <1>1
<1>3. PICK sv : Sums(sv, v)
  <2> HIDE DEF Sums
  <2> QED BY <1>1
<1>4. PICK sw : Sums(sw, w)
  <2> HIDE DEF Sums
  <2> QED BY <1>1
<1>5. PICK sx : Sums(sx, x)
  <2> HIDE DEF Sums
  <2> QED BY <1>1
<1> DEFINE Right(n) == c * sv[n] + d * sw[n] + g * sx[n]
           T == {n \in 0 .. Order - 1 : ~Cong(e * su[n], Right(n))}
<1>6. SUFFICES T = {}
  <2>1. Order - 1 \notin T /\ Order - 1 \in 0 .. Order - 1
    BY <1>0, <1>6
  <2>2. Cong(e * su[Order - 1], Right(Order - 1))
    BY <2>1
  <2> QED BY <1>2, <1>3, <1>4, <1>5, <2>2
<1>7. SUFFICES ASSUME T # {} PROVE FALSE
  OBVIOUS
<1>8. PICK m \in T : \A k \in T : m <= k
  <2>1. T \in SUBSET Nat
    OBVIOUS
  <2> QED BY <1>7, <2>1, LeastNatural
<1>9. m # 0
  <2>1. e * su[0] = 0 /\ Right(0) = 0
    BY <1>2, <1>3, <1>4, <1>5
  <2>2. Cong(e * su[0], Right(0))
    BY <2>1 DEF Cong
  <2> QED BY <2>2, <1>8
<1>10. m \in XCoordinate /\ m - 1 \in 0 .. Order - 1 /\ m - 1 \notin T
  BY <1>0, <1>8, <1>9
<1>11. Cong(e * su[m - 1], Right(m - 1))
  BY <1>10
<1> DEFINE u0 == su[m - 1]   u1 == u[m]
           v0 == sv[m - 1]   v1 == v[m]
           w0 == sw[m - 1]   w1 == w[m]
           x0 == sx[m - 1]   x1 == x[m]
<1>12. /\ u0 \in Int /\ u1 \in Int /\ v0 \in Int /\ v1 \in Int
       /\ w0 \in Int /\ w1 \in Int /\ x0 \in Int /\ x1 \in Int
  BY <1>0, <1>2, <1>3, <1>4, <1>5, <1>10
<1>13. /\ su[m] = (u0 + u1) % Order /\ sv[m] = (v0 + v1) % Order
       /\ sw[m] = (w0 + w1) % Order /\ sx[m] = (x0 + x1) % Order
  BY <1>2, <1>3, <1>4, <1>5, <1>10
<1>14. Cong(e * u0, c * v0 + d * w0 + g * x0)
  BY <1>11
<1>15. Cong(e * u1, c * v1 + d * w1 + g * x1)
  BY <1>10
<1> HIDE DEF u0, u1, v0, v1, w0, w1, x0, x1, Sums
<1> DEFINE A == e * u0   B == c * v0 + d * w0 + g * x0
           C == e * u1   D == c * v1 + d * w1 + g * x1
<1>16. A \in Int /\ B \in Int /\ C \in Int /\ D \in Int
  BY <1>12
<1>17. A + C = e * (u0 + u1)
  BY <1>12
<1>18. B + D = c * (v0 + v1) + d * (w0 + w1) + g * (x0 + x1)
  BY <1>12
<1> HIDE DEF A, B, C, D
<1>19. Cong(A + C, B + D)
  BY <1>14, <1>15, <1>16, CongAdd DEF A, B, C, D
<1>20. ASSUME NEW y \in Int, NEW z \in Int
       PROVE  Cong(y * (z % Order), y * z) /\ y * (z % Order) \in Int
  BY CongMod, CongTimes
<1>21. Cong(e * su[m], e * (u0 + u1))
  BY <1>12, <1>13, <1>20
<1>22. Cong(Right(m), c * (v0 + v1) + d * (w0 + w1) + g * (x0 + x1))
  <2> DEFINE p1 == c * sv[m]   q1 == c * (v0 + v1)
             p2 == d * sw[m]   q2 == d * (w0 + w1)
             p3 == g * sx[m]   q3 == g * (x0 + x1)
  <2>1. Cong(p1, q1) /\ p1 \in Int
    <3> DEFINE z == v0 + v1
               r == sv[m]
    <3>1. z \in Int /\ r = z % Order
      BY <1>12, <1>13
    <3> HIDE DEF z, r
    <3>2. Cong(c * r, c * z) /\ c * r \in Int
      BY <1>20, <3>1
    <3> QED BY <3>2 DEF z, r
  <2>2. Cong(p2, q2) /\ p2 \in Int
    <3> DEFINE z == w0 + w1
               r == sw[m]
    <3>1. z \in Int /\ r = z % Order
      BY <1>12, <1>13
    <3> HIDE DEF z, r
    <3>2. Cong(d * r, d * z) /\ d * r \in Int
      BY <1>20, <3>1
    <3> QED BY <3>2 DEF z, r
  <2>7. Cong(p3, q3) /\ p3 \in Int
    <3> DEFINE z == x0 + x1
               r == sx[m]
    <3>1. z \in Int /\ r = z % Order
      BY <1>12, <1>13
    <3> HIDE DEF z, r
    <3>2. Cong(g * r, g * z) /\ g * r \in Int
      BY <1>20, <3>1
    <3> QED BY <3>2 DEF z, r
  <2>3. q1 \in Int /\ q2 \in Int /\ q3 \in Int
    BY <1>12
  <2>4. p1 + p2 + p3 = Right(m)
    OBVIOUS
  <2> HIDE DEF p1, p2, p3, q1, q2, q3, Right
  <2>5. Cong(p1 + p2, q1 + q2)
    BY <2>1, <2>2, <2>3, CongAdd
  <2>6. Cong((p1 + p2) + p3, (q1 + q2) + q3)
    <3>1. p1 + p2 \in Int /\ q1 + q2 \in Int
      BY <2>1, <2>2, <2>3
    <3> QED BY <2>3, <2>5, <2>7, <3>1, CongAdd
  <2> QED BY <2>4, <2>6 DEF q1, q2, q3
<1>23. Cong(e * su[m], Right(m))
  BY <1>17, <1>18, <1>19, <1>21, <1>22 DEF Cong
<1> QED BY <1>8, <1>23

\* The sum of a vector with a 1 in one place.
LEMMA TotalUnit ==
  ASSUME NEW a \in XCoordinate,
         NEW u \in [XCoordinate -> Scalar], u[a] = 1,
         \A n \in XCoordinate \ {a} : u[n] = 0
  PROVE  Total(u) = 1
<1>0. /\ Order - 1 \in Nat /\ XCoordinate = 1 .. Order - 1
      /\ 0 % Order = 0 /\ 1 % Order = 1
  BY OrderAssumption, ModSmall DEF Scalar, XCoordinate
<1>1. PICK s \in [0 .. Order - 1 -> Scalar] :
        /\ s[0] = 0
        /\ \A n \in XCoordinate : s[n] = (s[n - 1] + u[n]) % Order
        /\ Total(u) = s[Order - 1]
  BY TotalEquation
<1> DEFINE Sum(n) == IF n < a THEN 0 ELSE 1
           T == {n \in 0 .. Order - 1 : s[n] # Sum(n)}
<1>2. SUFFICES T = {}
  BY <1>0, <1>1
<1>3. SUFFICES ASSUME T # {} PROVE FALSE
  OBVIOUS
<1>4. PICK m \in T : \A k \in T : m <= k
  <2>1. T \in SUBSET Nat
    OBVIOUS
  <2> QED BY <1>3, <2>1, LeastNatural
<1>5. m # 0
  BY <1>0, <1>1, <1>4
<1>6. m \in XCoordinate /\ m - 1 \in 0 .. Order - 1 /\ m - 1 \notin T
  BY <1>0, <1>4, <1>5
<1>7. s[m] = (Sum(m - 1) + u[m]) % Order
  BY <1>1, <1>6
<1>8. CASE m = a
  BY <1>0, <1>4, <1>6, <1>7, <1>8
<1>9. CASE m # a
  <2>1. u[m] = 0 /\ Sum(m - 1) = Sum(m)
    BY <1>0, <1>6, <1>9
  <2> QED BY <1>0, <1>4, <1>7, <2>1
<1> QED BY <1>8, <1>9

\* One factor taken out of a product.
LEMMA ProductTakeOut ==
  ASSUME NEW a \in XCoordinate,
         NEW u \in [XCoordinate -> Scalar],
         NEW v \in [XCoordinate -> Scalar], v[a] = 1,
         \A n \in XCoordinate \ {a} : u[n] = v[n]
  PROVE  Cong(Product(u), u[a] * Product(v))
<1>0. /\ Order - 1 \in Nat /\ XCoordinate = 1 .. Order - 1
      /\ Scalar \subseteq Int
  BY OrderAssumption DEF Scalar, XCoordinate
<1> DEFINE Prods(s, y) == /\ s \in [0 .. Order - 1 -> Scalar] /\ s[0] = 1
                          /\ \A n \in XCoordinate :
                               s[n] = (s[n - 1] * y[n]) % Order
                          /\ Product(y) = s[Order - 1]
<1>1. \E s : Prods(s, u)
  BY ProductEquation
<1>2. \E s : Prods(s, v)
  BY ProductEquation
<1>3. PICK su : Prods(su, u)
  <2> HIDE DEF Prods
  <2> QED BY <1>1
<1>4. PICK sv : Prods(sv, v)
  <2> HIDE DEF Prods
  <2> QED BY <1>2
<1> DEFINE c == u[a]
           Right(n) == IF n < a THEN sv[n] ELSE c * sv[n]
           T == {n \in 0 .. Order - 1 : ~Cong(su[n], Right(n))}
<1>5. c \in Int
  BY <1>0
<1>6. SUFFICES T = {}
  <2>1. Order - 1 \notin T /\ Order - 1 \in 0 .. Order - 1
        /\ ~(Order - 1 < a)
    BY <1>0, <1>6
  <2>2. Cong(su[Order - 1], Right(Order - 1))
    BY <2>1
  <2> QED BY <1>3, <1>4, <2>1, <2>2
<1>7. SUFFICES ASSUME T # {} PROVE FALSE
  OBVIOUS
<1>8. PICK m \in T : \A k \in T : m <= k
  <2>1. T \in SUBSET Nat
    OBVIOUS
  <2> QED BY <1>7, <2>1, LeastNatural
<1>9. m # 0
  <2>1. su[0] = Right(0)
    BY <1>0, <1>3, <1>4
  <2> QED BY <2>1, <1>8 DEF Cong
<1>10. m \in XCoordinate /\ m - 1 \in 0 .. Order - 1 /\ m - 1 \notin T
  BY <1>0, <1>8, <1>9
<1> DEFINE u0 == su[m - 1]   u1 == u[m]
           v0 == sv[m - 1]   v1 == v[m]
<1>11. Cong(u0, Right(m - 1))
  BY <1>10
<1>12. u0 \in Int /\ u1 \in Int /\ v0 \in Int /\ v1 \in Int
  BY <1>0, <1>3, <1>4, <1>10
<1>13. su[m] = (u0 * u1) % Order /\ sv[m] = (v0 * v1) % Order
  BY <1>3, <1>4, <1>10
<1>14. /\ m < a => Cong(u0, v0) /\ u1 = v1 /\ Right(m) = sv[m]
       /\ m = a => Cong(u0, v0) /\ u1 = c /\ v1 = 1 /\ Right(m) = c * sv[m]
       /\ m > a => Cong(u0, c * v0) /\ u1 = v1 /\ Right(m) = c * sv[m]
  BY <1>0, <1>10, <1>11
<1>15. ~Cong(su[m], Right(m))
  BY <1>8
<1>16. m < a \/ m = a \/ m > a
  BY <1>0, <1>10
<1> HIDE DEF u0, u1, v0, v1, c, Right
<1>17. u0 * u1 \in Int /\ v0 * v1 \in Int
  BY <1>12
<1> DEFINE U == u0 * u1   V == v0 * v1
<1>18. Cong(su[m], U) /\ Cong(sv[m], V) /\ su[m] \in Int /\ sv[m] \in Int
  BY <1>13, <1>17, CongMod
<1>19. Cong(c * sv[m], c * V)
  <2> HIDE DEF U, V
  <2>1. V \in Int
    BY <1>17 DEF V
  <2> QED BY <1>5, <1>18, <2>1, CongTimes
<1>20. CASE m < a
  <2>1. Cong(u0 * u1, v0 * u1)
    BY <1>12, <1>14, <1>20, CongTimes
  <2> QED BY <1>14, <1>15, <1>18, <1>20, <2>1 DEF Cong
<1>21. CASE m = a
  <2>1. Cong(u0 * u1, v0 * u1)
    BY <1>12, <1>14, <1>21, CongTimes
  <2>2. v0 * u1 = c * V
    BY <1>5, <1>12, <1>14, <1>21
  <2> QED BY <1>14, <1>15, <1>18, <1>19, <1>21, <2>1, <2>2 DEF Cong
<1>22. CASE m > a
  <2> DEFINE x == c * v0
  <2>1. x \in Int /\ Cong(u0, x)
    BY <1>5, <1>12, <1>14, <1>22
  <2>2. x * u1 = c * V
    BY <1>5, <1>12, <1>14, <1>22
  <2> HIDE DEF x
  <2>3. Cong(u0 * u1, x * u1)
    BY <1>12, <2>1, CongTimes
  <2> QED BY <1>14, <1>15, <1>18, <1>19, <1>22, <2>2, <2>3 DEF Cong
<1> QED BY <1>16, <1>20, <1>21, <1>22

\* The product of ones.
LEMMA ProductOnes ==
  ASSUME NEW u \in [XCoordinate -> Scalar], \A n \in XCoordinate : u[n] = 1
  PROVE  Product(u) = 1
<1>0. /\ Order - 1 \in Nat /\ XCoordinate = 1 .. Order - 1 /\ 1 % Order = 1
  BY OrderAssumption, ModSmall DEF Scalar, XCoordinate
<1>1. PICK s \in [0 .. Order - 1 -> Scalar] :
        /\ s[0] = 1
        /\ \A n \in XCoordinate : s[n] = (s[n - 1] * u[n]) % Order
        /\ Product(u) = s[Order - 1]
  BY ProductEquation
<1> DEFINE T == {n \in 0 .. Order - 1 : s[n] # 1}
<1>2. SUFFICES T = {}
  BY <1>0, <1>1
<1>3. SUFFICES ASSUME T # {} PROVE FALSE
  OBVIOUS
<1>4. PICK m \in T : \A k \in T : m <= k
  <2>1. T \in SUBSET Nat
    OBVIOUS
  <2> QED BY <1>3, <2>1, LeastNatural
<1>5. m # 0
  BY <1>0, <1>1, <1>4
<1>6. m \in XCoordinate /\ m - 1 \in 0 .. Order - 1 /\ m - 1 \notin T
  BY <1>0, <1>4, <1>5
<1>7. s[m] = (1 * 1) % Order
  BY <1>1, <1>6
<1> QED BY <1>0, <1>4, <1>7

\* The factors and the weights are scalars.
LEMMA WeightType ==
  ASSUME NEW p \in SUBSET XCoordinate, NEW i \in XCoordinate
  PROVE  Factors(p, i) \in [XCoordinate -> Scalar] /\ Weight(p, i) \in Scalar
<1>0. Order - 1 \in 0 .. Order - 1 /\ 1 \in Scalar /\ Scalar \subseteq Int
  BY OrderAssumption DEF Scalar
<1>1. ASSUME NEW j \in p \ {i}
      PROVE  (j * Inv((j - i) % Order)) % Order \in Scalar
  <2> DEFINE y == Inv((j - i) % Order)
  <2>1. y \in Int /\ j \in Int
    BY <1>0, <1>1, Difference, InvFact DEF XCoordinate
  <2> HIDE DEF y
  <2>2. j * y \in Int
    BY <2>1
  <2>3. (j * y) % Order \in Scalar
    BY <2>2, ModScalar
  <2> QED BY <2>3 DEF y
<1>2. Factors(p, i) \in [XCoordinate -> Scalar]
  BY <1>0, <1>1 DEF Factors
<1>3. PICK s \in [0 .. Order - 1 -> Scalar] :
        Product(Factors(p, i)) = s[Order - 1]
  BY <1>2, ProductEquation
<1> QED BY <1>0, <1>2, <1>3 DEF Weight

\* A node more in the set is a factor more in the weights of the others.
LEMMA WeightStep ==
  ASSUME NEW p \in SUBSET XCoordinate, NEW a \in p, NEW i \in p \ {a}
  PROVE  Cong((a - i) * Weight(p, i), a * Weight(p \ {a}, i))
<1> DEFINE d == (a - i) % Order
           y == Inv(d)
           u == Factors(p, i)
           v == Factors(p \ {a}, i)
           W == Weight(p \ {a}, i)
<1>0. Scalar \subseteq Int /\ XCoordinate \subseteq Int
  BY OrderAssumption DEF Scalar, XCoordinate
<1>1. d \in Scalar /\ d # 0
  BY Difference
<1>2. y \in Scalar /\ (d * y) % Order = 1
  BY <1>1, InvFact
<1>3. u \in [XCoordinate -> Scalar] /\ v \in [XCoordinate -> Scalar]
      /\ W \in Int /\ Weight(p, i) \in Int
  BY <1>0, WeightType
<1>4. /\ u[a] = (a * y) % Order /\ v[a] = 1
      /\ \A n \in XCoordinate \ {a} : u[n] = v[n]
  BY DEF Factors
<1>5. Cong(Weight(p, i), u[a] * W)
  <2> HIDE DEF u, v
  <2>1. Cong(Product(u), u[a] * Product(v))
    BY <1>3, <1>4, ProductTakeOut
  <2> QED BY <2>1 DEF Weight, u, v
<1> DEFINE P == Weight(p, i)
           e == a - i
           x == u[a]
<1>6. /\ d \in Int /\ y \in Int /\ W \in Int /\ P \in Int /\ e \in Int
      /\ a \in Int /\ x \in Int
  <2>1. d \in Int /\ y \in Int /\ W \in Int /\ P \in Int
    BY <1>0, <1>1, <1>2, <1>3
  <2>2. a \in Int /\ e \in Int
    BY <1>0
  <2>3. x \in Int
    <3> HIDE DEF u
    <3> QED BY <1>0, <1>3
  <2> QED BY <2>1, <2>2, <2>3
<1>7. Cong(d, e)
  BY <1>6, CongMod
<1>8. Cong(d * y, 1)
  BY <1>2, OrderAssumption, ModSmall DEF Cong, Scalar
<1>9. a * y \in Int
  BY <1>6
<1>10. Cong(x, a * y)
  BY <1>4, <1>9, CongMod
<1>11. Cong(P, x * W)
  BY <1>5
<1> HIDE DEF d, y, u, v, W, P, e, x
<1>12. Cong(x * W, (a * y) * W)
  BY <1>6, <1>9, <1>10, CongTimes
<1> DEFINE z == (a * y) * W
<1>13. z \in Int
  BY <1>6
<1>14. Cong(P, z)
  BY <1>11, <1>12, CongTrans
<1>15. Cong(e * P, e * z)
  <2> HIDE DEF z
  <2> QED BY <1>6, <1>13, <1>14, CongTimes
<1>16. Cong(e * z, d * z)
  <2> HIDE DEF z
  <2> QED BY <1>6, <1>7, <1>13, CongTimes, CongSym
<1> DEFINE t == d * y
           r == a * W
<1>17. t \in Int /\ r \in Int
  BY <1>6
<1>18. d * z = t * r
  BY <1>6
<1>19. Cong(t * r, 1 * r)
  <2>1. Cong(t, 1) /\ 1 \in Int
    BY <1>8
  <2> HIDE DEF t, r
  <2> QED BY <1>17, <2>1, CongTimes
<1>20. 1 * r = a * W
  BY <1>17
<1> QED BY <1>15, <1>16, <1>18, <1>19, <1>20 DEF Cong, P, W, e

\* What Combine adds up.
Terms(p, f) == [n \in XCoordinate |->
                  IF n \in p THEN (f[n] * Weight(p, n)) % Order ELSE 0]
Vector == [XCoordinate -> Scalar]

\* The terms are scalars.
LEMMA TermsType ==
  ASSUME NEW p \in SUBSET XCoordinate, NEW f \in Vector
  PROVE  Terms(p, f) \in Vector /\ Combine(p, f) = Total(Terms(p, f))
         /\ Combine(p, f) \in Scalar
<1>0. /\ Scalar \subseteq Int /\ 0 \in Scalar
      /\ Order - 1 \in 0 .. Order - 1
  BY OrderAssumption DEF Scalar
<1>1. ASSUME NEW n \in p PROVE (f[n] * Weight(p, n)) % Order \in Scalar
  <2> DEFINE x == f[n]   w == Weight(p, n)
  <2>1. x \in Int /\ w \in Int
    BY <1>0, WeightType DEF Vector
  <2> HIDE DEF x, w
  <2>2. x * w \in Int
    BY <2>1
  <2>3. (x * w) % Order \in Scalar
    BY <2>2, ModScalar
  <2> QED BY <2>3 DEF x, w
<1>2. Terms(p, f) \in Vector
  BY <1>0, <1>1 DEF Terms, Vector
<1>3. Combine(p, f) = Total(Terms(p, f))
  BY DEF Combine, Terms
<1>4. PICK s \in [0 .. Order - 1 -> Scalar] :
        Total(Terms(p, f)) = s[Order - 1]
  BY <1>2, TotalEquation DEF Vector
<1> QED BY <1>0, <1>2, <1>3, <1>4

\* The terms for p and for p without a.
LEMMA TermStep ==
  ASSUME NEW p \in SUBSET XCoordinate, NEW a \in p, NEW f \in Vector,
         NEW n \in XCoordinate
  PROVE  Cong((a - n) * Terms(p, f)[n], a * Terms(p \ {a}, f)[n])
<1> DEFINE e == a - n   x == f[n]   P == Weight(p, n)
           W == Weight(p \ {a}, n)
<1>0. e \in Int /\ x \in Int /\ a \in Int /\ P \in Int /\ W \in Int
  BY WeightType DEF Vector, XCoordinate, Scalar
<1>1. CASE n \notin p
  BY <1>0, <1>1 DEF Terms, Cong
<1>2. CASE n = a
  <2>1. Terms(p, f)[n] \in Int
    BY TermsType DEF Vector, Scalar
  <2>2. Terms(p \ {a}, f)[n] = 0 /\ e = 0
    BY <1>0, <1>2 DEF Terms
  <2> QED BY <1>0, <2>1, <2>2 DEF Cong
<1>3. CASE n \in p /\ n # a
  <2>1. Terms(p, f)[n] = (x * P) % Order
        /\ Terms(p \ {a}, f)[n] = (x * W) % Order
    BY <1>3 DEF Terms
  <2>2. Cong(e * P, a * W)
    BY <1>3, WeightStep
  <2>3. x * P \in Int /\ x * W \in Int /\ e * P \in Int /\ a * W \in Int
    BY <1>0
  <2> HIDE DEF e, x, P, W
  <2> DEFINE xp == x * P   xw == x * W   ep == e * P   aw == a * W
  <2>4. Cong(e * (xp % Order), e * xp) /\ Cong(a * (xw % Order), a * xw)
    <3> HIDE DEF xp, xw
    <3>1. xp \in Int /\ xw \in Int
      BY <2>3 DEF xp, xw
    <3>2. /\ xp % Order \in Int /\ Cong(xp % Order, xp)
          /\ xw % Order \in Int /\ Cong(xw % Order, xw)
      BY <3>1, CongMod
    <3>3. Cong(e * (xp % Order), e * xp)
      BY <1>0, <3>1, <3>2, CongTimes
    <3>4. Cong(a * (xw % Order), a * xw)
      BY <1>0, <3>1, <3>2, CongTimes
    <3> QED BY <3>3, <3>4
  <2>5. e * xp = x * ep /\ a * xw = x * aw
    BY <1>0
  <2>6. Cong(x * ep, x * aw)
    <3> HIDE DEF ep, aw
    <3>1. ep \in Int /\ aw \in Int /\ Cong(ep, aw)
      BY <2>2, <2>3 DEF ep, aw
    <3> QED BY <1>0, <3>1, CongTimes
  <2>7. Cong(e * (xp % Order), a * (xw % Order))
    BY <2>4, <2>5, <2>6 DEF Cong
  <2> QED BY <2>1, <2>7 DEF e, xp, xw
<1> QED BY <1>1, <1>2, <1>3

\* Sets of x coordinates are finite.
LEMMA SubsetFinite ==
  ASSUME NEW p \in SUBSET XCoordinate
  PROVE  /\ IsFiniteSet(p) /\ Cardinality(p) \in Nat
         /\ Cardinality(p) = 0 <=> p = {}
         /\ \A a \in p : Cardinality(p \ {a}) = Cardinality(p) - 1
<1>1. XCoordinate = 1 .. Order - 1 /\ 1 \in Int /\ Order - 1 \in Int
  BY OrderAssumption DEF XCoordinate, Scalar
<1>2. IsFiniteSet(XCoordinate)
  BY <1>1, FS_Interval
<1>3. IsFiniteSet(p)
  BY <1>2, FS_Subset
<1> QED BY <1>3, FS_CardinalityType, FS_EmptySet, FS_RemoveElement

One == [n \in XCoordinate |-> 1]

\* The weights add up to one: the interpolation of a constant.
LEMMA WeightsSum ==
  ASSUME NEW p \in SUBSET XCoordinate, p # {}
  PROVE  Cong(Combine(p, One), 1)
<1>0. One \in Vector /\ 1 % Order = 1
  BY OrderAssumption, ModSmall DEF One, Vector, Scalar
<1> DEFINE Bad(k) == \E s \in SUBSET XCoordinate :
                       /\ s # {} /\ Cardinality(s) = k
                       /\ ~Cong(Combine(s, One), 1)
           T == {k \in Nat : Bad(k)}
<1>1. SUFFICES T = {}
  BY <1>1, SubsetFinite
<1>2. SUFFICES ASSUME T # {} PROVE FALSE
  OBVIOUS
<1>3. PICK m \in T : \A k \in T : m <= k
  <2>1. T \in SUBSET Nat
    OBVIOUS
  <2> QED BY <1>2, <2>1, LeastNatural
<1>4. PICK s \in SUBSET XCoordinate : /\ s # {} /\ Cardinality(s) = m
                                      /\ ~Cong(Combine(s, One), 1)
  BY <1>3
<1>5. PICK a \in s : TRUE
  BY <1>4
<1>6. CASE s = {a}
  <2>1. Factors(s, a) \in [XCoordinate -> Scalar]
        /\ \A n \in XCoordinate : Factors(s, a)[n] = 1
    BY <1>5, <1>6, WeightType DEF Factors
  <2>2. Weight(s, a) = 1
    BY <2>1, ProductOnes DEF Weight
  <2>3. Terms(s, One) \in [XCoordinate -> Scalar]
        /\ Combine(s, One) = Total(Terms(s, One))
    BY <1>0, TermsType DEF Vector
  <2>4. Terms(s, One)[a] = 1
    BY <1>0, <1>5, <2>2 DEF Terms, One
  <2>5. \A n \in XCoordinate \ {a} : Terms(s, One)[n] = 0
    BY <1>6 DEF Terms
  <2>6. Combine(s, One) = 1
    BY <1>5, <2>3, <2>4, <2>5, TotalUnit
  <2> QED BY <1>4, <2>6 DEF Cong
<1>7. CASE s # {a}
  <2>1. PICK b \in s : b # a
    BY <1>5, <1>7
  <2> DEFINE sa == s \ {a}   sb == s \ {b}
             u == Terms(s, One)   v == Terms(sa, One)   w == Terms(sb, One)
  <2>2. /\ sa \in SUBSET XCoordinate /\ sa # {}
        /\ sb \in SUBSET XCoordinate /\ sb # {}
    BY <1>5, <2>1
  <2>3. Cardinality(sa) = m - 1 /\ Cardinality(sb) = m - 1 /\ m \in Nat
        /\ m # 0
    BY <1>4, <1>5, <2>1, SubsetFinite
  <2>4. Cong(Combine(sa, One), 1) /\ Cong(Combine(sb, One), 1)
    <3>1. m - 1 \notin T
      BY <1>3, <2>3
    <3>2. m - 1 \in Nat
      BY <2>3
    <3>3. ~Bad(m - 1)
      BY <3>1, <3>2
    <3> QED BY <2>2, <2>3, <3>3
  <2>5. u \in Vector /\ v \in Vector /\ w \in Vector
    BY <1>0, <2>2, TermsType
  <2>6. /\ Total(u) = Combine(s, One) /\ Total(u) \in Int
        /\ Total(v) = Combine(sa, One) /\ Total(v) \in Int
        /\ Total(w) = Combine(sb, One) /\ Total(w) \in Int
    BY <1>0, <2>2, TermsType DEF Scalar
  <2>7. a \in Int /\ b \in Int /\ a - b \in Int /\ -b \in Int
    BY <1>5, <2>1 DEF XCoordinate, Scalar
  <2>8. ASSUME NEW n \in XCoordinate
        PROVE  Cong((a - b) * u[n], a * v[n] + (-b) * w[n] + 0 * u[n])
    <3> DEFINE x == u[n]   y == v[n]   z == w[n]
               A == (a - n) * x   B == (b - n) * x
    <3>1. x \in Int /\ y \in Int /\ z \in Int /\ n \in Int
      BY <2>5 DEF Vector, Scalar, XCoordinate
    <3>2. Cong(A, a * y)
      BY <1>0, <1>5, TermStep
    <3>3. Cong(B, b * z)
      BY <1>0, <2>1, TermStep
    <3> HIDE DEF x, y, z, u, v, w
    <3>4. A \in Int /\ B \in Int /\ a * y \in Int /\ b * z \in Int
      BY <2>7, <3>1
    <3>5. (a - b) * x = A + (-1) * B
      BY <2>7, <3>1
    <3>6. a * y + (-b) * z + 0 * x = a * y + (-1) * (b * z)
      BY <2>7, <3>1
    <3> DEFINE C == a * y   D == b * z   nB == (-1) * B   nD == (-1) * D
    <3> HIDE DEF A, B, C, D
    <3>7. Cong(nB, nD)
      <4>1. B \in Int /\ D \in Int /\ -1 \in Int /\ Cong(B, D)
        BY <3>3, <3>4 DEF D
      <4> QED BY <4>1, CongTimes
    <3>8. A \in Int /\ C \in Int /\ nB \in Int /\ nD \in Int /\ Cong(A, C)
      BY <3>2, <3>4 DEF C, D
    <3> HIDE DEF nB, nD
    <3>9. Cong(A + nB, C + nD)
      BY <3>7, <3>8, CongAdd
    <3> QED BY <3>5, <3>6, <3>9 DEF C, D, nB, nD, x, y, z
  <2>9. Cong((a - b) * Total(u),
             a * Total(v) + (-b) * Total(w) + 0 * Total(u))
    <3> HIDE DEF u, v, w
    <3> DEFINE e == a - b   nb == -b
    <3>1. e \in Int /\ nb \in Int /\ 0 \in Int /\ a \in Int
      BY <2>7
    <3>2. \A n \in XCoordinate :
            Cong(e * u[n], a * v[n] + nb * w[n] + 0 * u[n])
      BY <2>8
    <3>3. /\ u \in [XCoordinate -> Scalar] /\ v \in [XCoordinate -> Scalar]
          /\ w \in [XCoordinate -> Scalar]
      BY <2>5 DEF Vector
    <3> HIDE DEF e, nb
    <3>4. Cong(e * Total(u), a * Total(v) + nb * Total(w) + 0 * Total(u))
      BY <3>1, <3>2, <3>3, TotalLinear
    <3> QED BY <3>4 DEF e, nb
  <2> DEFINE U == Total(u)   V == Total(v)   W == Total(w)
  <2>10. U \in Int /\ V \in Int /\ W \in Int /\ Cong(V, 1) /\ Cong(W, 1)
    BY <2>4, <2>6
  <2>11. Cong((a - b) * U, a * V + (-b) * W + 0 * U)
    BY <2>9
  <2> HIDE DEF u, v, w, U, V, W
  <2>12. Cong(a * V, a * 1) /\ Cong((-b) * W, (-b) * 1)
    <3> DEFINE nb == -b
    <3>1. nb \in Int /\ a \in Int /\ 1 \in Int
      BY <2>7
    <3> HIDE DEF nb
    <3>2. Cong(a * V, a * 1) /\ Cong(nb * W, nb * 1)
      BY <2>10, <3>1, CongTimes
    <3> QED BY <3>2 DEF nb
  <2>13. /\ a * V \in Int /\ a * 1 \in Int /\ (-b) * W \in Int
         /\ (-b) * 1 \in Int
    BY <2>7, <2>10
  <2>14. Cong(a * V + (-b) * W, a * 1 + (-b) * 1)
    BY <2>12, <2>13, CongAdd
  <2>15. /\ a * 1 + (-b) * 1 = (a - b) * 1
         /\ a * V + (-b) * W + 0 * U = a * V + (-b) * W
    BY <2>7, <2>10
  <2>16. Cong((a - b) * U, (a - b) * 1)
    BY <2>11, <2>14, <2>15 DEF Cong
  <2>17. (a - b) % Order # 0
    BY <1>5, <2>1, Difference
  <2>18. Cong(U, 1)
    <3> DEFINE e == a - b
    <3>1. e \in Int /\ e % Order # 0 /\ Cong(e * U, e * 1) /\ 1 \in Int
      BY <2>7, <2>16, <2>17
    <3> HIDE DEF e
    <3> QED BY <2>10, <3>1, Cancel
  <2> QED BY <1>4, <2>6, <2>18 DEF U
<1> QED BY <1>6, <1>7

\* Shares of a polynomial interpolate to its value at 0, for every set of as
\* many nodes as it has coefficients: f = f(0) + x g, and the weights of p and
\* of p without a node cancel on x g (Neville).
LEMMA Interpolation ==
  ASSUME NEW f \in Polynomial, NEW p \in SUBSET XCoordinate,
         Cardinality(p) >= Threshold
  PROVE  Cong(Combine(p, [n \in XCoordinate |-> Eval(f, n)]), f[0])
<1>0. Threshold \in Nat /\ Threshold > 0 /\ Scalar \subseteq Int
      /\ XCoordinate \subseteq Int
  BY ShareAssumption, OrderAssumption DEF Scalar, XCoordinate
<1> DEFINE Steps(n, h) == IsHorner(f, n, h) /\ Eval(f, n) = h[Threshold]
           H(n) == CHOOSE h : Steps(n, h)
           At(d) == [n \in XCoordinate |-> H(n)[d]]
           Constant0(d) == IF d = 0 THEN 0 ELSE f[Threshold - d]
           Good(d) == \A s \in SUBSET XCoordinate :
                        Cardinality(s) >= d =>
                          Cong(Combine(s, At(d)), Constant0(d))
           T == {d \in 0 .. Threshold : ~Good(d)}
<1>1. ASSUME NEW n \in XCoordinate PROVE Steps(n, H(n))
  <2>1. \E h : Steps(n, h)
    BY <1>0, EvalEquation
  <2> HIDE DEF Steps
  <2> QED BY <2>1
<1>2. ASSUME NEW d \in 0 .. Threshold
      PROVE  At(d) \in Vector /\ Constant0(d) \in Int
  <2>1. At(d) \in Vector
    <3>1. \A n \in XCoordinate : H(n)[d] \in Scalar
      BY <1>1 DEF IsHorner
    <3> HIDE DEF H
    <3> QED BY <3>1 DEF Vector
  <2>2. Constant0(d) \in Int
    <3>1. CASE d = 0
      BY <3>1
    <3>2. CASE d # 0
      <4>1. Threshold - d \in 0 .. Threshold - 1
        BY <1>0, <3>2
      <4>2. f[Threshold - d] \in Scalar
        BY <4>1 DEF Polynomial
      <4> QED BY <1>0, <3>2, <4>2
    <3> QED BY <3>1, <3>2
  <2> QED BY <2>1, <2>2
<1>3. T = {}
  <2>1. SUFFICES ASSUME T # {} PROVE FALSE
    OBVIOUS
  <2>2. PICK d \in T : \A k \in T : d <= k
    <3>1. T \in SUBSET Nat
      OBVIOUS
    <3> QED BY <2>1, <3>1, LeastNatural
  <2>3. PICK s \in SUBSET XCoordinate :
          /\ Cardinality(s) >= d
          /\ ~Cong(Combine(s, At(d)), Constant0(d))
    BY <2>2
  <2>4. CASE d = 0
    <3>1. At(0) \in Vector
      BY <1>0, <1>2
    <3>2. ASSUME NEW n \in XCoordinate PROVE At(0)[n] = 0
      BY <1>1, <3>2 DEF IsHorner
    <3> DEFINE u == Terms(s, At(0))
    <3>3. u \in Vector /\ Combine(s, At(0)) = Total(u) /\ Total(u) \in Int
      <4> HIDE DEF At
      <4> QED BY <3>1, TermsType DEF Scalar
    <3>4. \A n \in XCoordinate : u[n] = 0
      <4> HIDE DEF At
      <4>1. \A n \in XCoordinate : Weight(s, n) \in Int
        BY <1>0, WeightType
      <4>2. 0 % Order = 0
        BY OrderAssumption, ModSmall DEF Scalar
      <4> QED BY <3>2, <4>1, <4>2 DEF Terms
    <3> HIDE DEF u
    <3>5. Cong(1 * Total(u), 0 * Total(u) + 0 * Total(u) + 0 * Total(u))
      <4>1. \A n \in XCoordinate :
              Cong(1 * u[n], 0 * u[n] + 0 * u[n] + 0 * u[n])
        BY <3>4 DEF Cong
      <4>2. u \in [XCoordinate -> Scalar] /\ 0 \in Int /\ 1 \in Int
        BY <3>3 DEF Vector
      <4> QED BY <4>1, <4>2, TotalLinear
    <3>6. Cong(Total(u), 0)
      BY <3>3, <3>5
    <3> HIDE DEF At
    <3> QED BY <2>3, <2>4, <3>3, <3>6
  <2>5. CASE d # 0
    <3>0. /\ d \in 1 .. Threshold /\ d - 1 \in 0 .. Threshold
          /\ d \in Nat
      BY <1>0, <2>5
    <3>1. Good(d - 1)
      BY <2>2, <3>0
    <3> DEFINE y == At(d - 1)   z == At(d)   c == f[Threshold - d]
               k == Constant0(d - 1)
    <3>2. y \in Vector /\ z \in Vector /\ c \in Int /\ k \in Int
      <4>1. y \in Vector /\ k \in Int /\ z \in Vector
        BY <1>2, <3>0
      <4>2. c \in Int
        <5>1. Threshold - d \in 0 .. Threshold - 1
          BY <1>0, <3>0
        <5>2. f[Threshold - d] \in Scalar
          BY <5>1 DEF Polynomial
        <5> QED BY <1>0, <5>2
      <4> QED BY <4>1, <4>2
    <3>3. ASSUME NEW n \in XCoordinate
          PROVE  z[n] = (y[n] * n + c) % Order
      BY <1>1, <3>0, <3>3 DEF IsHorner
    <3>4. /\ \A r \in SUBSET XCoordinate :
               Cardinality(r) >= d - 1 => Cong(Combine(r, y), k)
          /\ ~Cong(Combine(s, z), c)
      BY <2>3, <2>5, <3>1
    <3> HIDE DEF y, z, c, k, T, Good, At, H, Constant0
    <3>5. PICK a \in s : TRUE
      <4>1. s # {}
        BY <2>3, <3>0, SubsetFinite
      <4> QED BY <4>1
    <3> DEFINE sa == s \ {a}
               u == Terms(s, z)   v == Terms(s, y)
               w == Terms(sa, y)  x == Terms(s, One)
    <3>6. Cardinality(s) >= d - 1 /\ Cardinality(sa) >= d - 1
          /\ sa \in SUBSET XCoordinate /\ s # {}
      BY <2>3, <3>0, <3>5, SubsetFinite
    <3>7. One \in Vector
      BY OrderAssumption DEF One, Vector, Scalar
    <3>8. u \in Vector /\ v \in Vector /\ w \in Vector /\ x \in Vector
      BY <3>2, <3>6, <3>7, TermsType
    <3>9. /\ Total(u) = Combine(s, z) /\ Total(u) \in Int
          /\ Total(v) = Combine(s, y) /\ Total(v) \in Int
          /\ Total(w) = Combine(sa, y) /\ Total(w) \in Int
          /\ Total(x) = Combine(s, One) /\ Total(x) \in Int
      BY <3>2, <3>6, <3>7, TermsType DEF Scalar
    <3>10. a \in Int /\ -a \in Int
      BY <1>0, <3>5
    <3>11. ASSUME NEW n \in XCoordinate
           PROVE  Cong(1 * u[n], a * v[n] + (-a) * w[n] + c * x[n])
      <4> DEFINE un == u[n]   vn == v[n]   wn == w[n]   xn == x[n]
                 W == Weight(s, n)   yn == y[n]
      <4>1. /\ un \in Int /\ vn \in Int /\ wn \in Int /\ xn \in Int
            /\ W \in Int /\ yn \in Int /\ n \in Int
        BY <1>0, <3>2, <3>8, WeightType DEF Vector
      <4>2. Cong((a - n) * vn, a * wn)
        BY <3>2, <3>5, TermStep
      <4>3. Cong(un, n * vn + c * xn)
        <5>1. CASE n \notin s
          <6>1. un = 0 /\ vn = 0 /\ xn = 0
            BY <5>1 DEF Terms
          <6> QED BY <3>2, <4>1, <6>1 DEF Cong
        <5>2. CASE n \in s
          <6> DEFINE A == yn * n + c
          <6>1. /\ un = ((A % Order) * W) % Order /\ vn = (yn * W) % Order
                /\ xn = (1 * W) % Order
            BY <3>3, <5>2 DEF Terms, One
          <6> HIDE DEF un, vn, wn, xn, W, yn
          <6>2. A \in Int /\ yn * W \in Int /\ 1 * W \in Int
            BY <3>2, <4>1
          <6> DEFINE B == yn * W
          <6>3. B \in Int
            BY <6>2
          <6>4. Cong(un, A * W)
            <7> HIDE DEF A
            <7>1. A % Order \in Int /\ Cong(A % Order, A)
              BY <6>2, CongMod
            <7> DEFINE m == A % Order
                       mW == m * W
            <7>2. m \in Int /\ Cong(m, A)
              BY <7>1
            <7>3. un = mW % Order
              BY <6>1
            <7> HIDE DEF m
            <7>4. mW \in Int /\ Cong(mW, A * W)
              <8>1. A \in Int /\ W \in Int /\ m \in Int /\ Cong(m, A)
                BY <4>1, <6>2, <7>2
              <8>2. Cong(m * W, A * W)
                BY <8>1, CongTimes
              <8>3. m * W \in Int
                BY <8>1
              <8> QED BY <8>2, <8>3
            <7> HIDE DEF mW
            <7>5. Cong(un, mW)
              BY <7>3, <7>4, CongMod
            <7> QED BY <7>4, <7>5, CongTrans
          <6>5. Cong(vn, B) /\ Cong(xn, W)
            <7>1. vn = B % Order /\ xn = W % Order
              BY <4>1, <6>1
            <7> HIDE DEF B
            <7> QED BY <4>1, <6>3, <7>1, CongMod
          <6>6. A * W = n * B + c * W
            BY <3>2, <4>1
          <6> HIDE DEF A, B
          <6>7. Cong(n * vn, n * B) /\ Cong(c * xn, c * W)
            BY <3>2, <4>1, <6>3, <6>5, CongTimes
          <6> DEFINE p1 == n * vn   q1 == n * B
                     p2 == c * xn   q2 == c * W
          <6>8. p1 \in Int /\ q1 \in Int /\ p2 \in Int /\ q2 \in Int
            BY <3>2, <4>1, <6>3
          <6>9. Cong(p1, q1) /\ Cong(p2, q2)
            BY <6>7
          <6> HIDE DEF p1, q1, p2, q2
          <6>10. Cong(p1 + p2, q1 + q2)
            BY <6>8, <6>9, CongAdd
          <6> QED BY <6>4, <6>6, <6>10 DEF Cong, p1, q1, p2, q2
        <5> QED BY <5>1, <5>2
      <4> HIDE DEF un, vn, wn, xn, W, yn
      <4> DEFINE D == (a - n) * vn   E == a * wn   R == a * vn + c * xn
                 nD == (-1) * D      nE == (-1) * E
      <4>4. /\ D \in Int /\ E \in Int /\ R \in Int /\ nD \in Int /\ nE \in Int
        BY <3>2, <3>10, <4>1
      <4>5. R + nD = n * vn + c * xn
        BY <3>2, <3>10, <4>1
      <4>6. R + nE = a * vn + (-a) * wn + c * xn
        BY <3>2, <3>10, <4>1
      <4>7. Cong(D, E)
        BY <4>2
      <4> HIDE DEF D, E, R
      <4>8. Cong(nD, nE)
        <5>1. -1 \in Int
          OBVIOUS
        <5> QED BY <4>4, <4>7, <5>1, CongTimes
      <4> HIDE DEF nD, nE
      <4>9. Cong(R + nD, R + nE)
        <5>1. Cong(R, R)
          BY DEF Cong
        <5> QED BY <4>4, <4>8, <5>1, CongAdd
      <4>10. 1 * un = un
        BY <4>1
      <4> QED BY <4>3, <4>5, <4>6, <4>9, <4>10 DEF Cong, un, vn, wn, xn
    <3>12. Cong(1 * Total(u), a * Total(v) + (-a) * Total(w) + c * Total(x))
      <4> HIDE DEF u, v, w, x
      <4> DEFINE na == -a
      <4>1. /\ na \in Int /\ 1 \in Int /\ a \in Int /\ c \in Int
            /\ \A n \in XCoordinate :
                 Cong(1 * u[n], a * v[n] + na * w[n] + c * x[n])
        BY <3>2, <3>10, <3>11
      <4>2. /\ u \in [XCoordinate -> Scalar] /\ v \in [XCoordinate -> Scalar]
            /\ w \in [XCoordinate -> Scalar] /\ x \in [XCoordinate -> Scalar]
        BY <3>8 DEF Vector
      <4> HIDE DEF na
      <4>3. Cong(1 * Total(u), a * Total(v) + na * Total(w) + c * Total(x))
        BY <4>1, <4>2, TotalLinear
      <4> QED BY <4>3 DEF na
    <3> DEFINE U == Total(u)  V == Total(v)  X == Total(x)  Y == Total(w)
    <3>13. /\ U \in Int /\ V \in Int /\ X \in Int /\ Y \in Int
           /\ Cong(V, k) /\ Cong(Y, k) /\ Cong(X, 1)
      BY <3>4, <3>6, <3>9, WeightsSum
    <3>14. Cong(1 * U, a * V + (-a) * Y + c * X) /\ ~Cong(U, c)
      BY <3>4, <3>9, <3>12
    <3> HIDE DEF u, v, w, x, U, V, X, Y
    <3> DEFINE na == -a
               p1 == a * V    p2 == na * Y   p3 == c * X
               q1 == a * k    q2 == na * k   q3 == c * 1
    <3>15. na \in Int /\ 1 \in Int
      BY <3>10
    <3>16. Cong(p1, q1) /\ Cong(p2, q2) /\ Cong(p3, q3)
      <4> HIDE DEF na
      <4> QED BY <3>2, <3>10, <3>13, <3>15, CongTimes
    <3>17. /\ p1 \in Int /\ p2 \in Int /\ p3 \in Int
           /\ q1 \in Int /\ q2 \in Int /\ q3 \in Int
      BY <3>2, <3>10, <3>13
    <3>18. q1 + q2 + q3 = c
      BY <3>2, <3>10
    <3>19. Cong(1 * U, p1 + p2 + p3) /\ 1 * U = U
      BY <3>13, <3>14
    <3> HIDE DEF p1, p2, p3, q1, q2, q3
    <3>20. Cong(p1 + p2, q1 + q2) /\ p1 + p2 \in Int /\ q1 + q2 \in Int
      BY <3>16, <3>17, CongAdd
    <3>21. Cong((p1 + p2) + p3, (q1 + q2) + q3)
      BY <3>16, <3>17, <3>20, CongAdd
    <3> QED BY <3>14, <3>18, <3>19, <3>21 DEF Cong
  <2> QED BY <2>4, <2>5
<1>4. Good(Threshold)
  BY <1>0, <1>3
<1>5. At(Threshold) = [n \in XCoordinate |-> Eval(f, n)]
  BY <1>1
<1>6. Constant0(Threshold) = f[0]
  BY <1>0
<1> HIDE DEF At, Constant0
<1> QED BY <1>4, <1>5, <1>6

\* The polynomial whose coefficients are 0.
Zero == [d \in 0 .. Threshold - 1 |-> 0]

\* Its value is 0.
LEMMA EvalZero ==
  ASSUME NEW x \in Int
  PROVE  Zero \in Polynomial /\ Eval(Zero, x) = 0
<1>0. /\ Threshold \in Nat /\ Threshold > 0 /\ 0 \in Scalar
      /\ 0 % Order = 0
  BY ShareAssumption, OrderAssumption, ModSmall DEF Scalar
<1>1. Zero \in Polynomial
  BY <1>0 DEF Zero, Polynomial
<1>2. PICK h : IsHorner(Zero, x, h) /\ Eval(Zero, x) = h[Threshold]
  BY <1>1, EvalEquation
<1> DEFINE T == {d \in 0 .. Threshold : h[d] # 0}
<1>3. T = {}
  <2> SUFFICES ASSUME T # {} PROVE FALSE
    OBVIOUS
  <2>1. T \in SUBSET Nat
    OBVIOUS
  <2>2. PICK m \in T : \A k \in T : m <= k
    BY <2>1, LeastNatural
  <2>3. m \in 1 .. Threshold /\ m - 1 \in 0 .. Threshold
    BY <1>0, <1>2 DEF IsHorner
  <2>4. h[m - 1] = 0
    BY <2>2, <2>3
  <2>5. Zero[Threshold - m] = 0
    BY <1>0, <2>3 DEF Zero
  <2>6. h[m] = (0 * x + 0) % Order
    BY <1>2, <2>3, <2>4, <2>5 DEF IsHorner
  <2>7. 0 * x + 0 = 0
    OBVIOUS
  <2> QED BY <1>0, <2>2, <2>6, <2>7
<1> QED BY <1>0, <1>1, <1>2, <1>3

\* Partial public keys that lie on the sum of two polynomials, moved by a
\* tweak, interpolate to the sum of their values at 0 and the tweak.
LEMMA CombineMoved ==
  ASSUME NEW p \in SUBSET XCoordinate, Cardinality(p) >= Threshold,
         NEW f \in Polynomial, NEW g \in Polynomial, NEW delta \in Scalar,
         NEW pubs \in [p -> Scalar],
         \A j \in p : Cong(pubs[j], Eval(f, j) + Eval(g, j) + delta)
  PROVE  Combine(p, pubs) = (f[0] + g[0] + delta) % Order
<1>0. /\ Scalar \subseteq Int /\ XCoordinate \subseteq Int
      /\ Threshold \in Nat /\ Threshold > 0
  BY ShareAssumption, OrderAssumption DEF Scalar, XCoordinate
<1> DEFINE F == [n \in XCoordinate |-> Eval(f, n)]
           G == [n \in XCoordinate |-> Eval(g, n)]
           y == [n \in XCoordinate |-> (F[n] + G[n] + delta) % Order]
<1>1. F \in Vector /\ G \in Vector
  BY <1>0, EvalType DEF Vector
<1>2. \A n \in XCoordinate : F[n] = Eval(f, n) /\ G[n] = Eval(g, n)
  OBVIOUS
<1>3. Cong(Combine(p, F), f[0]) /\ Cong(Combine(p, G), g[0])
  BY Interpolation
<1> HIDE DEF F, G
<1>4. \A n \in XCoordinate : F[n] + G[n] + delta \in Int
  <2> SUFFICES ASSUME NEW n \in XCoordinate
               PROVE  F[n] + G[n] + delta \in Int
    OBVIOUS
  <2> DEFINE a == F[n]   b == G[n]
  <2>1. a \in Int /\ b \in Int /\ delta \in Int
    BY <1>0, <1>1 DEF Vector
  <2> HIDE DEF a, b
  <2> QED BY <2>1 DEF a, b
<1>5. y \in Vector
  <2>1. \A n \in XCoordinate : (F[n] + G[n] + delta) % Order \in Scalar
    BY <1>4, ModScalar
  <2> QED BY <2>1 DEF Vector
<1>6. \A n \in XCoordinate : y[n] = (F[n] + G[n] + delta) % Order
  OBVIOUS
<1> HIDE DEF y
<1>7. ASSUME NEW j \in p PROVE pubs[j] = y[j]
  <2>1. pubs[j] % Order = pubs[j]
    BY ModSmall
  <2> QED BY <1>2, <1>6, <2>1 DEF Cong
<1>8. Combine(p, pubs) = Combine(p, y)
  BY <1>7 DEF Combine
<1> DEFINE u == Terms(p, y)   v == Terms(p, F)   w == Terms(p, G)
           x == Terms(p, One)
<1>9. One \in Vector
  BY OrderAssumption DEF One, Vector, Scalar
<1>10. /\ u \in Vector /\ v \in Vector /\ w \in Vector /\ x \in Vector
       /\ Combine(p, y) = Total(u) /\ Combine(p, F) = Total(v)
       /\ Combine(p, G) = Total(w) /\ Combine(p, One) = Total(x)
       /\ Total(u) \in Scalar /\ Total(v) \in Scalar
       /\ Total(w) \in Scalar /\ Total(x) \in Scalar
  BY <1>1, <1>5, <1>9, TermsType
<1>11. ASSUME NEW n \in XCoordinate
       PROVE  Cong(1 * u[n], 1 * v[n] + 1 * w[n] + delta * x[n])
  <2>1. CASE n \notin p
    <3>1. u[n] = 0 /\ v[n] = 0 /\ w[n] = 0 /\ x[n] = 0
      BY <2>1 DEF Terms
    <3> QED BY <1>0, <3>1 DEF Cong
  <2>2. CASE n \in p
    <3> DEFINE W == Weight(p, n)   a == F[n]   b == G[n]
               s == a + b + delta  sm == s % Order
               A == a * W  B == b * W  D == delta * W  S == s * W
               un == u[n]  vn == v[n]  wn == w[n]  xn == x[n]
               M == sm * W  I == 1 * W
    <3>1. /\ W \in Int /\ a \in Int /\ b \in Int /\ delta \in Int /\ s \in Int
          /\ un \in Int /\ vn \in Int /\ wn \in Int /\ xn \in Int
      BY <1>0, <1>1, <1>4, <1>10, WeightType DEF Vector
    <3>2. /\ un = M % Order /\ vn = A % Order /\ wn = B % Order
          /\ xn = I % Order
      BY <1>6, <2>2 DEF Terms, One
    <3> HIDE DEF W, a, b, un, vn, wn, xn
    <3>3. S = A + B + D /\ I = W /\ A \in Int /\ B \in Int /\ D \in Int
      BY <3>1
    <3> HIDE DEF s
    <3>4. sm \in Int /\ Cong(sm, s)
      BY <3>1, CongMod
    <3> HIDE DEF sm
    <3>5. M \in Int /\ Cong(M, S) /\ S \in Int
      <4>1. Cong(sm * W, s * W)
        BY <3>1, <3>4, CongTimes
      <4> QED BY <3>1, <3>4, <4>1
    <3> HIDE DEF M, S, A, B, I
    <3>6. /\ Cong(un, M) /\ Cong(vn, A) /\ Cong(wn, B) /\ Cong(xn, W)
      BY <3>1, <3>2, <3>3, <3>5, CongMod
    <3> DEFINE dx == delta * xn
    <3>7. Cong(dx, D) /\ dx \in Int
      <4>1. Cong(delta * xn, delta * W)
        BY <3>1, <3>6, CongTimes
      <4> QED BY <3>1, <4>1
    <3> HIDE DEF D, dx
    <3>8. Cong(vn + wn, A + B) /\ vn + wn \in Int /\ A + B \in Int
      BY <3>1, <3>3, <3>6, CongAdd
    <3>9. Cong((vn + wn) + dx, (A + B) + D)
      BY <3>3, <3>7, <3>8, CongAdd
    <3>10. Cong(un, vn + wn + dx)
      BY <3>3, <3>5, <3>6, <3>9 DEF Cong
    <3>11. 1 * un = un /\ 1 * vn = vn /\ 1 * wn = wn
      BY <3>1
    <3> QED BY <3>10, <3>11 DEF dx, un, vn, wn, xn
  <2> QED BY <2>1, <2>2
<1>12. Cong(1 * Total(u), 1 * Total(v) + 1 * Total(w) + delta * Total(x))
  <2> HIDE DEF u, v, w, x
  <2>1. 1 \in Int /\ delta \in Int
    BY <1>0
  <2> QED BY <1>10, <1>11, <2>1, TotalLinear DEF Vector
<1> DEFINE U == Total(u)  V == Total(v)  Y == Total(w)  X == Total(x)
           f0 == f[0]  g0 == g[0]
<1>13. /\ U \in Scalar /\ U \in Int /\ V \in Int /\ Y \in Int /\ X \in Int
       /\ delta \in Int /\ U = Combine(p, pubs)
  BY <1>0, <1>8, <1>10
<1>14. f0 \in Int /\ g0 \in Int
  <2>1. 0 \in 0 .. Threshold - 1
    BY <1>0
  <2> QED BY <1>0, <2>1 DEF Polynomial
<1>15. Cong(V, f0) /\ Cong(Y, g0) /\ Cong(X, 1)
  <2>1. p # {}
    BY <1>0, SubsetFinite
  <2> QED BY <1>3, <1>10, <2>1, WeightsSum
<1>16. Cong(1 * U, 1 * V + 1 * Y + delta * X)
  BY <1>12
<1> HIDE DEF U, V, Y, X, f0, g0, u, v, w, x
<1> DEFINE dX == delta * X  d1 == delta * 1
<1>17. dX \in Int /\ Cong(dX, d1) /\ d1 = delta
  <2>1. 1 \in Int
    OBVIOUS
  <2>2. Cong(delta * X, delta * 1)
    BY <1>13, <1>15, <2>1, CongTimes
  <2> QED BY <1>13, <2>2
<1>18. 1 * U = U /\ 1 * V = V /\ 1 * Y = Y
  BY <1>13
<1>19. Cong(U, V + Y + dX)
  BY <1>16, <1>18
<1> HIDE DEF dX, d1
<1>20. Cong(V + Y, f0 + g0) /\ V + Y \in Int /\ f0 + g0 \in Int
  BY <1>13, <1>14, <1>15, CongAdd
<1>21. Cong((V + Y) + dX, (f0 + g0) + delta)
  BY <1>13, <1>17, <1>20, CongAdd
<1>22. U % Order = U
  BY <1>13, ModSmall
<1> QED BY <1>13, <1>19, <1>21, <1>22 DEF Cong, f0, g0
-----------------------------------------------------------------------------
(***************************************************************************)
(* Nodes that bring the same refresh finish the sign.                      *)
(***************************************************************************)
\* No refresh result is older than the key.
KeyBeforeMaterial ==
    key = NoKey =>
        \A i \in Node, p \in Participants : material[i][p] = NoMaterial

\* The polynomial of a refresh goes through 0.
WarmThroughZero == warm # NoTask => warm.poly[0] = 0

\* The public shares of a refresh lie on the DKG's polynomial plus one
\* through 0.
OnPolynomial ==
    \A i \in Node, p \in Participants : material[i][p] # NoMaterial =>
        \E g \in Polynomial :
            /\ g[0] = 0
            /\ \A j \in p : material[i][p].pubs[j]
                              = (Share(j) + Eval(g, j)) % Order

\* Who brings something is one of enough nodes.
Admitted ==
    \A i \in Node : Present(i) => Cardinality(task.nodes) >= Threshold

\* A partial public key that is moved by a tweak.
LEMMA MovedShare ==
  ASSUME NEW s \in Int, NEW delta \in Scalar
  PROVE  Cong(BaseMult(((s % Order) + delta) % Order), s + delta)
<1> DEFINE r == s % Order
           t == r + delta
           m == t % Order
<1>1. r \in Int /\ Cong(r, s) /\ delta \in Int
  BY CongMod, OrderAssumption DEF Scalar
<1>2. Cong(delta, delta)
  BY DEF Cong
<1> HIDE DEF r
<1>3. t \in Int /\ Cong(t, s + delta)
  BY <1>1, <1>2, CongAdd
<1> HIDE DEF t
<1>4. m \in Int /\ Cong(m, t)
  BY <1>3, CongMod
<1> HIDE DEF m
<1>5. Cong(m % Order, m)
  BY <1>4, CongMod
<1>6. Cong(m % Order, s + delta)
  BY <1>3, <1>4, <1>5, CongTrans
<1> QED BY <1>6 DEF BaseMult, m, t, r

\* The partial public keys that a node brings combine to the public key that
\* it brings.
LEMMA BroughtCombines ==
  ASSUME AddressInv, ViewInv, OnPolynomial, Admitted,
         NEW i \in Node, Present(i)
  PROVE  Combine(task.nodes, input[i].pubs) = input[i].pub
<1> USE DEF AddressInv, TypeInv
<1> DEFINE p == task.nodes
           d == NodeKey(task.req)
           Lies(g) == /\ g[0] = 0
                      /\ \A j \in p : Cong(input[i].pubs[j],
                                           Share(j) + Eval(g, j) + d.delta)
<1>1. /\ input[i].pub = d.pub /\ input[i].pubs \in [p -> Scalar]
      /\ task # NoTask
  BY DEF InputDerived, InputOK
<1>2. input[i] = Brings(i) /\ Brings(i) # Refused
  BY DEF ViewInv, InputCurrent, Present
<1>3. key # NoKey /\ p \in Participants /\ task.req \in Request
  BY <1>1 DEF KeyFirst, TaskOK
<1>4. /\ d \in HDNode /\ d.pub = (RootPub + d.delta) % Order
      /\ RootPub = key.poly[0] /\ key.poly \in Polynomial
      /\ key.poly[0] \in Scalar
  BY <1>3, NodeKeyFacts, KeyFacts
<1>5. d.delta \in Scalar
  BY <1>4 DEF HDNode
<1>6. p \subseteq Node /\ p \subseteq XCoordinate /\ p \subseteq Int
      /\ Scalar \subseteq Int
  <2>1. p \subseteq Node
    BY <1>3, ShareAssumption
  <2>2. Node \subseteq XCoordinate
    BY ShareAssumption DEF XCoordinate
  <2>3. XCoordinate \subseteq Int /\ Scalar \subseteq Int
    BY OrderAssumption DEF XCoordinate, Scalar
  <2> QED BY <2>1, <2>2, <2>3
<1>7. ASSUME NEW g \in Polynomial, NEW j \in p
      PROVE  Share(j) \in Int /\ Eval(g, j) \in Int
  BY <1>3, <1>6, ShareType, EvalType
<1>8. \E g \in Polynomial : Lies(g)
  <2>1. CASE key.alg = "ecdsa"
    <3> DEFINE mi == material[i][p]
               f  == FilterParticipantMaps(p, mi.pubs)
    <3>1. /\ mi # NoMaterial
          /\ input[i].pubs = AdjustPartialPubsForDelta(f, d.delta)
      <4>1. RunSignECDSA(i, p, ToPath(task.req)) = input[i]
        BY <1>2, <2>1 DEF Brings
      <4> QED BY <1>2, <2>1, <4>1
              DEF RunSignECDSA, AdjustShareAndPubKeyForPath, NodeKey
    <3>2. mi.pubs \in [p -> Scalar]
      BY <1>3, <3>1 DEF StoredOK
    <3>3. f \in [p -> Scalar] /\ \A j \in p : f[j] = mi.pubs[j]
      BY <3>2 DEF FilterParticipantMaps
    <3>4. PICK g \in Polynomial :
             /\ g[0] = 0
             /\ \A j \in p : mi.pubs[j] = (Share(j) + Eval(g, j)) % Order
      BY <1>3, <3>1 DEF OnPolynomial
    <3> HIDE DEF f, mi, d
    <3>5. ASSUME NEW j \in p
          PROVE  Cong(input[i].pubs[j], Share(j) + Eval(g, j) + d.delta)
      <4> DEFINE s == Share(j) + Eval(g, j)
      <4>1. s \in Int
        BY <1>7
      <4>2. f[j] = s % Order
        BY <3>3, <3>4
      <4> HIDE DEF s
      <4>3. input[i].pubs[j] = BaseMult(((s % Order) + d.delta) % Order)
        BY <1>5, <3>1, <3>3, <4>2, AdjustFits
      <4>4. Cong(input[i].pubs[j], s + d.delta)
        BY <1>5, <4>1, <4>3, MovedShare
      <4> QED BY <4>4 DEF s
    <3> QED BY <3>4, <3>5
  <2>2. CASE key.alg # "ecdsa"
    <3> DEFINE f == FilterYs(p, PartialPub)
    <3>1. input[i].pubs = AdjustYsForDelta(f, d.delta)
      BY <1>2, <2>2 DEF Brings, RunSignEd25519, AdjustShareEd25519, NodeKey
    <3>2. \A j \in Node : Share(j) \in Scalar /\ BaseMult(Share(j)) = Share(j)
      BY <1>3, ShareType, ModSmall DEF BaseMult
    <3>3. f \in [p -> Scalar] /\ \A j \in p : f[j] = Share(j)
      BY <1>6, <3>2 DEF FilterYs, PartialPub
    <3>4. 0 \in 0 .. Threshold - 1 /\ 0 \in Int
      BY ShareAssumption
    <3>5. Zero \in Polynomial /\ Zero[0] = 0
      BY <3>4, EvalZero DEF Zero
    <3> HIDE DEF f, d
    <3>6. ASSUME NEW j \in p
          PROVE  Cong(input[i].pubs[j], Share(j) + Eval(Zero, j) + d.delta)
      <4> DEFINE s == Share(j)
      <4>1. /\ s \in Int /\ f[j] = s % Order /\ s + Eval(Zero, j) = s
        <5>1. s \in Scalar /\ f[j] = s /\ j \in Int /\ s \in Int
          BY <1>6, <3>2, <3>3
        <5>2. Eval(Zero, j) = 0 /\ s % Order = s
          BY <5>1, EvalZero, ModSmall
        <5> HIDE DEF s
        <5> QED BY <5>1, <5>2
      <4>2. input[i].pubs[j] = BaseMult((f[j] + d.delta) % Order)
        BY <1>5, <3>1, <3>3, AdjustFits
      <4> HIDE DEF s
      <4>3. Cong(input[i].pubs[j], s + d.delta)
        BY <1>5, <4>1, <4>2, MovedShare
      <4> QED BY <4>1, <4>3 DEF s
    <3> QED BY <3>5, <3>6
  <2> QED BY <2>1, <2>2
<1>9. PICK g \in Polynomial : Lies(g)
  BY <1>8
<1>10. Cardinality(p) >= Threshold
  BY DEF Admitted
<1>11. \A j \in p : Share(j) = Eval(key.poly, j)
  BY DEF Share
<1> HIDE DEF d
<1>12. Combine(p, input[i].pubs) = (key.poly[0] + g[0] + d.delta) % Order
  <2> DEFINE f == key.poly   pubs == input[i].pubs   delta == d.delta
  <2>1. /\ f \in Polynomial /\ pubs \in [p -> Scalar] /\ delta \in Scalar
        /\ p \in SUBSET XCoordinate
    BY <1>1, <1>4, <1>5, <1>6
  <2>2. \A j \in p : Cong(pubs[j], Eval(f, j) + Eval(g, j) + delta)
    BY <1>9, <1>11
  <2> HIDE DEF f, pubs, delta, p
  <2>3. Combine(p, pubs) = (f[0] + g[0] + delta) % Order
    BY <1>10, <2>1, <2>2, CombineMoved DEF p
  <2> QED BY <2>3 DEF f, pubs, delta, p
<1>13. key.poly[0] + g[0] + d.delta = key.poly[0] + d.delta
  <2> DEFINE f0 == key.poly[0]   delta == d.delta
  <2>1. f0 \in Int /\ delta \in Int /\ g[0] = 0
    BY <1>4, <1>5, <1>6, <1>9
  <2> HIDE DEF f0, delta
  <2>2. f0 + g[0] + delta = f0 + delta
    BY <2>1
  <2> QED BY <2>2 DEF f0, delta
<1> QED BY <1>1, <1>4, <1>12, <1>13

\* A refresh result lies on the two polynomials.
LEMMA CommitOnPolynomial ==
  ASSUME TypeInv, WarmThroughZero, OnPolynomial, NEW i \in Node, CommitWarm(i)
  PROVE  OnPolynomial'
<1> DEFINE result == [gen |-> warm.gen, share |-> NewShare(i),
                      pubs |-> NewPubs]
<1>1. /\ warm # NoTask /\ key' = key
      /\ \A k \in Node, p \in Participants :
           material'[k][p] = IF k = i /\ p = warm.nodes THEN result
                             ELSE material[k][p]
  BY CommitFacts
<1>2. result.pubs = NewPubs
  OBVIOUS
<1> HIDE DEF result
<1>3. warm.poly \in Polynomial /\ warm.poly[0] = 0
      /\ \A j \in warm.nodes :
           NewPubs[j] = (Share(j) + Eval(warm.poly, j)) % Order
  BY <1>1, NewShareFacts DEF WarmThroughZero, NewShare
<1>4. \A j : Share(j)' = Share(j)
  BY <1>1 DEF Share
<1>5. SUFFICES ASSUME NEW k \in Node, NEW p \in Participants,
                      material'[k][p] # NoMaterial
               PROVE  \E g \in Polynomial :
                        /\ g[0] = 0
                        /\ \A j \in p : material'[k][p].pubs[j]
                                          = (Share(j) + Eval(g, j)) % Order
  BY <1>4 DEF OnPolynomial
<1>6. CASE k = i /\ p = warm.nodes
  <2>1. \A j \in p : material'[k][p].pubs[j]
                       = (Share(j) + Eval(warm.poly, j)) % Order
    BY <1>1, <1>2, <1>3, <1>6
  <2> QED BY <1>3, <2>1
<1>7. CASE ~(k = i /\ p = warm.nodes)
  <2>1. material'[k][p] = material[k][p]
    BY <1>1, <1>7
  <2> QED BY <1>5, <2>1 DEF OnPolynomial
<1> QED BY <1>6, <1>7

\* The invariant has one part for the key and the refreshes, and one for the
\* sign.
RefreshInv == KeyBeforeMaterial /\ WarmThroughZero /\ OnPolynomial

\* There are no results before keygen ...
LEMMA RefreshInit == Init => RefreshInv
BY DEF Init, RefreshInv, KeyBeforeMaterial, WarmThroughZero, OnPolynomial

\* ... every step keeps them on the polynomials ...
LEMMA RefreshStep == AddressInv /\ RefreshInv /\ [Next]_vars => RefreshInv'
<1> SUFFICES ASSUME AddressInv, RefreshInv, [Next]_vars PROVE RefreshInv'
  OBVIOUS
<1> USE DEF RefreshInv
<1>0. TypeInv
  BY DEF AddressInv
<1>1. ASSUME UNCHANGED <<key, material>>
      PROVE  KeyBeforeMaterial' /\ OnPolynomial'
  <2>1. \A j : Share(j)' = Share(j)
    BY <1>1 DEF Share
  <2> QED BY <1>1, <2>1 DEF KeyBeforeMaterial, OnPolynomial
<1>2. ASSUME UNCHANGED <<key, material>>, warm' \in {warm, NoTask}
      PROVE  RefreshInv'
  <2>1. WarmThroughZero'
    BY <1>2 DEF WarmThroughZero
  <2> QED BY <1>1, <1>2, <2>1
<1>3. ASSUME NEW f \in Polynomial, NEW kind \in {"shares", "single"},
             NEW alg \in Algs, NewKey(kind, alg, f)
      PROVE  RefreshInv'
  <2>1. key = NoKey /\ UNCHANGED <<material, warm>>
    BY <1>3 DEF NewKey
  <2>2. \A i \in Node, p \in Participants : material'[i][p] = NoMaterial
    BY <2>1 DEF KeyBeforeMaterial
  <2>3. KeyBeforeMaterial' /\ OnPolynomial'
    BY <2>2 DEF KeyBeforeMaterial, OnPolynomial
  <2>4. WarmThroughZero'
    BY <2>1 DEF WarmThroughZero
  <2> QED BY <2>3, <2>4
<1>4. CASE RunDKG \/ RunDKGEd25519 \/ KeygenECDSA \/ KeygenEd25519
  <2>1. \E f \in Polynomial, kind \in {"shares", "single"}, alg \in Algs :
          NewKey(kind, alg, f)
    BY <1>4 DEF RunDKG, RunDKGEd25519, KeygenECDSA, KeygenEd25519, Algs
  <2> QED BY <1>3, <2>1
<1>5. ASSUME NEW p \in Participants, RunRefresh(p) PROVE RefreshInv'
  <2>1. UNCHANGED <<key, material>>
    BY <1>5 DEF RunRefresh
  <2>2. WarmThroughZero'
    BY <1>5 DEF RunRefresh, WarmThroughZero
  <2> QED BY <1>1, <2>1, <2>2
<1>6. ASSUME NEW i \in Node, CommitWarm(i) PROVE RefreshInv'
  <2>1. OnPolynomial'
    BY <1>0, <1>6, CommitOnPolynomial
  <2>2. /\ warm # NoTask /\ warm' \in {warm, NoTask} /\ key' = key
    BY <1>0, <1>6, CommitFacts
  <2>3. key' # NoKey
    BY <1>0, <2>2 DEF TypeInv, KeyFirst
  <2> QED BY <2>1, <2>2, <2>3 DEF KeyBeforeMaterial, WarmThroughZero
<1>7. ASSUME NEW i \in Node, WarmFails(i) PROVE RefreshInv'
  BY <1>2, <1>7 DEF WarmFails, Return
<1>8. ASSUME NEW i \in Node, runSignNodeECDSA(i) \/ runSignNodeFROST(i)
      PROVE  RefreshInv'
  BY <1>2, <1>8 DEF runSignNodeECDSA, runSignNodeFROST, Bring
<1>9. ASSUME NEW p \in Participants, NEW req \in Request, SignStart(p, req)
      PROVE  RefreshInv'
  BY <1>2, <1>9 DEF SignStart
<1>10. CASE SignEnd
  BY <1>2, <1>10 DEF SignEnd
<1>11. ASSUME NEW req \in Request, NEW a,
              SignECDSA(req, a) \/ SignEd25519(req, a)
       PROVE  RefreshInv'
  BY <1>2, <1>11 DEF SignECDSA, SignEd25519, SingleSign
<1>12. CASE UNCHANGED vars
  BY <1>2, <1>12 DEF vars
<1> QED BY <1>4, <1>5, <1>6, <1>7, <1>8, <1>9, <1>10, <1>11, <1>12 DEF Next

\* Results of one refresh are shares of the key.
LEMMA ResultsCombine ==
  ASSUME TypeInv, ViewInv, RefreshInv
  PROVE  RefreshKeepsKey
<1> USE DEF TypeInv
<1> SUFFICES ASSUME NEW p \in Participants, NEW q \in SUBSET p,
                    Cardinality(q) >= Threshold,
                    \A i \in q : material[i][p] # NoMaterial,
                    \A i, j \in q : material[i][p].gen = material[j][p].gen
             PROVE  Combine(q, [i \in q |-> material[i][p].share])
                      = key.poly[0]
  BY DEF RefreshKeepsKey
<1>1. q \subseteq Node /\ q \subseteq XCoordinate
  BY ShareAssumption DEF XCoordinate
<1>2. PICK k \in q : TRUE
  <2>1. q # {}
    BY <1>1, SubsetFinite, ShareAssumption
  <2> QED BY <2>1
<1>3. key # NoKey
  BY <1>1, <1>2 DEF RefreshInv, KeyBeforeMaterial
<1>4. /\ key.poly \in Polynomial /\ key.poly[0] \in Scalar
      /\ key.poly[0] % Order = key.poly[0]
  BY <1>3, KeyFacts, ModSmall
<1>5. PICK g \in Polynomial :
         /\ g[0] = 0
         /\ \A j \in p : material[k][p].pubs[j]
                           = (Share(j) + Eval(g, j)) % Order
  BY <1>1, <1>2 DEF RefreshInv, OnPolynomial
<1> DEFINE shares == [i \in q |-> material[i][p].share]
<1>6. ASSUME NEW j \in q
      PROVE  /\ shares[j] \in Scalar
             /\ shares[j] = (Share(j) + Eval(g, j)) % Order
  <2>1. material[k][p].pubs[j] = material[j][p].share
    BY <1>1, <1>2 DEF ViewInv, ResultsFit
  <2>2. material[j][p].share \in Scalar
    BY <1>1 DEF StoredOK
  <2> QED BY <1>5, <2>1, <2>2
<1>7. shares \in [q -> Scalar]
  BY <1>6
<1>8. 0 \in Scalar /\ 0 \in Int /\ Scalar \subseteq Int /\ q \subseteq Int
  BY <1>1, OrderAssumption DEF Scalar, XCoordinate
<1> HIDE DEF shares
<1>9. ASSUME NEW j \in q
      PROVE  Cong(shares[j], Eval(key.poly, j) + Eval(g, j) + 0)
  <2> DEFINE a == Eval(key.poly, j)   b == Eval(g, j)   s == shares[j]
  <2>1. a \in Int /\ b \in Int /\ Share(j) = a
    BY <1>4, <1>8, EvalType DEF Share
  <2>2. s \in Scalar /\ s = (a + b) % Order
    BY <1>6, <2>1
  <2> HIDE DEF a, b, s
  <2>3. a + b \in Int /\ a + b + 0 = a + b
    BY <2>1
  <2>4. Cong(s, a + b + 0)
    BY <2>2, <2>3, CongMod
  <2> QED BY <2>4 DEF a, b, s
<1>10. Combine(q, shares) = (key.poly[0] + g[0] + 0) % Order
  <2> DEFINE f == key.poly
  <2>1. f \in Polynomial /\ q \in SUBSET XCoordinate
    BY <1>1, <1>4
  <2>2. \A j \in q : Cong(shares[j], Eval(f, j) + Eval(g, j) + 0)
    BY <1>9
  <2> HIDE DEF f
  <2>3. Combine(q, shares) = (f[0] + g[0] + 0) % Order
    BY <1>7, <1>8, <2>1, <2>2, CombineMoved
  <2> QED BY <2>3 DEF f
<1>11. key.poly[0] + g[0] + 0 = key.poly[0]
  <2> DEFINE f0 == key.poly[0]
  <2>1. f0 \in Int
    BY <1>4, <1>8
  <2> HIDE DEF f0
  <2>2. f0 + g[0] + 0 = f0
    BY <1>5, <2>1
  <2> QED BY <2>2 DEF f0
<1> QED BY <1>4, <1>10, <1>11 DEF shares

SignInv == Admitted /\ ConsistentInputsSign

\* ... and the protocol accepts what nodes of one refresh bring.
LEMMA SignStep ==
  AddressInv /\ ViewInv /\ RefreshInv /\ SignInv /\ [Next]_vars => SignInv'
<1> SUFFICES ASSUME AddressInv, ViewInv, RefreshInv, SignInv, [Next]_vars
             PROVE  SignInv'
  OBVIOUS
<1> USE DEF SignInv
<1>0. TypeInv
  BY DEF AddressInv
<1>1. ASSUME UNCHANGED <<task, input>> PROVE Admitted'
  BY <1>1 DEF Admitted, Present
<1>2. ASSUME UNCHANGED outcome PROVE ConsistentInputsSign'
  BY <1>2 DEF ConsistentInputsSign, SameGeneration
<1>3. CASE RunDKG \/ RunDKGEd25519 \/ KeygenECDSA \/ KeygenEd25519
  <2>1. UNCHANGED <<task, input, outcome>>
    BY <1>3 DEF RunDKG, RunDKGEd25519, KeygenECDSA, KeygenEd25519, NewKey
  <2> QED BY <1>1, <1>2, <2>1
<1>4. ASSUME NEW p \in Participants, RunRefresh(p) PROVE SignInv'
  BY <1>1, <1>2, <1>4 DEF RunRefresh
<1>5. ASSUME NEW i \in Node, CommitWarm(i) \/ WarmFails(i) PROVE SignInv'
  BY <1>1, <1>2, <1>5 DEF CommitWarm, WarmFails
<1>6. ASSUME NEW i \in Node, runSignNodeECDSA(i) \/ runSignNodeFROST(i)
      PROVE  SignInv'
  <2>1. PICK in : Bring(i, in)
    BY <1>6 DEF runSignNodeECDSA, runSignNodeFROST
  <2> DEFINE b == IF i \in warming \/ ~Admits(task.nodes, task.req)
                  THEN Refused ELSE in
  <2>2. /\ UNCHANGED <<task, outcome>> /\ input' = [input EXCEPT ![i] = b]
    BY <2>1 DEF Bring
  <2>3. b # Refused => Cardinality(task.nodes) >= Threshold
    BY DEF Admits
  <2> HIDE DEF b
  <2>4. input \in [Node -> Inputs \union {NoInput, Refused}]
    BY <1>0 DEF TypeInv, TypeOK
  <2>5. ASSUME NEW k \in Node, Present(k)'
        PROVE  Cardinality(task.nodes) >= Threshold
    <3>1. CASE k = i
      BY <2>2, <2>3, <2>4, <2>5, <3>1 DEF Present
    <3>2. CASE k # i
      BY <2>2, <2>4, <2>5, <3>2 DEF Present, Admitted
    <3> QED BY <3>1, <3>2
  <2>6. Admitted'
    BY <2>2, <2>5 DEF Admitted
  <2> QED BY <1>2, <2>2, <2>6
<1>7. ASSUME NEW p \in Participants, NEW req \in Request, SignStart(p, req)
      PROVE  SignInv'
  BY <1>7 DEF SignStart, Admitted, Present, ConsistentInputsSign
<1>8. CASE SignEnd
  <2> DEFINE p  == task.nodes
             go == \A i \in p : input[i] # Refused
  <2>1. /\ task # NoTask /\ \A i \in p : input[i] # NoInput
        /\ input' = [i \in Node |-> NoInput]
        /\ outcome'.brought = input /\ outcome'.nodes = p
        /\ outcome'.ok = (go /\ AliceAccepts(p, input))
    BY <1>8 DEF SignEnd
  <2>2. Admitted'
    BY <2>1 DEF Admitted, Present
  <2>3. ASSUME \A i, j \in p : /\ input[i] # Refused
                               /\ input[i].gen = input[j].gen
        PROVE  AliceAccepts(p, input)
    <3>1. p \subseteq Node /\ p # {}
      BY <1>0, <2>1, ShareAssumption DEF TypeInv, TaskOK
    <3>2. \A i \in p : Present(i)
      BY <2>1, <2>3 DEF Present
    <3>3. ViewsAgree
      BY ViewsFit
    <3>4. \A i, j \in p : /\ input[i].pub = input[j].pub
                          /\ input[i].pubs[j] = BaseMult(input[j].share)
      BY <2>3, <3>1, <3>2, <3>3 DEF ViewsAgree, Present
    <3>5. \A i \in p : Combine(p, input[i].pubs) = input[i].pub
      BY <3>1, <3>2, BroughtCombines DEF RefreshInv
    <3>6. (CHOOSE j \in p : TRUE) \in p
      BY <3>1
    <3> QED BY <3>4, <3>5, <3>6 DEF AliceAccepts
  <2>4. ConsistentInputsSign'
    <3>1. SameGeneration(outcome)' =>
            \A i, j \in p : /\ input[i] # Refused
                            /\ input[i].gen = input[j].gen
      BY <2>1 DEF SameGeneration
    <3> QED BY <2>1, <2>3, <3>1 DEF ConsistentInputsSign
  <2> QED BY <2>2, <2>4
<1>9. ASSUME NEW req \in Request, NEW a,
             SignECDSA(req, a) \/ SignEd25519(req, a)
      PROVE  SignInv'
  <2>1. UNCHANGED <<task, input>> /\ outcome'.nodes = {}
    BY <1>9 DEF SignECDSA, SignEd25519, SingleSign
  <2> QED BY <1>1, <2>1 DEF ConsistentInputsSign
<1>10. CASE UNCHANGED vars
  BY <1>1, <1>2, <1>10 DEF vars
<1> QED BY <1>3, <1>4, <1>5, <1>6, <1>7, <1>8, <1>9, <1>10 DEF Next

\* Nodes that bring shares of one refresh, as many as the threshold asks for,
\* finish the sign: the share, the public key and the partial public keys that
\* RunSign moves along the path (hd_adjust.go:13 of alg_ecdsa, and its
\* counterpart for FROST) pass every test of the protocol, the interpolation of
\* the partial public keys among them.  For every prime order, every
\* polynomial, any participants, refreshes and hash functions.
THEOREM ConsistentCorrect == Spec => []ConsistentInputsSign
<1>1. Init => SignInv
  BY DEF Init, SignInv, Admitted, Present, ConsistentInputsSign
<1>2. SignInv => ConsistentInputsSign
  BY DEF SignInv
<1> QED BY <1>1, <1>2, RefreshInit, ViewInit, AddressInit, AddressStep,
           ViewStep, RefreshStep, SignStep, PTL DEF Spec

\* A refresh does not change the key (RunRefresh, CommitWarm): as many nodes
\* as the threshold that have committed the same refresh for some participants
\* hold shares of the DKG's secret, whatever each of them has missed before,
\* for every prime order, polynomial and number of refreshes.
THEOREM RefreshCorrect == Spec => []RefreshKeepsKey
<1>1. AddressInv /\ ViewInv /\ RefreshInv => RefreshKeepsKey
  BY ResultsCombine DEF AddressInv
<1> QED BY <1>1, RefreshInit, ViewInit, AddressInit, AddressStep, ViewStep,
           RefreshStep, PTL DEF Spec
=============================================================================

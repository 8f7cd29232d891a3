------------------------ MODULE MerkleForest_proofs -------------------------
(***************************************************************************)
(* For every number of trees, every height up to 63 and every hash         *)
(* function: the verifier's roots are the signer's (RootsAgree), no two    *)
(* nodes share an address (AddressesDistinct), and the loops implement the *)
(* one-tree contract (ImplementsContract).                                 *)
(*                                                                         *)
(* The last two need induction.  The library's induction theorems take an  *)
(* operator, which no backend instantiates; SetInduct is induction for a   *)
(* set, from the well-foundedness of < (WFMin), and Solutions says that    *)
(* a recursion has a solution, which gives Pow2, Val and FullTree their    *)
(* recursive equations.                                                    *)
(***************************************************************************)
EXTENDS MerkleForest, WellFoundedInduction, TLAPS

\* Shifting by nothing leaves a u64 as it is.
LEMMA ShrZero == ASSUME NEW x \in Word PROVE Shr(x, 0) = x
<1>1. \A e \in BitPos : e + 0 = e  BY DEF BitPos
<1>2. x \subseteq BitPos  BY DEF Word
<1> QED  BY <1>1, <1>2 DEF Shr

\* Two right shifts are one: the signer's iterated idx >>= 1 and >>= H' meet
\* the verifier's single shift of the original index.
LEMMA ShrShr ==
  ASSUME NEW x \in Word, NEW a \in Nat, NEW c \in Nat
  PROVE  Shr(Shr(x, a), c) = Shr(x, a + c)
<1>1. ASSUME NEW e \in Shr(Shr(x, a), c) PROVE e \in Shr(x, a + c)
  BY <1>1 DEF Word, Shr, BitPos
<1>2. ASSUME NEW e \in Shr(x, a + c) PROVE e \in Shr(Shr(x, a), c)
  <2>1. e \in BitPos /\ e + (a + c) \in x  BY <1>2 DEF Shr
  <2>2. e + c \in BitPos  BY <2>1 DEF BitPos, Word
  <2>3. (e + c) + a \in x  BY <2>1 DEF BitPos
  <2> QED  BY <2>1, <2>2, <2>3 DEF Shr
<1> QED  BY <1>1, <1>2

\* A shift of a narrow word is narrower still, and every shift is a u64.
LEMMA ShrNarrows ==
  ASSUME NEW w \in Nat, NEW k \in 0 .. w, NEW x \in Bits(w)
  PROVE  Shr(x, k) \in Bits(w - k)
  BY DEF Bits, Shr, BitPos

LEMMA ShrWord == ASSUME NEW x, NEW k PROVE Shr(x, k) \in Word
  BY DEF Shr, Word

LEMMA BitsAreWords == ASSUME NEW w \in 0 .. 64, NEW x \in Bits(w) PROVE x \in Word
  BY DEF Bits, Word, BitPos

\* The two children of the parent of p are p and its sibling, in the order
\* the low bit of p says.
LEMMA ChildrenOfParent ==
  ASSUME NEW p \in Word
  PROVE  /\ 0 \in p    => OddChild(Shr(p, 1)) = p /\ EvenChild(Shr(p, 1)) = Sibling(p)
         /\ ~(0 \in p) => EvenChild(Shr(p, 1)) = p /\ OddChild(Shr(p, 1)) = Sibling(p)
<1>1. Shl(Shr(p, 1), 1) = p \ {0}
  <2>1. ASSUME NEW e \in p \ {0} PROVE e \in Shl(Shr(p, 1), 1)
    <3>1. e \in BitPos /\ e - 1 \in BitPos /\ (e - 1) + 1 = e  BY <2>1 DEF Word, BitPos
    <3> QED  BY <3>1, <2>1 DEF Shl, Shr
  <2>2. ASSUME NEW e \in Shl(Shr(p, 1), 1) PROVE e \in p \ {0}
    <3>1. e \in BitPos /\ e - 1 \in Shr(p, 1)  BY <2>2 DEF Shl
    <3>2. e - 1 \in BitPos /\ (e - 1) + 1 \in p  BY <3>1 DEF Shr
    <3> QED  BY <3>1, <3>2 DEF BitPos
  <2> QED  BY <2>1, <2>2
<1> QED  BY <1>1 DEF OddChild, EvenChild, Sibling

\* Bit k of x is the low bit of x >> k.
LEMMA BitOfShift ==
  ASSUME NEW x \in Word, NEW k \in Nat PROVE (0 \in Shr(x, k)) <=> (k \in x)
  BY DEF Shr, Word, BitPos
-----------------------------------------------------------------------------
\* Levels 0 .. top of tree t hold the hashes of the levels below them.
Complete(t, top) ==
    /\ \A n \in Leaves : levels[t][0][n] = LeafHash(HashIndex(t, 0, n), Secret(t, n))
    /\ \A y \in 1 .. top : levels[t][y] = LevelAbove(t, y, levels[t][y - 1])

\* The first `top` path nodes of tree t's signature are copied.
Signed(t, top) ==
    /\ sig[t][0] = Secret(t, md[t])
    /\ \A y \in 1 .. top : sig[t][y] = levels[t][y - 1][Sibling(Shr(md[t], y - 1))]

Finish(t) == Complete(t, H) /\ Signed(t, H) /\ roots[t] = levels[t][H][{}]

InvLeaves == phase = "leaves" =>
    \A n \in Leaves \ pending : levels[i][0][n] = LeafHash(HashIndex(i, 0, n), Secret(i, n))

InvLevels == phase = "levels" => z \in 1 .. H /\ Complete(i, z - 1)

InvPath == phase = "path" =>
    z \in 0 .. H /\ Complete(i, H) /\ Signed(i, z) /\ idx = Shr(md[i], z)

InvPast ==
    /\ phase \in {"leaves", "levels", "path"} => \A t \in 0 .. i - 1 : Finish(t)
    /\ phase \in {"verify", "done"} => \A t \in Trees : Finish(t)

InvWalk == phase = "verify" =>
    /\ \A t \in 0 .. i - 1 : vroots[t] = roots[t]
    /\ z >= 1 => node = levels[i][z - 1][Shr(md[i], z - 1)]

InvDone == phase = "done" => \A t \in Trees : vroots[t] = roots[t]

IInv == TypeOK /\ InvLeaves /\ InvLevels /\ InvPath /\ InvPast /\ InvWalk /\ InvDone
-----------------------------------------------------------------------------
USE SizeAssumption
-----------------------------------------------------------------------------
\* A set of natural numbers has a least element.
LEMMA Least ==
  ASSUME NEW T, T \subseteq Nat, T # {}
  PROVE  \E m \in T : \A k \in T : m <= k
<1>1. \E x \in T : \A y \in T : ~ (<<y, x>> \in OpToRel(<, Nat))
  BY NatLessThanWellFounded, WFMin
<1>2. PICK x \in T : \A y \in T : ~ (<<y, x>> \in OpToRel(<, Nat))
  BY <1>1
<1>3. \A y \in T : ~(y < x)
  <2>1. ASSUME NEW y \in T, y < x PROVE FALSE
    <3>1. <<y, x>> \in OpToRel(<, Nat)  BY <2>1 DEF OpToRel
    <3> QED BY <3>1, <1>2
  <2> QED BY <2>1
<1> QED BY <1>3

\* Induction, for a set instead of a predicate.
LEMMA SetInduct ==
  ASSUME NEW T, 0 \in T, \A n \in Nat : n \in T => n + 1 \in T
  PROVE  Nat \subseteq T
<1> DEFINE B == Nat \ T
<1>1. SUFFICES ASSUME B # {} PROVE FALSE OBVIOUS
<1>2. PICK m \in B : \A k \in B : m <= k  BY <1>1, Least
<1>3. m # 0 /\ m - 1 \in Nat /\ m - 1 \in T BY <1>2
<1> QED BY <1>3, <1>2

\* The functions on 0 .. n that start at v0 and go on with st.
Begins(V, v0, st, n) ==
  {g \in [0 .. n -> V] : g[0] = v0 /\ \A k \in 0 .. n - 1 : g[k + 1] = st[k][g[k]]}

\* Two beginnings agree as far as both go, and there is one of every length.
LEMMA BeginsUnique ==
  ASSUME NEW V, NEW v0 \in V, NEW st \in [Nat -> [V -> V]], NEW n \in Nat, NEW m \in Nat,
         NEW g \in Begins(V, v0, st, n), NEW h \in Begins(V, v0, st, m)
  PROVE  \A k \in Nat : k <= n /\ k <= m => g[k] = h[k]
<1> DEFINE T == {k \in Nat : k <= n /\ k <= m => g[k] = h[k]}
<1>1. 0 \in T  BY DEF Begins
<1>2. ASSUME NEW k \in Nat, k \in T PROVE k + 1 \in T
  <2> SUFFICES ASSUME k + 1 <= n, k + 1 <= m PROVE g[k + 1] = h[k + 1]  BY <1>2
  <2>1. k \in 0 .. n - 1 /\ k \in 0 .. m - 1 /\ g[k] = h[k]  BY <1>2
  <2> QED  BY <2>1 DEF Begins
<1> HIDE DEF T
<1>3. Nat \subseteq T  BY <1>1, <1>2, SetInduct
<1> QED  BY <1>3 DEF T

LEMMA BeginsExists ==
  ASSUME NEW V, NEW v0 \in V, NEW st \in [Nat -> [V -> V]]
  PROVE  \A n \in Nat : \E g : g \in Begins(V, v0, st, n)
<1> DEFINE T == {n \in Nat : \E g : g \in Begins(V, v0, st, n)}
<1>1. 0 \in T
  <2> DEFINE g == [k \in 0 .. 0 |-> v0]
  <2>1. g \in Begins(V, v0, st, 0)  BY DEF Begins
  <2> QED  BY <2>1
<1>2. ASSUME NEW n \in Nat, n \in T PROVE n + 1 \in T
  <2>1. PICK g : g \in Begins(V, v0, st, n)  BY <1>2
  <2> DEFINE h == [k \in 0 .. n + 1 |-> IF k = n + 1 THEN st[n][g[n]] ELSE g[k]]
  <2>2. g \in [0 .. n -> V] /\ g[0] = v0 /\ \A k \in 0 .. n - 1 : g[k + 1] = st[k][g[k]]
    BY <2>1 DEF Begins
  <2>3. n \in 0 .. n /\ g[n] \in V /\ st[n][g[n]] \in V  BY <2>2
  <2>4. h \in [0 .. n + 1 -> V]
    <3>1. \A k \in 0 .. n + 1 : k # n + 1 => k \in 0 .. n  OBVIOUS
    <3> QED  BY <2>2, <2>3, <3>1
  <2>5. h[0] = v0  BY <2>2
  <2>6. ASSUME NEW k \in 0 .. (n + 1) - 1 PROVE h[k + 1] = st[k][h[k]]
    <3>1. CASE k = n  BY <3>1
    <3>2. CASE k # n
      <4>1. k \in 0 .. n - 1 /\ k + 1 # n + 1 /\ k # n + 1 /\ k + 1 \in 0 .. n + 1 /\ k \in 0 .. n + 1  BY <3>2
      <4> QED  BY <2>2, <4>1
    <3> QED  BY <3>1, <3>2
  <2> HIDE DEF h
  <2>7. h \in Begins(V, v0, st, n + 1)  BY <2>4, <2>5, <2>6 DEF Begins
  <2> QED  BY <2>7
<1> HIDE DEF T
<1>3. Nat \subseteq T  BY <1>1, <1>2, SetInduct
<1> QED  BY <1>3 DEF T

\* The functions on the natural numbers that start at v0 and go on with st.
Solutions(V, v0, st) == {f \in [Nat -> V] : f[0] = v0 /\ \A k \in Nat : f[k + 1] = st[k][f[k]]}

\* Every recursion over the natural numbers has a solution.
LEMMA RecursionExists ==
  ASSUME NEW V, NEW v0 \in V, NEW st \in [Nat -> [V -> V]]
  PROVE  \E f : f \in Solutions(V, v0, st)
<1> DEFINE f == [n \in Nat |-> (CHOOSE g : g \in Begins(V, v0, st, n))[n]]
<1>1. ASSUME NEW n \in Nat
      PROVE  \E g \in Begins(V, v0, st, n) : f[n] = g[n]
  <2>1. (CHOOSE g : g \in Begins(V, v0, st, n)) \in Begins(V, v0, st, n)  BY BeginsExists
  <2> QED  BY <2>1
<1> HIDE DEF f
<1>2. ASSUME NEW n \in Nat PROVE f[n] \in V
  BY <1>1 DEF Begins
<1>3. f \in [Nat -> V]  BY <1>2 DEF f
<1>4. f[0] = v0  BY <1>1 DEF Begins
<1>5. ASSUME NEW k \in Nat PROVE f[k + 1] = st[k][f[k]]
  <2>1. PICK g \in Begins(V, v0, st, k) : f[k] = g[k]  BY <1>1
  <2>2. PICK h \in Begins(V, v0, st, k + 1) : f[k + 1] = h[k + 1]  BY <1>1
  <2>3. h[k] = g[k]  BY BeginsUnique
  <2>4. h[k + 1] = st[k][h[k]]  BY DEF Begins
  <2> QED  BY <2>1, <2>2, <2>3, <2>4
<1>6. f \in Solutions(V, v0, st)  BY <1>3, <1>4, <1>5 DEF Solutions
<1> QED  BY <1>6

\* Pow2 doubles.
LEMMA Pow2Facts ==
  /\ Pow2[0] = 1
  /\ \A k \in Nat : Pow2[k] \in Nat \ {0} /\ Pow2[k + 1] = 2 * Pow2[k]
<1> DEFINE st == [k \in Nat |-> [v \in Nat |-> 2 * v]]
<1>1. st \in [Nat -> [Nat -> Nat]]  OBVIOUS
<1>2. PICK f \in [Nat -> Nat] : f[0] = 1 /\ \A k \in Nat : f[k + 1] = st[k][f[k]]
  <2> HIDE DEF st
  <2>1. 1 \in Nat  OBVIOUS
  <2>2. PICK f : f \in Solutions(Nat, 1, st)  BY <1>1, <2>1, RecursionExists
  <2> QED  BY <2>2 DEF Solutions
<1>3. f = [k \in Nat |-> IF k = 0 THEN 1 ELSE 2 * f[k - 1]]
  <2>1. ASSUME NEW k \in Nat PROVE f[k] = IF k = 0 THEN 1 ELSE 2 * f[k - 1]
    <3>1. CASE k = 0  BY <1>2, <3>1
    <3>2. CASE k # 0
      <4>1. k - 1 \in Nat /\ (k - 1) + 1 = k /\ f[k - 1] \in Nat  BY <1>2, <3>2
      <4> QED  BY <1>2, <3>2, <4>1
    <3> QED  BY <3>1, <3>2
  <2> QED  BY <1>2, <2>1
<1>4. Pow2 = [k \in Nat |-> IF k = 0 THEN 1 ELSE 2 * Pow2[k - 1]]
  <2>1. \E g : g = [k \in Nat |-> IF k = 0 THEN 1 ELSE 2 * g[k - 1]]  BY <1>3, Zenon
  <2>2. Pow2 = CHOOSE g : g = [k \in Nat |-> IF k = 0 THEN 1 ELSE 2 * g[k - 1]]  BY Zenon DEF Pow2
  <2> QED  BY <2>1, <2>2, Zenon
<1>5. Pow2[0] = 1 /\ \A k \in Nat : Pow2[k + 1] = 2 * Pow2[k]
  <2>1. Pow2[0] = 1  BY <1>4
  <2>2. ASSUME NEW k \in Nat PROVE Pow2[k + 1] = 2 * Pow2[k]
    <3>1. k + 1 \in Nat /\ k + 1 # 0 /\ (k + 1) - 1 = k  OBVIOUS
    <3>2. Pow2[k + 1] = IF k + 1 = 0 THEN 1 ELSE 2 * Pow2[(k + 1) - 1]  BY <1>4, <3>1
    <3> QED  BY <3>1, <3>2
  <2> QED  BY <2>1, <2>2
<1> DEFINE T == {k \in Nat : Pow2[k] \in Nat \ {0}}
<1>6. 0 \in T /\ \A k \in Nat : k \in T => k + 1 \in T  BY <1>5
<1> HIDE DEF T
<1>7. Nat \subseteq T  BY <1>6, SetInduct
<1> QED  BY <1>5, <1>7 DEF T

\* The sums that Val takes, bit by bit.
Below(x) ==
    LET below[k \in Nat] ==
          IF k = 0 THEN 0
          ELSE IF k - 1 \in x THEN below[k - 1] + Pow2[k - 1] ELSE below[k - 1]
    IN  below

LEMMA ValIsBelow == ASSUME NEW x, NEW w PROVE Val(x, w) = Below(x)[w]
  BY DEF Val, Below

\* The sum over the low k bits stays below 2^k and grows by bit k.
LEMMA BelowFacts ==
  ASSUME NEW x
  PROVE  /\ Below(x)[0] = 0
         /\ \A k \in Nat : /\ Below(x)[k] \in 0 .. Pow2[k] - 1
                           /\ Below(x)[k + 1] = Below(x)[k] + (IF k \in x THEN Pow2[k] ELSE 0)
<1> DEFINE st == [k \in Nat |-> [v \in Nat |-> IF k \in x THEN v + Pow2[k] ELSE v]]
<1>1. st \in [Nat -> [Nat -> Nat]]  BY Pow2Facts
<1>2. PICK f \in [Nat -> Nat] : f[0] = 0 /\ \A k \in Nat : f[k + 1] = st[k][f[k]]
  <2> HIDE DEF st
  <2>1. 0 \in Nat  OBVIOUS
  <2>2. PICK f : f \in Solutions(Nat, 0, st)  BY <1>1, <2>1, RecursionExists
  <2> QED  BY <2>2 DEF Solutions
<1> DEFINE step(g, k) == IF k = 0 THEN 0
                         ELSE IF k - 1 \in x THEN g[k - 1] + Pow2[k - 1] ELSE g[k - 1]
<1>3. f = [k \in Nat |-> step(f, k)]
  <2>1. ASSUME NEW k \in Nat PROVE f[k] = step(f, k)
    <3>1. CASE k = 0  BY <1>2, <3>1
    <3>2. CASE k # 0
      <4>1. k - 1 \in Nat /\ (k - 1) + 1 = k /\ f[k - 1] \in Nat  BY <1>2, <3>2
      <4> QED  BY <1>2, <3>2, <4>1
    <3> QED  BY <3>1, <3>2
  <2> HIDE DEF step
  <2> QED  BY <1>2, <2>1
<1>4. Below(x) = [k \in Nat |-> step(Below(x), k)]
  <2>2. Below(x) = CHOOSE g : g = [k \in Nat |-> step(g, k)]  BY Zenon DEF Below
  <2> HIDE DEF step
  <2>1. \E g : g = [k \in Nat |-> step(g, k)]  BY <1>3, Zenon
  <2> QED  BY <2>1, <2>2, Zenon
<1>5. Below(x)[0] = 0  BY <1>4
<1>6. ASSUME NEW k \in Nat
      PROVE  Below(x)[k + 1] = IF k \in x THEN Below(x)[k] + Pow2[k] ELSE Below(x)[k]
  <2>1. k + 1 \in Nat /\ k + 1 # 0 /\ (k + 1) - 1 = k  OBVIOUS
  <2>2. Below(x)[k + 1] = step(Below(x), k + 1)
    <3> HIDE DEF step
    <3> QED  BY <1>4, <2>1
  <2> QED  BY <2>1, <2>2
<1> DEFINE T == {k \in Nat : Below(x)[k] \in 0 .. Pow2[k] - 1}
<1>7. 0 \in T  BY <1>5, Pow2Facts
<1>8. ASSUME NEW k \in Nat, k \in T PROVE k + 1 \in T
  BY <1>6, <1>8, Pow2Facts
<1> HIDE DEF T
<1>9. Nat \subseteq T  BY <1>7, <1>8, SetInduct
<1>10. \A k \in Nat : Below(x)[k] \in 0 .. Pow2[k] - 1  BY <1>9 DEF T
<1> QED  BY <1>5, <1>6, <1>10, Pow2Facts

\* Different words of w bits stand for different integers below 2^w.
LEMMA ValInjective ==
  ASSUME NEW w \in Nat, NEW x \in Bits(w), NEW y \in Bits(w)
  PROVE  /\ Val(x, w) \in 0 .. Pow2[w] - 1
         /\ Val(x, w) = Val(y, w) => x = y
<1>1. Val(x, w) \in 0 .. Pow2[w] - 1  BY ValIsBelow, BelowFacts
<1> DEFINE T == {n \in Nat : Below(x)[n] = Below(y)[n] => \A k \in 0 .. n - 1 : k \in x <=> k \in y}
<1>2. 0 \in T  OBVIOUS
<1>3. ASSUME NEW n \in Nat, n \in T PROVE n + 1 \in T
  <2> SUFFICES ASSUME Below(x)[n + 1] = Below(y)[n + 1]
               PROVE  \A k \in 0 .. (n + 1) - 1 : k \in x <=> k \in y
    OBVIOUS
  <2>1. /\ Below(x)[n] \in 0 .. Pow2[n] - 1 /\ Below(y)[n] \in 0 .. Pow2[n] - 1
        /\ Below(x)[n + 1] = Below(x)[n] + (IF n \in x THEN Pow2[n] ELSE 0)
        /\ Below(y)[n + 1] = Below(y)[n] + (IF n \in y THEN Pow2[n] ELSE 0)
        /\ Pow2[n] \in Nat \ {0}
    BY BelowFacts, Pow2Facts
  <2>2. (n \in x <=> n \in y) /\ Below(x)[n] = Below(y)[n]
    <3>1. PICK P \in Nat \ {0} : P = Pow2[n]  BY <2>1
    <3>2. PICK a \in 0 .. P - 1 : a = Below(x)[n]  BY <2>1, <3>1
    <3>3. PICK b \in 0 .. P - 1 : b = Below(y)[n]  BY <2>1, <3>1
    <3>4. a + (IF n \in x THEN P ELSE 0) = b + (IF n \in y THEN P ELSE 0)
      BY <2>1, <3>1, <3>2, <3>3
    <3>5. (n \in x <=> n \in y) /\ a = b  BY <3>4
    <3> QED  BY <3>2, <3>3, <3>5
  <2>3. \A k \in 0 .. n - 1 : k \in x <=> k \in y  BY <1>3, <2>2
  <2>4. \A k \in 0 .. (n + 1) - 1 : k = n \/ k \in 0 .. n - 1  OBVIOUS
  <2> QED  BY <2>2, <2>3, <2>4
<1> HIDE DEF T
<1>4. Nat \subseteq T  BY <1>2, <1>3, SetInduct
<1>5. ASSUME Val(x, w) = Val(y, w) PROVE x = y
  <2>1. \A k \in 0 .. w - 1 : k \in x <=> k \in y  BY <1>4, <1>5, ValIsBelow DEF T
  <2> QED  BY <2>1 DEF Bits
<1> QED  BY <1>1, <1>5

\* Powers of two multiply, so num_leaves >> z is 1 << (height - z).
LEMMA Pow2Sum ==
  ASSUME NEW a \in Nat, NEW b \in Nat PROVE Pow2[a + b] = Pow2[a] * Pow2[b]
<1> DEFINE T == {k \in Nat : Pow2[a + k] = Pow2[a] * Pow2[k]}
<1>1. 0 \in T
  <2>1. Pow2[a] \in Nat /\ Pow2[0] = 1 /\ a + 0 = a  BY Pow2Facts
  <2> QED  BY <2>1
<1>2. ASSUME NEW k \in Nat, k \in T PROVE k + 1 \in T
  <2>1. (a + k) + 1 = a + (k + 1) /\ a + k \in Nat  OBVIOUS
  <2>2. PICK p \in Nat : p = Pow2[a]  BY Pow2Facts
  <2>3. PICK q \in Nat : q = Pow2[k]  BY Pow2Facts
  <2>4. Pow2[a + (k + 1)] = 2 * Pow2[a + k]  BY <2>1, Pow2Facts
  <2>5. Pow2[a + k] = p * q  BY <1>2, <2>2, <2>3
  <2>6. 2 * (p * q) = p * (2 * q)  OBVIOUS
  <2>7. Pow2[k + 1] = 2 * q  BY <2>3, Pow2Facts
  <2> QED  BY <2>2, <2>4, <2>5, <2>6, <2>7
<1> HIDE DEF T
<1>3. Nat \subseteq T  BY <1>1, <1>2, SetInduct
<1> QED  BY <1>3 DEF T

LEMMA Pow2Quotient ==
  ASSUME NEW y \in 0 .. H PROVE Pow2[H] \div Pow2[y] = Pow2[H - y]
<1>1. H - y \in Nat /\ y \in Nat /\ (H - y) + y = H  OBVIOUS
<1>2. PICK p \in Nat : p = Pow2[H - y]  BY <1>1, Pow2Facts
<1>3. PICK q \in Nat \ {0} : q = Pow2[y]  BY <1>1, Pow2Facts
<1>4. Pow2[H] = p * q  BY <1>1, <1>2, <1>3, Pow2Sum
<1>5. (p * q) \div q = p
  <2>1. PICK d \in Nat : d = p * q  OBVIOUS
  <2>2. PICK r \in Int : r = d \div q  OBVIOUS
  <2>3. q * r <= d /\ d < q * r + q  BY <2>1, <2>2
  <2>4. d = q * p  BY <2>1
  <2>5. q * (p - r) < q /\ q * (r - p) <= 0
    <3>1. q * (p - r) = q * p - q * r /\ q * (r - p) = q * r - q * p  OBVIOUS
    <3> QED  BY <2>3, <2>4, <3>1
  <2>6. ~(p - r >= 1)
    <3>1. p - r >= 1 => q * (p - r) >= q  OBVIOUS
    <3> QED  BY <2>5, <3>1
  <2>7. ~(r - p >= 1)
    <3>1. r - p >= 1 => q * (r - p) >= q  OBVIOUS
    <3> QED  BY <2>5, <3>1
  <2> QED  BY <2>1, <2>2, <2>6, <2>7
<1> QED  BY <1>2, <1>3, <1>4, <1>5

\* The bits a narrow word does not have add nothing to it.
LEMMA ValNarrow ==
  ASSUME NEW w \in Nat, NEW x \in Bits(w), NEW k \in Nat PROVE Val(x, w + k) = Val(x, w)
<1> DEFINE T == {m \in Nat : Below(x)[w + m] = Below(x)[w]}
<1>1. 0 \in T  OBVIOUS
<1>2. ASSUME NEW m \in Nat, m \in T PROVE m + 1 \in T
  <2>1. w + m \in Nat /\ (w + m) + 1 = w + (m + 1) /\ ~(w + m \in x)  BY DEF Bits
  <2>2. Below(x)[w + m] \in Nat  BY <2>1, BelowFacts, Pow2Facts
  <2>3. Below(x)[(w + m) + 1] = Below(x)[w + m] + 0  BY <2>1, BelowFacts
  <2> QED  BY <1>2, <2>1, <2>2, <2>3
<1> HIDE DEF T
<1>3. Nat \subseteq T  BY <1>1, <1>2, SetInduct
<1>4. Below(x)[w + k] = Below(x)[w]  BY <1>3 DEF T
<1> QED  BY <1>4, ValIsBelow

\* The word the verifier computes from a leaf index is the one under which the
\* signer hashed the node above that leaf.
LEMMA SameWord ==
  ASSUME NEW t \in Trees, NEW y \in 0 .. H, NEW x \in Bits(H)
  PROVE  PathIndex(t, y, x) = HashIndex(t, y, Shr(x, y))
<1>1. H \in Nat /\ H - y \in Nat /\ y \in Nat /\ (H - y) + y = H  OBVIOUS
<1>2. Shr(x, y) \in Bits(H - y)  BY <1>1, ShrNarrows
<1>3. Val(Shr(x, y), H) = Val(Shr(x, y), H - y)
  <2> DEFINE v == Shr(x, y)
             w == H - y
  <2>1. v \in Bits(w) /\ w \in Nat /\ w + y = H  BY <1>1, <1>2
  <2> HIDE DEF v, w
  <2>2. Val(v, w + y) = Val(v, w)  BY <1>1, <2>1, ValNarrow
  <2> QED  BY <2>1, <2>2 DEF v, w
<1>4. Pow2[H] \div Pow2[y] = Pow2[H - y]  BY Pow2Quotient
<1> QED  BY <1>3, <1>4 DEF PathIndex, HashIndex

\* t * (2^H >> z) + n determines t and n when n has w bits.
LEMMA HashIndexInjective ==
  ASSUME NEW t \in Trees, NEW u \in Trees, NEW y \in 0 .. H, NEW m \in Bits(H - y), NEW n \in Bits(H - y),
         HashIndex(t, y, m) = HashIndex(u, y, n)
  PROVE  t = u /\ m = n
<1>1. H - y \in Nat /\ t \in Nat /\ u \in Nat  BY DEF Trees
<1>2. PICK P \in Nat \ {0} : P = Pow2[H] \div Pow2[y]
                            /\ P = Pow2[H - y]
  <2>1. Pow2[H - y] \in Nat \ {0}  BY <1>1, Pow2Facts
  <2>2. Pow2[H] \div Pow2[y] = Pow2[H - y]  BY Pow2Quotient
  <2> QED  BY <2>1, <2>2
<1>3. PICK a \in 0 .. P - 1 : a = Val(m, H - y)  BY <1>1, <1>2, ValInjective
<1>4. PICK b \in 0 .. P - 1 : b = Val(n, H - y)  BY <1>1, <1>2, ValInjective
<1>5. t * P + a = u * P + b  BY <1>2, <1>3, <1>4 DEF HashIndex
<1>6. \A c, d \in Nat : c < d => c * P + P <= d * P
  <2> SUFFICES ASSUME NEW c \in Nat, NEW d \in Nat, c < d PROVE c * P + P <= d * P  OBVIOUS
  <2>1. PICK e \in Nat : d = c + 1 + e  
    <3>1. d - c - 1 \in Nat /\ d = c + 1 + (d - c - 1)  OBVIOUS
    <3> QED  BY <3>1
  <2>2. (c + 1 + e) * P = c * P + P + e * P  OBVIOUS
  <2>3. e * P >= 0  OBVIOUS
  <2>4. d * P = (c + 1 + e) * P  BY <2>1
  <2>5. c * P \in Nat /\ e * P \in Nat /\ d * P \in Nat  OBVIOUS
  <2> QED  BY <2>2, <2>3, <2>4, <2>5
<1>7. t * P \in Nat /\ u * P \in Nat  BY <1>1
<1>8. ~(t < u) /\ ~(u < t)
  <2>1. t < u => t * P + P <= u * P  BY <1>1, <1>6
  <2>2. u < t => u * P + P <= t * P  BY <1>1, <1>6
  <2> QED  BY <1>5, <1>7, <2>1, <2>2
<1>9. t = u  BY <1>1, <1>8
<1>10. a = b  BY <1>5, <1>7, <1>9
<1>11. m = n  BY <1>1, <1>3, <1>4, <1>10, ValInjective
<1> QED  BY <1>9, <1>11

-----------------------------------------------------------------------------

\* The verifier's hash of the revealed secret is the signed leaf.
LEMMA LeafLemma ==
  ASSUME TypeOK, NEW t \in Trees, Complete(t, H), sig[t][0] = Secret(t, md[t])
  PROVE  LeafHash(PathIndex(t, 0, md[t]), sig[t][0]) = levels[t][0][md[t]]
<1>1. md[t] \in Bits(H) /\ md[t] \in Leaves  BY DEF TypeOK, Leaves
<1>2. md[t] \in Word
  <2>1. H \in 0 .. 64  OBVIOUS
  <2> QED  BY <1>1, <2>1, BitsAreWords
<1>3. Shr(md[t], 0) = md[t]  BY <1>2, ShrZero
<1>4. PathIndex(t, 0, md[t]) = HashIndex(t, 0, Shr(md[t], 0))
  <2>1. 0 \in 0 .. H  OBVIOUS
  <2> QED  BY <1>1, <2>1, SameWord
<1> QED  BY <1>1, <1>3, <1>4 DEF Complete

\* One climb of the verifier lands on the parent of the node it stood on.
LEMMA ClimbLemma ==
  ASSUME TypeOK, NEW t \in Trees, NEW top \in 0 .. H, NEW y \in 1 .. top, NEW below,
         Complete(t, H), Signed(t, top),
         below = levels[t][y - 1][Shr(md[t], y - 1)]
  PROVE  Climb(t, y, below, sig[t][y], md[t]) = levels[t][y][Shr(md[t], y)]
<1> DEFINE x == md[t]
           p == Shr(x, y - 1)
           q == Shr(x, y)
<1>1. x \in Bits(H)  BY DEF TypeOK, Leaves
<1>2. x \in Word  BY <1>1, BitsAreWords
<1>3. p \in Word  BY ShrWord
<1>4. q = Shr(p, 1)
  <2>1. y - 1 \in Nat /\ (y - 1) + 1 = y  OBVIOUS
  <2> HIDE DEF x
  <2> QED  BY <1>2, <2>1, ShrShr
<1>5. q \in Bits(H - y)
  <2>1. H \in Nat /\ y \in 0 .. H  OBVIOUS
  <2> HIDE DEF x
  <2> QED  BY <1>1, <2>1, ShrNarrows
<1>6. (0 \in p) <=> (y - 1 \in x)
  <2>1. y - 1 \in Nat  OBVIOUS
  <2> HIDE DEF x
  <2> QED  BY <1>2, <2>1, BitOfShift
<1>7. levels[t][y][q] = NodeHash(y, PathIndex(t, y, x),
                                 levels[t][y - 1][EvenChild(q)], levels[t][y - 1][OddChild(q)])
  <2>1. PathIndex(t, y, x) = HashIndex(t, y, q)
    <3>1. y \in 0 .. H  OBVIOUS
    <3> HIDE DEF x
    <3> QED  BY <1>1, <3>1, SameWord DEF q
  <2>2. y \in 1 .. H  OBVIOUS
  <2> HIDE DEF q, x
  <2>3. levels[t][y] = LevelAbove(t, y, levels[t][y - 1])  BY <2>2 DEF Complete
  <2>4. levels[t][y][q] = NodeHash(y, HashIndex(t, y, q),
                                   levels[t][y - 1][EvenChild(q)], levels[t][y - 1][OddChild(q)])
    BY <1>5, <2>3 DEF LevelAbove
  <2> QED  BY <2>1, <2>4
<1>8. sig[t][y] = levels[t][y - 1][Sibling(p)]
  BY DEF Signed
<1>9. CASE 0 \in p
  <2>1. OddChild(q) = p /\ EvenChild(q) = Sibling(p)
    <3> HIDE DEF p, q
    <3> QED  BY <1>3, <1>4, <1>9, ChildrenOfParent
  <2> HIDE DEF p, q, x
  <2> QED  BY <1>6, <1>7, <1>8, <1>9, <2>1 DEF Climb, p, q, x
<1>10. CASE ~(0 \in p)
  <2>1. EvenChild(q) = p /\ OddChild(q) = Sibling(p)
    <3> HIDE DEF p, q
    <3> QED  BY <1>3, <1>4, <1>10, ChildrenOfParent
  <2> HIDE DEF p, q, x
  <2> QED  BY <1>6, <1>7, <1>8, <1>10, <2>1 DEF Climb, p, q, x
<1> QED  BY <1>9, <1>10

-----------------------------------------------------------------------------
\* The parts of TypeOK that are not about tables.
LEMMA Scalars ==
  ASSUME TypeOK
  PROVE  /\ K \in Nat \ {0} /\ H \in 1 .. 63 /\ 0 \in 0 .. H /\ H \in 0 .. H
         /\ i \in Trees /\ z \in 0 .. H + 1 /\ pending \subseteq Leaves
         /\ \A t \in Trees : md[t] \in Leaves /\ md[t] \in Word
<1>1. i \in Trees /\ z \in 0 .. H + 1 /\ pending \subseteq Leaves /\ md \in [Trees -> Leaves]
  BY Zenon DEF TypeOK
<1>2. K \in Nat \ {0} /\ H \in 1 .. 63
  BY Zenon DEF SizeAssumption
<1>3. \A t \in Trees : md[t] \in Leaves  BY <1>1
<1>4. \A x \in Bits(H) : x \in Word
  <2>1. H \in 0 .. 64  BY <1>2
  <2> QED  BY <2>1, BitsAreWords
<1> QED  BY <1>1, <1>2, <1>3, <1>4 DEF Leaves

\* Level y of tree t becomes row and no other level changes; likewise one entry
\* of one signature.  (The two lemmas below conclude these from an EXCEPT.)
LevelReplaced(t, y, row) ==
    /\ levels'[t][y] = row
    /\ \A u \in Trees : u # t => levels'[u] = levels[u]
    /\ \A a \in 0 .. H : a # y => levels'[t][a] = levels[t][a]

SigReplaced(t, y, v) ==
    /\ sig'[t][y] = v
    /\ \A u \in Trees : u # t => sig'[u] = sig[u]
    /\ \A a \in 0 .. H : a # y => sig'[t][a] = sig[t][a]

\* Replacing one level of one tree leaves the tables well formed, and every
\* other level of every tree as it was.
LEMMA LevelUpdate ==
  ASSUME TypeOK, NEW t \in Trees, NEW y \in 0 .. H, NEW row, IsTable(row, Bits(H - y)),
         levels' = [levels EXCEPT ![t][y] = row]
  PROVE  LevelTables' /\ LevelReplaced(t, y, row)
<1>1. levels' = [levels EXCEPT ![t] = [levels[t] EXCEPT ![y] = row]]  OBVIOUS
<1>2. IsTable(levels, Trees) /\ IsTable(levels[t], 0 .. H)  BY DEF TypeOK, LevelTables
<1> DEFINE lt == [levels[t] EXCEPT ![y] = row]
<1>3. /\ IsTable(lt, 0 .. H)
      /\ lt[y] = row
      /\ \A a \in (0 .. H) \ {y} : lt[a] = levels[t][a]
  BY <1>2 DEF IsTable
<1> HIDE DEF lt
<1>4. /\ IsTable(levels', Trees)
      /\ levels'[t] = lt
      /\ \A u \in Trees \ {t} : levels'[u] = levels[u]
  <2>1. levels' = [levels EXCEPT ![t] = lt]  BY <1>1 DEF lt
  <2> QED  BY <1>2, <2>1 DEF IsTable
<1>5. \A u \in Trees : IsTable(levels'[u], 0 .. H)  BY <1>3, <1>4 DEF TypeOK, LevelTables
<1>6. ASSUME NEW u \in Trees, NEW a \in 0 .. H
      PROVE  /\ (u # t \/ a # y) => levels'[u][a] = levels[u][a]
             /\ IsTable(levels'[u][a], Bits(H - a))
  <2>0. IsTable(levels[u][a], Bits(H - a))  BY DEF TypeOK, LevelTables
  <2>1. CASE u # t  BY <2>0, <2>1, <1>4
  <2>2. CASE u = t /\ a # y  BY <2>0, <2>2, <1>3, <1>4
  <2>3. CASE u = t /\ a = y  BY <2>3, <1>3, <1>4
  <2> QED  BY <2>1, <2>2, <2>3
<1>7. LevelTables'  BY <1>4, <1>5, <1>6 DEF LevelTables
<1>8. LevelReplaced(t, y, row)
  <2>1. levels'[t][y] = row  BY <1>3, <1>4
  <2>2. \A a \in 0 .. H : a # y => levels'[t][a] = levels[t][a]  BY <1>3, <1>4
  <2> QED  BY <1>4, <2>1, <2>2 DEF LevelReplaced
<1> QED  BY <1>7, <1>8

\* The same for one entry of one signature.
LEMMA SigUpdate ==
  ASSUME TypeOK, NEW t \in Trees, NEW y \in 0 .. H, NEW v,
         sig' = [sig EXCEPT ![t][y] = v]
  PROVE  SigTables' /\ SigReplaced(t, y, v)
<1>1. sig' = [sig EXCEPT ![t] = [sig[t] EXCEPT ![y] = v]]  OBVIOUS
<1>2. IsTable(sig, Trees) /\ \A u \in Trees : IsTable(sig[u], 0 .. H)
  BY DEF TypeOK, SigTables
<1> DEFINE st == [sig[t] EXCEPT ![y] = v]
<1>3. IsTable(st, 0 .. H) /\ \A a \in 0 .. H : st[a] = IF a = y THEN v ELSE sig[t][a]
  BY <1>2 DEF IsTable
<1> HIDE DEF st
<1>4. IsTable(sig', Trees) /\ \A u \in Trees : sig'[u] = IF u = t THEN st ELSE sig[u]
  <2>1. sig' = [sig EXCEPT ![t] = st]  BY <1>1 DEF st
  <2> QED  BY <1>2, <2>1 DEF IsTable
<1>5. ASSUME NEW u \in Trees
      PROVE  /\ IsTable(sig'[u], 0 .. H)
             /\ \A a \in 0 .. H : sig'[u][a] = IF u = t /\ a = y THEN v ELSE sig[u][a]
  <2>1. CASE u = t  BY <2>1, <1>3, <1>4
  <2>2. CASE u # t  BY <2>2, <1>2, <1>4
  <2> QED  BY <2>1, <2>2
<1>6. SigReplaced(t, y, v)
  <2>1. sig'[t][y] = v  BY <1>5
  <2>2. \A a \in 0 .. H : a # y => sig'[t][a] = sig[t][a]  BY <1>5
  <2> QED  BY <1>4, <2>1, <2>2 DEF SigReplaced
<1> QED  BY <1>4, <1>5, <1>6 DEF SigTables

\* A tree none of whose levels changed stays complete, and signed if its
\* signature did not change either.
LEMMA CompleteFrame ==
  ASSUME NEW t, NEW top \in 0 .. H, Complete(t, top),
         \A y \in 0 .. top : levels'[t][y] = levels[t][y]
  PROVE  Complete(t, top)'
<1>1. levels'[t][0] = levels[t][0]  OBVIOUS
<1>2. \A y \in 1 .. top : levels'[t][y] = levels[t][y] /\ levels'[t][y - 1] = levels[t][y - 1]
  <2>1. \A y \in 1 .. top : y \in 0 .. top /\ y - 1 \in 0 .. top  OBVIOUS
  <2> QED  BY <2>1
<1> QED  BY <1>1, <1>2 DEF Complete, LevelAbove

LEMMA SignedFrame ==
  ASSUME NEW t, NEW top \in 0 .. H, Signed(t, top),
         levels'[t] = levels[t], md' = md, \A y \in 0 .. top : sig'[t][y] = sig[t][y]
  PROVE  Signed(t, top)'
  BY DEF Signed

-----------------------------------------------------------------------------
\* The row a worker writes: one leaf of level 0 changes, nothing else does.
LEMMA LeafRow ==
  ASSUME TypeOK, NEW n \in Leaves, ComputeLeaf(n)
  PROVE  LET row == [levels[i][0] EXCEPT ![n] = LeafHash(HashIndex(i, 0, n), Secret(i, n))]
         IN  /\ IsTable(row, Bits(H - 0))
             /\ levels' = [levels EXCEPT ![i][0] = row]
             /\ row[n] = LeafHash(HashIndex(i, 0, n), Secret(i, n))
             /\ \A m \in Leaves \ {n} : row[m] = levels[i][0][m]
<1>1. IsTable(levels[i][0], Bits(H - 0)) /\ i \in Trees  BY Scalars DEF TypeOK, LevelTables
<1>2. Leaves = Bits(H - 0)  BY DEF Leaves
<1> QED  BY <1>1, <1>2 DEF ComputeLeaf, IsTable

LEMMA TypeStep == TypeOK /\ [Next]_vars => TypeOK'
<1> SUFFICES ASSUME TypeOK, [Next]_vars PROVE TypeOK'
  OBVIOUS
<1> USE DEF TypeOK
<1>1. ASSUME NEW n \in Leaves, ComputeLeaf(n) PROVE TypeOK'
  <2> DEFINE row == [levels[i][0] EXCEPT ![n] = LeafHash(HashIndex(i, 0, n), Secret(i, n))]
  <2>1. IsTable(row, Bits(H - 0)) /\ levels' = [levels EXCEPT ![i][0] = row]
    BY <1>1, LeafRow
  <2>2. i \in Trees /\ 0 \in 0 .. H  BY Scalars
  <2> HIDE DEF row
  <2>3. LevelTables'  BY <2>1, <2>2, LevelUpdate
  <2> QED  BY <1>1, <2>3 DEF ComputeLeaf, SigTables
<1>2. CASE CollectLeaves  BY <1>2 DEF CollectLeaves, SigTables, LevelTables
<1>3. CASE BuildLevel
  <2> DEFINE row == LevelAbove(i, z, levels[i][z - 1])
  <2>1. IsTable(row, Bits(H - z))  BY DEF LevelAbove, IsTable
  <2> HIDE DEF row
  <2>2. i \in Trees /\ z \in 0 .. H /\ levels' = [levels EXCEPT ![i][z] = row]
    BY <1>3, Scalars DEF BuildLevel, row
  <2>3. LevelTables'  BY <2>1, <2>2, LevelUpdate
  <2>4. md[i] \in Leaves  BY <2>2, Scalars
  <2>5. SigTables'
    <3>1. CASE sig' = sig  BY <3>1 DEF SigTables
    <3>2. CASE sig' = [sig EXCEPT ![i][0] = Secret(i, md[i])]
      BY <2>2, <3>2, Scalars, SigUpdate
    <3> QED  BY <1>3, <3>1, <3>2 DEF BuildLevel
  <2> QED  BY <1>3, <2>2, <2>3, <2>4, <2>5 DEF BuildLevel
<1>4. CASE CopyPathNode
  <2>1. Shr(idx, 1) \in Leaves
    <3>1. Shr(idx, 1) \in Bits(H - 1)
      <4>1. idx \in Bits(H) /\ H \in Nat /\ 1 \in 0 .. H  BY DEF Leaves
      <4> QED  BY <4>1, ShrNarrows
    <3> QED  BY <3>1 DEF Bits, Leaves
  <2>2. i \in Trees /\ z + 1 \in 0 .. H  BY <1>4, Scalars DEF CopyPathNode
  <2>3. SigTables'
    <3>1. sig' = [sig EXCEPT ![i][z + 1] = levels[i][z][Sibling(idx)]]  BY <1>4 DEF CopyPathNode
    <3> QED  BY <2>2, <3>1, SigUpdate
  <2>4. LevelTables'  BY <1>4 DEF CopyPathNode, LevelTables
  <2>5. z' \in 0 .. H + 1 /\ idx' \in Leaves  BY <1>4, <2>1, <2>2, Scalars DEF CopyPathNode
  <2> QED  BY <1>4, <2>3, <2>4, <2>5 DEF CopyPathNode
<1>5. CASE PushRoot
  <2>1. IsTable(roots', Trees)  BY <1>5 DEF PushRoot, IsTable
  <2>2. i' \in Trees  BY <1>5, Scalars DEF PushRoot, Trees
  <2>3. LevelTables' /\ SigTables'  BY <1>5 DEF PushRoot, LevelTables, SigTables
  <2> QED  BY <1>5, <2>1, <2>2, <2>3, Scalars DEF PushRoot
<1>6. CASE VerifyLeaf
  BY <1>6, Scalars DEF VerifyLeaf, LevelTables, SigTables
<1>7. CASE VerifyNode
  BY <1>7, Scalars DEF VerifyNode, LevelTables, SigTables
<1>8. CASE VerifyRoot
  <2>1. IsTable(vroots', Trees)  BY <1>8 DEF VerifyRoot, IsTable
  <2>2. i' \in Trees  BY <1>8, Scalars DEF VerifyRoot, Trees
  <2>3. LevelTables' /\ SigTables'  BY <1>8 DEF VerifyRoot, LevelTables, SigTables
  <2> QED  BY <1>8, <2>1, <2>2, <2>3, Scalars DEF VerifyRoot
<1>9. CASE UNCHANGED vars  BY <1>9 DEF vars, LevelTables, SigTables
<1> QED
  BY <1>1, <1>2, <1>3, <1>4, <1>5, <1>6, <1>7, <1>8, <1>9 DEF Next, Finished

LEMMA InitInv == Init => IInv
<1> SUFFICES ASSUME Init PROVE IInv
  OBVIOUS
<1>1. TypeOK  BY DEF Init, TypeOK, LevelTables, SigTables, IsTable, Trees, Leaves, Bits
<1> QED
  BY <1>1 DEF Init, IInv, InvLeaves, InvLevels, InvPath, InvPast, InvWalk, InvDone

(***************************************************************************)
(* Type correctness of the tree building, signing and verifying loops      *)
(* (fors_levels, sign, fors_pk_from_sig) at every size.                    *)
(***************************************************************************)
THEOREM TypeCorrect == Spec => []TypeOK
<1>1. Init => TypeOK  BY InitInv DEF IInv
<1> QED  BY <1>1, TypeStep, PTL DEF Spec

-----------------------------------------------------------------------------
\* A finished tree stays finished while a later one is worked on.
LEMMA FinishFrame ==
  ASSUME TypeOK, NEW t \in Trees, Finish(t),
         levels'[t] = levels[t], sig'[t] = sig[t], roots'[t] = roots[t], md' = md
  PROVE  Finish(t)'
  BY DEF Finish, Complete, Signed, LevelAbove

LEMMA InvStep == IInv /\ [Next]_vars => IInv'
<1> SUFFICES ASSUME IInv, [Next]_vars PROVE IInv'
  OBVIOUS
<1>0. TypeOK /\ TypeOK'  BY TypeStep DEF IInv
<1> DEFINE Rest == InvLeaves /\ InvLevels /\ InvPath /\ InvPast /\ InvWalk /\ InvDone
<1>a. Rest  BY DEF IInv
<1> SUFFICES Rest'  BY <1>0 DEF IInv, Rest
<1> HIDE DEF Rest
<1>1. ASSUME NEW n \in Leaves, ComputeLeaf(n) PROVE Rest'
  <2> DEFINE row == [levels[i][0] EXCEPT ![n] = LeafHash(HashIndex(i, 0, n), Secret(i, n))]
  <2>1. /\ IsTable(row, Bits(H - 0)) /\ levels' = [levels EXCEPT ![i][0] = row]
        /\ row[n] = LeafHash(HashIndex(i, 0, n), Secret(i, n))
        /\ \A m \in Leaves \ {n} : row[m] = levels[i][0][m]
    BY <1>0, <1>1, LeafRow
  <2>2. i \in Trees /\ 0 \in 0 .. H  BY <1>0, Scalars
  <2> HIDE DEF row
  <2>a. LevelReplaced(i, 0, row)  BY <1>0, <2>1, <2>2, LevelUpdate
  <2>3. levels'[i][0] = row /\ \A u \in Trees : u # i => levels'[u] = levels[u]
    BY <2>a DEF LevelReplaced
  <2>4. phase = "leaves" /\ phase' = "leaves" /\ i' = i /\ md' = md /\ sig' = sig /\ roots' = roots
        /\ pending' = pending \ {n}
    BY <1>1 DEF ComputeLeaf
  <2>5. InvLeaves'  BY <1>a, <2>1, <2>3, <2>4 DEF Rest, InvLeaves
  <2>6. InvPast'
    <3>1. \A t \in 0 .. i - 1 : t \in Trees /\ t # i  BY <2>2 DEF Trees
    <3>2. \A t \in 0 .. i - 1 : Finish(t)'
      BY <1>0, <1>a, <2>3, <2>4, <3>1, FinishFrame DEF Rest, InvPast
    <3> QED  BY <2>4, <3>2 DEF InvPast
  <2> QED  BY <2>4, <2>5, <2>6 DEF Rest, InvLevels, InvPath, InvWalk, InvDone
<1>2. CASE CollectLeaves
  <2>1. phase = "leaves" /\ pending = {} /\ phase' = "levels" /\ z' = 1 /\ UNCHANGED <<i, md, levels, sig, roots>>
    BY <1>2 DEF CollectLeaves
  <2>2. Complete(i, 0)'
    <3>1. \A n \in Leaves : levels[i][0][n] = LeafHash(HashIndex(i, 0, n), Secret(i, n))
      BY <1>a, <2>1 DEF Rest, InvLeaves
    <3> QED  BY <2>1, <3>1 DEF Complete
  <2>3. InvLevels'  BY <1>0, <2>1, <2>2, Scalars DEF InvLevels
  <2>4. InvPast'  BY <1>a, <2>1 DEF Rest, InvPast, Finish, Complete, Signed
  <2> QED  BY <2>1, <2>3, <2>4 DEF Rest, InvLeaves, InvPath, InvWalk, InvDone
<1>3. CASE BuildLevel
  <2> DEFINE row == LevelAbove(i, z, levels[i][z - 1])
  <2>1. IsTable(row, Bits(H - z))  BY DEF LevelAbove, IsTable
  <2> HIDE DEF row
  <2>2. /\ phase = "levels" /\ z \in 1 .. H /\ Complete(i, z - 1)
        /\ levels' = [levels EXCEPT ![i][z] = row]
        /\ i' = i /\ md' = md /\ roots' = roots
    BY <1>3, <1>a DEF Rest, InvLevels, BuildLevel, row
  <2>3. i \in Trees /\ z \in 0 .. H  BY <1>0, <2>2, Scalars
  <2>a. LevelReplaced(i, z, row)  BY <1>0, <2>1, <2>2, <2>3, LevelUpdate
  <2>4. /\ levels'[i][z] = row
        /\ \A u \in Trees : u # i => levels'[u] = levels[u]
        /\ \A a \in 0 .. H : a # z => levels'[i][a] = levels[i][a]
    BY <2>a DEF LevelReplaced
  <2>5. /\ \A n \in Leaves : levels'[i][0][n] = LeafHash(HashIndex(i, 0, n), Secret(i, n))
        /\ \A y \in 1 .. z : levels'[i][y] = LevelAbove(i, y, levels'[i][y - 1])
    <3>1. levels'[i][0] = levels[i][0]  BY <1>0, <2>2, <2>4, Scalars
    <3>2. ASSUME NEW y \in 1 .. z PROVE levels'[i][y] = LevelAbove(i, y, levels'[i][y - 1])
      <4>1. y \in 0 .. H /\ y - 1 \in 0 .. H /\ y - 1 # z  BY <2>2, Scalars
      <4>2. levels'[i][y - 1] = levels[i][y - 1]  BY <2>4, <4>1
      <4>3. CASE y = z  BY <2>4, <4>2, <4>3 DEF row
      <4>4. CASE y # z
        <5>1. y \in 1 .. z - 1  BY <4>4, <2>2
        <5>2. levels[i][y] = LevelAbove(i, y, levels[i][y - 1])  BY <2>2, <5>1 DEF Complete
        <5> QED  BY <2>4, <4>1, <4>2, <4>4, <5>2
      <4> QED  BY <4>3, <4>4
    <3>3. ASSUME NEW n \in Leaves
          PROVE  levels'[i][0][n] = LeafHash(HashIndex(i, 0, n), Secret(i, n))
      BY <2>2, <3>1 DEF Complete
    <3> QED  BY <3>2, <3>3
  <2>6. CASE z < H /\ z' = z + 1 /\ UNCHANGED <<phase, idx, sig>>
    <3>1. InvLevels'
      <4>1. z' \in 1 .. H /\ z' - 1 = z /\ i' = i  BY <2>2, <2>6
      <4> QED  BY <2>5, <4>1 DEF InvLevels, Complete
    <3>2. \A t \in 0 .. i - 1 : t \in Trees /\ t # i  BY <2>3 DEF Trees
    <3>3. \A t \in 0 .. i - 1 : Finish(t)'
      BY <1>0, <1>a, <2>2, <2>4, <2>6, <3>2, FinishFrame DEF Rest, InvPast
    <3>4. InvPast'  BY <2>2, <2>6, <3>3 DEF InvPast
    <3> QED  BY <2>2, <2>6, <3>1, <3>4 DEF Rest, InvLeaves, InvPath, InvWalk, InvDone
  <2>7. CASE /\ z = H /\ phase' = "path" /\ z' = 0 /\ idx' = md[i]
             /\ sig' = [sig EXCEPT ![i][0] = Secret(i, md[i])]
    <3>0. SigReplaced(i, 0, Secret(i, md[i]))  BY <1>0, <2>3, <2>7, Scalars, SigUpdate
    <3>1. sig'[i][0] = Secret(i, md[i]) /\ \A u \in Trees : u # i => sig'[u] = sig[u]
      BY <3>0 DEF SigReplaced
    <3>3. idx' = Shr(md[i], 0)
      <4>1. md[i] \in Word  BY <1>0, <2>3, Scalars
      <4> QED  BY <2>7, <4>1, ShrZero
    <3>4. InvPath'
      <4>1. z' \in 0 .. H /\ z' = 0 /\ i' = i /\ md' = md  BY <1>0, <2>2, <2>7, Scalars
      <4>2. Complete(i, H)'  BY <2>2, <2>5, <2>7 DEF Complete
      <4>3. Signed(i, z)'  BY <3>1, <4>1 DEF Signed
      <4>4. idx' = Shr(md'[i'], z')  BY <3>3, <4>1
      <4> QED  BY <4>1, <4>2, <4>3, <4>4 DEF InvPath
    <3>5. \A t \in 0 .. i - 1 : t \in Trees /\ t # i  BY <2>3 DEF Trees
    <3>7. \A t \in 0 .. i - 1 : Finish(t)'
      BY <1>0, <1>a, <2>2, <2>4, <3>1, <3>5, FinishFrame DEF Rest, InvPast
    <3>8. InvPast'  BY <2>2, <2>7, <3>7 DEF InvPast
    <3> QED  BY <2>2, <2>7, <3>4, <3>8 DEF Rest, InvLeaves, InvLevels, InvWalk, InvDone
  <2> QED  BY <1>3, <2>6, <2>7 DEF BuildLevel
<1>4. CASE CopyPathNode
  <2>1. /\ phase = "path" /\ z \in 0 .. H - 1 /\ Complete(i, H) /\ Signed(i, z) /\ idx = Shr(md[i], z)
        /\ sig' = [sig EXCEPT ![i][z + 1] = levels[i][z][Sibling(idx)]]
        /\ idx' = Shr(idx, 1) /\ z' = z + 1 /\ UNCHANGED <<phase, i, md, levels, roots>>
    BY <1>0, <1>4, <1>a, Scalars DEF Rest, InvPath, CopyPathNode
  <2>2. i \in Trees /\ z + 1 \in 0 .. H  BY <1>0, <2>1, Scalars
  <2>a. SigReplaced(i, z + 1, levels[i][z][Sibling(idx)])  BY <1>0, <2>1, <2>2, SigUpdate
  <2>3. /\ sig'[i][z + 1] = levels[i][z][Sibling(idx)]
        /\ \A u \in Trees : u # i => sig'[u] = sig[u]
        /\ \A a \in 0 .. H : a # z + 1 => sig'[i][a] = sig[i][a]
    BY <2>a DEF SigReplaced
  <2>4. /\ sig'[i][0] = Secret(i, md[i])
        /\ \A y \in 1 .. z + 1 : sig'[i][y] = levels[i][y - 1][Sibling(Shr(md[i], y - 1))]
    <3>1. sig'[i][0] = Secret(i, md[i])  BY <1>0, <2>1, <2>2, <2>3, Scalars DEF Signed
    <3>2. ASSUME NEW y \in 1 .. z + 1
          PROVE  sig'[i][y] = levels[i][y - 1][Sibling(Shr(md[i], y - 1))]
      <4>1. y \in 0 .. H  BY <2>1, Scalars
      <4>2. CASE y = z + 1  BY <2>1, <2>2, <2>3, <4>1, <4>2
      <4>3. CASE y # z + 1
        <5>1. y \in 1 .. z  BY <4>3, <2>1
        <5> QED  BY <2>1, <2>2, <2>3, <4>1, <4>3, <5>1 DEF Signed
      <4> QED  BY <4>2, <4>3
    <3> QED  BY <3>1, <3>2
  <2>5. idx' = Shr(md[i], z + 1)
    <3>1. md[i] \in Word /\ z \in Nat  BY <1>0, <2>1, <2>2, Scalars
    <3> QED  BY <2>1, <3>1, ShrShr
  <2>6. Complete(i, H)'  BY <2>1 DEF Complete
  <2>7. InvPath'
    <3>1. z' \in 0 .. H /\ z' = z + 1 /\ i' = i /\ md' = md /\ levels' = levels  BY <2>1, <2>2
    <3>2. Signed(i, z)'  BY <2>4, <3>1 DEF Signed
    <3>3. idx' = Shr(md'[i'], z')  BY <2>5, <3>1
    <3> QED  BY <2>6, <3>1, <3>2, <3>3 DEF InvPath
  <2>8. InvPast'
    <3>1. \A t \in 0 .. i - 1 : t \in Trees /\ t # i  BY <2>2 DEF Trees
    <3>3. \A t \in 0 .. i - 1 : Finish(t)'
      BY <1>0, <1>a, <2>1, <2>3, <3>1, FinishFrame DEF Rest, InvPast
    <3> QED  BY <2>1, <3>3 DEF InvPast
  <2> QED  BY <2>1, <2>7, <2>8 DEF Rest, InvLeaves, InvLevels, InvWalk, InvDone
<1>5. CASE PushRoot
  <2>1. /\ phase = "path" /\ z = H /\ Complete(i, H) /\ Signed(i, H)
        /\ roots' = [roots EXCEPT ![i] = levels[i][H][{}]] /\ z' = 0
        /\ UNCHANGED <<md, levels, sig>>
    BY <1>5, <1>a DEF Rest, InvPath, PushRoot
  <2>2. i \in Trees  BY <1>0, Scalars
  <2>3. roots'[i] = levels[i][H][{}] /\ \A u \in Trees : u # i => roots'[u] = roots[u]
    BY <1>0, <2>1, <2>2 DEF TypeOK, IsTable
  <2>4. ASSUME NEW t \in Trees, t = i PROVE Finish(t)'
    BY <2>1, <2>3, <2>4 DEF Finish, Complete, Signed
  <2>5. ASSUME NEW t \in 0 .. i - 1 PROVE Finish(t)'
    <3>1. t \in Trees /\ t # i  BY <2>2 DEF Trees
    <3>2. Finish(t)  BY <1>a, <2>1 DEF Rest, InvPast
    <3> QED  BY <1>0, <2>1, <2>3, <3>1, <3>2, FinishFrame
  <2>6. \A t \in 0 .. i : Finish(t)'
    <3>1. \A t \in 0 .. i : t \in Trees /\ (t = i \/ t \in 0 .. i - 1)  BY <2>2 DEF Trees
    <3> QED  BY <2>4, <2>5, <3>1
  <2>7. CASE i < K - 1 /\ i' = i + 1 /\ phase' = "leaves" /\ pending' = Leaves
    <3>1. \A t \in 0 .. i' - 1 : Finish(t)'
      <4>1. 0 .. i' - 1 = 0 .. i  BY <2>2, <2>7 DEF Trees
      <4> QED  BY <2>6, <4>1
    <3>2. InvPast'  BY <2>7, <3>1 DEF InvPast
    <3> QED  BY <2>7, <3>2 DEF Rest, InvLeaves, InvLevels, InvPath, InvWalk, InvDone
  <2>8. CASE i = K - 1 /\ i' = 0 /\ phase' = "verify"
    <3>1. 0 .. i = Trees  BY <2>8 DEF Trees
    <3>2. InvPast'  BY <2>6, <2>8, <3>1 DEF InvPast
    <3>3. InvWalk'  BY <2>1, <2>8 DEF InvWalk
    <3> QED  BY <2>8, <3>2, <3>3 DEF Rest, InvLeaves, InvLevels, InvPath, InvDone
  <2> QED  BY <1>5, <2>7, <2>8 DEF PushRoot
<1>6. CASE VerifyLeaf
  <2>1. /\ phase = "verify" /\ z = 0 /\ z' = 1
        /\ node' = LeafHash(PathIndex(i, 0, md[i]), sig[i][0])
        /\ UNCHANGED <<phase, i, md, levels, sig, roots, vroots>>
    BY <1>6 DEF VerifyLeaf
  <2>2. i \in Trees /\ md[i] \in Leaves /\ md[i] \in Word  BY <1>0, Scalars
  <2>3. Finish(i)  BY <1>a, <2>1, <2>2 DEF Rest, InvPast
  <2>4. node' = levels[i][0][md[i]]  BY <1>0, <2>1, <2>2, <2>3, LeafLemma DEF Finish, Signed
  <2>5. Shr(md[i], 0) = md[i]  BY <2>2, ShrZero
  <2>6. InvWalk'  BY <1>a, <2>1, <2>4, <2>5 DEF Rest, InvWalk
  <2>7. InvPast'  BY <1>a, <2>1 DEF Rest, InvPast, Finish, Complete, Signed
  <2> QED  BY <2>1, <2>6, <2>7 DEF Rest, InvLeaves, InvLevels, InvPath, InvDone
<1>7. CASE VerifyNode
  <2>1. /\ phase = "verify" /\ z \in 1 .. H /\ z' = z + 1
        /\ node' = Climb(i, z, node, sig[i][z], md[i])
        /\ UNCHANGED <<phase, i, md, levels, sig, roots, vroots>>
    BY <1>7 DEF VerifyNode
  <2>2. i \in Trees  BY <1>0, Scalars
  <2>3. Complete(i, H) /\ Signed(i, H)  BY <1>a, <2>1, <2>2 DEF Rest, InvPast, Finish
  <2>4. node = levels[i][z - 1][Shr(md[i], z - 1)]  BY <1>a, <2>1 DEF Rest, InvWalk
  <2>5. node' = levels[i][z][Shr(md[i], z)]
    <3>1. H \in 0 .. H  BY <1>0, Scalars
    <3> QED  BY <1>0, <2>1, <2>2, <2>3, <2>4, <3>1, ClimbLemma
  <2>6. InvWalk'
    <3>1. z' - 1 = z  BY <2>1
    <3> QED  BY <1>a, <2>1, <2>5, <3>1 DEF Rest, InvWalk
  <2>7. InvPast'  BY <1>a, <2>1 DEF Rest, InvPast, Finish, Complete, Signed
  <2> QED  BY <2>1, <2>6, <2>7 DEF Rest, InvLeaves, InvLevels, InvPath, InvDone
<1>8. CASE VerifyRoot
  <2>1. /\ phase = "verify" /\ z = H + 1
        /\ vroots' = [vroots EXCEPT ![i] = node]
        /\ UNCHANGED <<md, levels, sig, roots>>
    BY <1>8 DEF VerifyRoot
  <2>2. i \in Trees /\ md[i] \in Bits(H) /\ H \in Nat  BY <1>0, Scalars DEF Leaves
  <2>3. node = levels[i][H][Shr(md[i], H)]
    <3>1. z >= 1 /\ z - 1 = H  BY <2>1, <2>2
    <3> QED  BY <1>a, <2>1, <3>1 DEF Rest, InvWalk
  <2>4. Shr(md[i], H) = {}
    <3>1. Shr(md[i], H) \in Bits(H - H)  BY <2>2, ShrNarrows
    <3>2. 0 .. (H - H) - 1 = {}  BY <2>2
    <3> QED  BY <3>1, <3>2 DEF Bits
  <2>5. node = roots[i]
    <3>1. Finish(i)  BY <1>a, <2>1, <2>2 DEF Rest, InvPast
    <3> QED  BY <2>3, <2>4, <3>1 DEF Finish
  <2>6. vroots'[i] = node /\ \A u \in Trees : u # i => vroots'[u] = vroots[u]
    BY <1>0, <2>1, <2>2 DEF TypeOK, IsTable
  <2>7. \A t \in 0 .. i : vroots'[t] = roots'[t]
    <3>1. \A t \in 0 .. i : t \in Trees /\ (t = i \/ t \in 0 .. i - 1)  BY <2>2 DEF Trees
    <3>2. \A t \in 0 .. i - 1 : vroots[t] = roots[t]  BY <1>a, <2>1 DEF Rest, InvWalk
    <3> QED  BY <2>1, <2>5, <2>6, <3>1, <3>2
  <2>8. \A t \in Trees : Finish(t)'
    BY <1>a, <2>1 DEF Rest, InvPast, Finish, Complete, Signed
  <2>9. CASE i < K - 1 /\ i' = i + 1 /\ z' = 0 /\ UNCHANGED phase
    <3>1. 0 .. i' - 1 = 0 .. i  BY <2>2, <2>9 DEF Trees
    <3>2. InvWalk'
      <4>1. \A t \in 0 .. i' - 1 : vroots'[t] = roots'[t]  BY <2>7, <3>1
      <4>2. ~(z' >= 1)  BY <2>9
      <4> QED  BY <4>1, <4>2 DEF InvWalk
    <3>3. InvPast'  BY <2>1, <2>8, <2>9 DEF InvPast
    <3> QED  BY <2>1, <2>9, <3>2, <3>3 DEF Rest, InvLeaves, InvLevels, InvPath, InvDone
  <2>10. CASE i = K - 1 /\ phase' = "done"
    <3>1. 0 .. i = Trees  BY <2>10 DEF Trees
    <3>2. InvDone'  BY <2>7, <3>1 DEF InvDone
    <3>3. InvPast'  BY <2>8, <2>10 DEF InvPast
    <3> QED  BY <2>10, <3>2, <3>3 DEF Rest, InvLeaves, InvLevels, InvPath, InvWalk
  <2> QED  BY <1>8, <2>9, <2>10 DEF VerifyRoot
<1>9. CASE UNCHANGED vars
  BY <1>a, <1>9 DEF vars, Rest, InvLeaves, InvLevels, InvPath, InvPast, InvWalk, InvDone,
                    Finish, Complete, Signed
<1> QED
  BY <1>1, <1>2, <1>3, <1>4, <1>5, <1>6, <1>7, <1>8, <1>9 DEF Next, Finished

(***************************************************************************)
(* The verifier reconstructs the signer's roots, for every K, every height *)
(* up to 63, every choice of leaves and every hash function: sign and      *)
(* fors_pk_from_sig (and xmss_auth_path and xmss_root_from_sig) agree on   *)
(* the level, order and hash index of each node.                           *)
(***************************************************************************)
THEOREM SignerVerifierAgree == Spec => []RootsAgree
<1>1. IInv => RootsAgree
  BY DEF IInv, TypeOK, IsTable, InvDone, RootsAgree
<1> QED  BY InitInv, InvStep, <1>1, PTL DEF Spec

(***************************************************************************)
(* A signature's path is the path of its leaf, at every size: the revealed *)
(* secret hashes to leaf md[i], and each node sign copies takes a verifier *)
(* one node further up the tree, to the root that is pushed, because the   *)
(* path loop's idx (idx >>= 1 each round) never drifts from the shift of   *)
(* the original index and both sides number the nodes alike.               *)
(***************************************************************************)
THEOREM PathFollowsLeaf == Spec => []PathIsOfLeaf
<1>1. IInv => PathIsOfLeaf
  <2> SUFFICES ASSUME IInv, phase = "path"
               PROVE  /\ LeafHash(PathIndex(i, 0, md[i]), sig[i][0]) = Above(i, 0)
                      /\ \A y \in 1 .. z : Climb(i, y, Above(i, y - 1), sig[i][y], md[i]) = Above(i, y)
                      /\ Above(i, H) = levels[i][H][{}]
    BY DEF PathIsOfLeaf
  <2>1. z \in 0 .. H /\ Complete(i, H) /\ Signed(i, z)  BY DEF IInv, InvPath
  <2>2. TypeOK /\ i \in Trees /\ md[i] \in Word /\ md[i] \in Bits(H) /\ H \in Nat
    BY Scalars DEF IInv, Leaves
  <2>3. LeafHash(PathIndex(i, 0, md[i]), sig[i][0]) = Above(i, 0)
    <3>1. LeafHash(PathIndex(i, 0, md[i]), sig[i][0]) = levels[i][0][md[i]]
      BY <2>1, <2>2, LeafLemma DEF Signed
    <3>2. Shr(md[i], 0) = md[i]  BY <2>2, ShrZero
    <3> QED  BY <3>1, <3>2 DEF Above
  <2>4. ASSUME NEW y \in 1 .. z
        PROVE  Climb(i, y, Above(i, y - 1), sig[i][y], md[i]) = Above(i, y)
    BY <2>1, <2>2, ClimbLemma DEF Above
  <2>5. Above(i, H) = levels[i][H][{}]
    <3>1. Shr(md[i], H) \in Bits(H - H)  BY <2>2, ShrNarrows
    <3>2. 0 .. (H - H) - 1 = {}  BY <2>2
    <3> QED  BY <3>1, <3>2 DEF Bits, Above
  <2> QED  BY <2>3, <2>4, <2>5
<1> QED  BY InitInv, InvStep, <1>1, PTL DEF Spec
-----------------------------------------------------------------------------
\* Hash values and secrets are something.
HashesAreNotNone ==
    /\ \A a, b : Secret(a, b) # None /\ LeafHash(a, b) # None
    /\ \A a, b, l, r : NodeHash(a, b, l, r) # None

LEMMA CompleteIsFilled ==
  ASSUME HashesAreNotNone, NEW t \in Trees, NEW top \in 0 .. H, Complete(t, top),
         NEW y \in 0 .. top, NEW n \in Bits(H - y)
  PROVE  levels[t][y][n] # None
<1>1. CASE y = 0
  <2>1. n \in Leaves  BY <1>1 DEF Leaves
  <2> QED  BY <1>1, <2>1 DEF Complete, HashesAreNotNone
<1>2. CASE y # 0
  <2>1. y \in 1 .. top  BY <1>2
  <2>2. levels[t][y] = LevelAbove(t, y, levels[t][y - 1])  BY <2>1 DEF Complete
  <2>3. levels[t][y][n] = NodeHash(y, HashIndex(t, y, n), levels[t][y - 1][EvenChild(n)],
                                   levels[t][y - 1][OddChild(n)])
    BY <2>2 DEF LevelAbove
  <2> QED  BY <2>3 DEF HashesAreNotNone
<1> QED  BY <1>1, <1>2

\* The path node of level y - 1 is one of that level's nodes.
LEMMA SignedIsFilled ==
  ASSUME HashesAreNotNone, TypeOK, NEW t \in Trees, NEW top \in 0 .. H,
         Complete(t, H), Signed(t, top), NEW y \in 0 .. top
  PROVE  sig[t][y] # None
<1>1. CASE y = 0  BY <1>1 DEF Signed, HashesAreNotNone
<1>2. CASE y # 0
  <2>1. y \in 1 .. top /\ y - 1 \in 0 .. H /\ H - (y - 1) \in Nat \ {0} /\ H \in Nat
    BY <1>2
  <2>2. md[t] \in Bits(H)  BY DEF TypeOK, Leaves
  <2> DEFINE p == Shr(md[t], y - 1)
  <2>3. p \in Bits(H - (y - 1))  BY <2>1, <2>2, ShrNarrows
  <2>4. sig[t][y] = levels[t][y - 1][Sibling(p)]  BY <2>1 DEF Signed
  <2> HIDE DEF p
  <2>5. Sibling(p) \in Bits(H - (y - 1))
    <3>1. 0 \in 0 .. (H - (y - 1)) - 1  BY <2>1
    <3> QED  BY <2>3, <3>1 DEF Sibling, Bits
  <2>6. H \in 0 .. H  BY <2>1
  <2> QED  BY <2>1, <2>4, <2>5, <2>6, CompleteIsFilled
<1> QED  BY <1>1, <1>2

(***************************************************************************)
(* The one barrier of the code is enough, for any K and H: no parent is    *)
(* hashed from a child that no worker has delivered, and no signature has  *)
(* an empty slot.                                                          *)
(***************************************************************************)
THEOREM NoNodeMissing ==
  ASSUME HashesAreNotNone
  PROVE  Spec => []NoMissingNode
<1>1. IInv => NoMissingNode
  <2> SUFFICES ASSUME IInv PROVE NoMissingNode
    OBVIOUS
  <2>1. TypeOK /\ i \in Trees /\ z \in 0 .. H + 1 /\ H \in Nat
    BY Scalars DEF IInv
  <2>2. ASSUME phase = "levels", NEW n \in Bits(H - z + 1) PROVE levels[i][z - 1][n] # None
    <3>1. z \in 1 .. H /\ Complete(i, z - 1)  BY <2>2 DEF IInv, InvLevels
    <3>2. z - 1 \in 0 .. H /\ z - 1 \in 0 .. z - 1 /\ H - (z - 1) = H - z + 1  BY <2>1, <3>1
    <3> QED  BY <2>1, <2>2, <3>1, <3>2, CompleteIsFilled
  <2>3. ASSUME phase = "path", NEW y \in 0 .. z PROVE sig[i][y] # None
    <3>1. z \in 0 .. H /\ Complete(i, H) /\ Signed(i, z)  BY <2>3 DEF IInv, InvPath
    <3> QED  BY <2>1, <2>3, <3>1, SignedIsFilled
  <2>4. ASSUME phase = "verify", NEW t \in Trees, NEW y \in 0 .. H PROVE sig[t][y] # None
    <3>1. Complete(t, H) /\ Signed(t, H)  BY <2>4 DEF IInv, InvPast, Finish
    <3>2. H \in 0 .. H  BY <2>1
    <3> QED  BY <2>1, <2>4, <3>1, <3>2, SignedIsFilled
  <2> QED  BY <2>2, <2>3, <2>4 DEF NoMissingNode
<1> QED  BY InitInv, InvStep, <1>1, PTL DEF Spec

(***************************************************************************)
(* No two nodes of a forest are hashed under the same (level, hash) words, *)
(* for every K and every height up to 63: fors_idx * (FORS_LEAVES >> z) +  *)
(* n keeps the trees apart at each level, because n has H - z bits.        *)
(***************************************************************************)
THEOREM NodesHaveOwnAddresses == Spec => []AddressesDistinct
<1>1. AddressesDistinct  BY HashIndexInjective DEF AddressesDistinct
<1> QED  BY <1>1, PTL
-----------------------------------------------------------------------------
\* Level y of tree t, when level y - 1 is below.
Row(t, f, y) ==
    [n \in Bits(H - y) |->
        IF y = 0 THEN LeafHash(HashIndex(t, y, n), Secret(t, n))
                 ELSE NodeHash(y, HashIndex(t, y, n), f[y - 1][EvenChild(n)], f[y - 1][OddChild(n)])]

\* f is tree t: each level is the one the level below determines.
IsTree(t, f) == f = [y \in 0 .. H |-> Row(t, f, y)]

\* The recursion of MerkleContract, in those words; its word operators are ours.
LEMMA ContractTree == ASSUME NEW t PROVE Contract!FullTree(t) = CHOOSE f : IsTree(t, f)
  BY Zenon DEF Contract!FullTree, IsTree, Row, Contract!Bits, Bits, Contract!Pow2, Pow2, Contract!Val, Val,
     HashIndex, Contract!EvenChild, EvenChild, Contract!OddChild, OddChild, Contract!Shl, Shl, Contract!BitPos, BitPos

LEMMA ContractWords ==
  /\ Contract!Trees = Trees
  /\ \A x : Contract!Sibling(x) = Sibling(x)
  /\ \A x, k : Contract!Shr(x, k) = Shr(x, k)
  /\ Contract!Bits(H) = Leaves
  BY DEF Contract!Trees, Trees, Contract!Sibling, Sibling, Contract!Shr, Shr, Contract!BitPos, BitPos,
         Contract!Bits, Bits, Leaves

\* The leaves and the height determine a tree.
LEMMA TreeUnique ==
  ASSUME NEW t, NEW f, NEW g, IsTree(t, f), IsTree(t, g)
  PROVE  f = g
<1> DEFINE T == {y \in Nat : y \in 0 .. H => f[y] = g[y]}
<1>1. \A y \in 0 .. H : f[y] = Row(t, f, y) /\ g[y] = Row(t, g, y)
  BY DEF IsTree
<1>2. 0 \in T
  <2>1. 0 \in 0 .. H  OBVIOUS
  <2>2. Row(t, f, 0) = Row(t, g, 0)  BY DEF Row
  <2> QED  BY <1>1, <2>1, <2>2
<1>3. ASSUME NEW y \in Nat, y \in T PROVE y + 1 \in T
  <2> SUFFICES ASSUME y + 1 \in 0 .. H PROVE f[y + 1] = g[y + 1]
    OBVIOUS
  <2>1. y \in 0 .. H /\ (y + 1) - 1 = y  OBVIOUS
  <2>2. f[y] = g[y]  BY <1>3, <2>1
  <2>3. Row(t, f, y + 1) = Row(t, g, y + 1)  BY <2>1, <2>2 DEF Row
  <2> QED  BY <1>1, <2>3
<1> HIDE DEF T
<1>4. Nat \subseteq T  BY <1>2, <1>3, SetInduct
<1>5. \A y \in 0 .. H : f[y] = g[y]
  BY <1>4 DEF T
<1> QED
  <2>1. f = [y \in 0 .. H |-> f[y]] /\ g = [y \in 0 .. H |-> g[y]]
    BY DEF IsTree
  <2>2. [y \in 0 .. H |-> f[y]] = [y \in 0 .. H |-> g[y]]  BY <1>5
  <2> QED  BY <2>1, <2>2

\* What the level loop of fors_levels has built is that tree.
LEMMA TreeRead ==
  ASSUME TypeOK, NEW t \in Trees, Complete(t, H)
  PROVE  Contract!FullTree(t) = levels[t]
<1>1. IsTree(t, levels[t])
  <2>1. ASSUME NEW y \in 0 .. H PROVE levels[t][y] = Row(t, levels[t], y)
    <3>1. CASE y = 0
      <4>1. levels[t][0] = [n \in Bits(H - 0) |-> levels[t][0][n]]
        <5>1. 0 \in 0 .. H  OBVIOUS
        <5> QED  BY <5>1 DEF TypeOK, LevelTables, IsTable
      <4>2. \A n \in Bits(H - 0) : levels[t][0][n] = LeafHash(HashIndex(t, 0, n), Secret(t, n))
        BY DEF Complete, Leaves
      <4> QED  BY <3>1, <4>1, <4>2 DEF Row
    <3>2. CASE y # 0
      <4>1. y \in 1 .. H  BY <3>2
      <4> QED  BY <3>2, <4>1 DEF Complete, LevelAbove, Row
    <3> QED  BY <3>1, <3>2
  <2>2. levels[t] = [y \in 0 .. H |-> levels[t][y]]  BY DEF TypeOK, LevelTables, IsTable
  <2> QED  BY <2>1, <2>2 DEF IsTree
<1>2. IsTree(t, Contract!FullTree(t))
  BY <1>1, ContractTree, Zenon
<1> QED  BY <1>1, <1>2, TreeUnique

\* The same, read after a step.
LEMMA TreeReadNext ==
  ASSUME NEW t \in Trees
  PROVE  (TypeOK /\ Complete(t, H) => Contract!FullTree(t) = levels[t])'
  BY TreeRead, PTL

LEMMA ContractInit == Init => Contract!Init
  BY ContractWords DEF Init, Contract!Init, signing

\* Pushing the last root is the abstract Sign: every tree is finished, so what
\* the signer has collected is what one reads off the trees.
LEMMA PushIsSign ==
  ASSUME IInv, IInv', PushRoot, i = K - 1
  PROVE  Contract!Sign
<1>0. i \in Trees /\ H \in 0 .. H  BY Scalars DEF IInv
<1>a. ~(i < K - 1)  BY <1>0 DEF Trees
<1>1. phase = "path" /\ phase' = "verify" /\ md' = md  BY <1>a, Zenon DEF PushRoot
<1>2. \A t \in Trees : Finish(t)'  BY <1>1 DEF IInv, InvPast
<1>3. \A t \in Trees : Contract!FullTree(t) = levels'[t]
  BY <1>2, TreeReadNext DEF IInv, Finish
<1>4. sig' = [t \in Trees |-> [y \in 0 .. H |->
                IF y = 0 THEN Secret(t, md[t])
                         ELSE Contract!FullTree(t)[y - 1][Sibling(Shr(md[t], y - 1))]]]
  <2>1. ASSUME NEW t \in Trees, NEW y \in 0 .. H
        PROVE  sig'[t][y] = IF y = 0 THEN Secret(t, md[t])
                            ELSE Contract!FullTree(t)[y - 1][Sibling(Shr(md[t], y - 1))]
    <3>1. CASE y = 0  BY <1>1, <1>2, <3>1 DEF Finish, Signed
    <3>2. CASE y # 0
      <4>1. y \in 1 .. H  BY <3>2
      <4> QED  BY <1>1, <1>2, <1>3, <3>2, <4>1 DEF Finish, Signed
    <3> QED  BY <3>1, <3>2
  <2>2. IsTable(sig', Trees) /\ \A t \in Trees : IsTable(sig'[t], 0 .. H)
    BY DEF IInv, TypeOK, SigTables
  <2>3. sig' = [t \in Trees |-> [y \in 0 .. H |-> sig'[t][y]]]  BY <2>2 DEF IsTable
  <2> QED  BY <2>1, <2>3
<1>5. roots' = [t \in Trees |-> Contract!FullTree(t)[H][{}]]
  <2>1. \A t \in Trees : roots'[t] = Contract!FullTree(t)[H][{}]
    BY <1>2, <1>3 DEF Finish
  <2>2. roots' = [t \in Trees |-> roots'[t]]  BY DEF IInv, TypeOK, IsTable
  <2> QED  BY <2>1, <2>2
<1>6. signing /\ ~signing' /\ phase' # "done" /\ phase # "done"  BY <1>1 DEF signing
<1> QED  BY <1>1, <1>4, <1>5, <1>6, ContractWords DEF Contract!Sign

\* Keeping the verifier's last root is the abstract Verify.
LEMMA LastRootIsVerify ==
  ASSUME IInv, IInv', VerifyRoot, i = K - 1
  PROVE  Contract!Verify
<1>0. i \in Trees /\ K \in Nat  BY Scalars DEF IInv
<1>1. phase = "verify" /\ phase' = "done" /\ md' = md /\ sig' = sig /\ roots' = roots
  BY <1>0 DEF VerifyRoot
<1>2. vroots' = roots
  <2>1. \A t \in Trees : vroots'[t] = roots'[t]  BY <1>1 DEF IInv, InvDone
  <2>2. vroots' = [t \in Trees |-> vroots'[t]] /\ roots' = [t \in Trees |-> roots'[t]]
    BY DEF IInv, TypeOK, IsTable
  <2>3. [t \in Trees |-> vroots'[t]] = [t \in Trees |-> roots'[t]]  BY <2>1
  <2> QED  BY <1>1, <2>2, <2>3
<1>3. ~signing /\ ~signing'  BY <1>1 DEF signing
<1> QED  BY <1>1, <1>2, <1>3 DEF Contract!Verify

\* Every other step leaves the contract's variables alone.
LEMMA ContractStep == IInv /\ IInv' /\ [Next]_vars => [Contract!Next]_Contract!vars
<1> SUFFICES ASSUME IInv, IInv', [Next]_vars
             PROVE  Contract!Next \/ UNCHANGED Contract!vars
  OBVIOUS
<1>0. i \in Trees /\ i <= K - 1
  <2>1. i \in Trees /\ K \in Nat  BY Scalars DEF IInv
  <2> QED  BY <2>1 DEF Trees
<1>s. ASSUME signing, signing', md' = md PROVE UNCHANGED Contract!vars
  BY <1>s DEF Contract!vars, signing
<1>v. ASSUME phase = "verify", UNCHANGED <<phase, md, sig, roots>> PROVE UNCHANGED Contract!vars
  BY <1>v DEF Contract!vars, signing
<1>1. ASSUME NEW n \in Leaves, ComputeLeaf(n) PROVE UNCHANGED Contract!vars
  BY <1>1, <1>s DEF ComputeLeaf, signing
<1>2. CASE CollectLeaves  BY <1>2, <1>s DEF CollectLeaves, signing
<1>3. CASE BuildLevel  BY <1>3, <1>s DEF BuildLevel, signing
<1>4. CASE CopyPathNode  BY <1>4, <1>s DEF CopyPathNode, signing
<1>5. CASE PushRoot
  <2>1. CASE i = K - 1  BY <1>5, <2>1, PushIsSign DEF Contract!Next
  <2>2. CASE i # K - 1  BY <1>5, <2>2, <1>s DEF PushRoot, signing
  <2> QED  BY <2>1, <2>2
<1>6. CASE VerifyLeaf  BY <1>6, <1>v DEF VerifyLeaf
<1>7. CASE VerifyNode  BY <1>7, <1>v DEF VerifyNode
<1>8. CASE VerifyRoot
  <2>1. CASE i = K - 1  BY <1>8, <2>1, LastRootIsVerify DEF Contract!Next
  <2>2. CASE i # K - 1  BY <1>8, <2>2, <1>v DEF VerifyRoot
  <2> QED  BY <2>1, <2>2
<1>9. CASE UNCHANGED vars  BY <1>9 DEF vars, Contract!vars, signing
<1> QED
  BY <1>1, <1>2, <1>3, <1>4, <1>5, <1>6, <1>7, <1>8, <1>9 DEF Next, Finished

(***************************************************************************)
(* The refinement, for every K, every height up to 63, every choice of     *)
(* leaves and every hash function: in whatever order the pool finishes the *)
(* leaves, signing yields in one step the secrets, paths and roots of the  *)
(* trees MerkleContract defines, and verifying yields those roots again.   *)
(***************************************************************************)
THEOREM MerkleImplementsContract == Spec => ImplementsContract
<1>1. Spec => []IInv  BY InitInv, InvStep, PTL DEF Spec
<1> QED
  BY <1>1, ContractInit, ContractStep, PTL DEF Spec, ImplementsContract, Contract!Spec
=============================================================================

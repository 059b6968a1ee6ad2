---------------------- MODULE ExpressionEvaluatorProofs ----------------------
(***************************************************************************)
(* Theorems about ExpressionEvaluator, for every formula of any length and *)
(* all readings: an answer is the value the formula means, and an accepted *)
(* formula that has a value is answered, with the exceptions the           *)
(* properties name.                                                        *)
(*                                                                         *)
(* The evaluator and the grammar exist as functions (NEquation, MEquation).*)
(* A call may be replaced by its value before anything around it is looked *)
(* at (ReplacedAll).  By induction on the length of a text, what is        *)
(* answered is right (RightAll) and what has a value is answered           *)
(* (CompleteAll).  The text a formula becomes has the shapes of the        *)
(* formula, or a gap where a value is negative (WithShapes,                *)
(* SubstituteIsWith, SubstituteShape).                                     *)
(***************************************************************************)
EXTENDS ExpressionEvaluator, FiniteSetTheorems, FunctionTheorems, SequenceTheorems, WellFoundedInduction, TLAPS

-----------------------------------------------------------------------------
(* Sets of numbers, and texts *)

LEMMA LeastNumber ==
  ASSUME NEW S, S \subseteq Nat, S # {}
  PROVE  Min(S) \in S /\ \A x \in S : Min(S) <= x
<1>1. PICK m \in S : \A x \in S : ~(<<x, m>> \in OpToRel(<, Nat))
  BY NatLessThanWellFounded, WFMin
<1>2. \A x \in S : m <= x
  <2> SUFFICES ASSUME NEW x \in S PROVE m <= x
    OBVIOUS
  <2>1. ~(x < m)
    BY <1>1 DEF OpToRel
  <2> QED
    BY <2>1
<1> QED
  BY <1>2 DEF Min

LEMMA GreatestNumber ==
  ASSUME NEW n \in Nat, NEW S, S \subseteq 0..n, S # {}
  PROVE  Max(S) \in S /\ \A x \in S : Max(S) >= x
<1> DEFINE T == {n - x : x \in S}
<1>1. T \subseteq Nat /\ T # {}
  <2>1. ASSUME NEW x \in S PROVE n - x \in Nat
    <3>1. x \in 0..n
      OBVIOUS
    <3> QED
      BY <3>1
  <2>2. PICK x \in S : TRUE
    OBVIOUS
  <2>3. n - x \in T
    OBVIOUS
  <2> QED
    BY <2>1, <2>3
<1>2. Min(T) \in T /\ \A y \in T : Min(T) <= y
  <2> HIDE DEF T
  <2> QED
    BY <1>1, LeastNumber
<1>3. PICK m \in S : \A x \in S : n - m <= n - x
  BY <1>2
<1>4. \A x \in S : m >= x
  BY <1>3
<1> QED
  BY <1>4 DEF Max

(* A set of texts that is not empty has a shortest one. *)
LEMMA ShortestText ==
  ASSUME NEW B, B \subseteq Texts, B # {}
  PROVE  \E s \in B : \A t \in B : Len(s) <= Len(t)
<1> DEFINE S == {Len(s) : s \in B}
<1>1. S \subseteq Nat /\ S # {}
  <2>1. \A s \in B : s \in Seq(Tokens)
    BY DEF Texts
  <2>2. \A s \in B : Len(s) \in Nat
    BY <2>1, LenProperties
  <2> QED
    BY <2>2
<1>2. Min(S) \in S /\ \A x \in S : Min(S) <= x
  <2> HIDE DEF S
  <2> QED
    BY <1>1, LeastNumber
<1> QED
  BY <1>2

LEMMA TextType ==
  ASSUME NEW s \in Texts
  PROVE  /\ Len(s) \in Nat /\ DOMAIN s = 1..Len(s)
         /\ \A i \in 1..Len(s) : /\ s[i] \in Tokens
                                 /\ s[i].n \in Int
                                 /\ s[i].kind \in Words \cup {"dec", "malformed"} \cup Variables
<1>1. s \in Seq(Tokens)
  BY DEF Texts
<1>2. Len(s) \in Nat /\ DOMAIN s = 1..Len(s)
  BY <1>1, LenProperties
<1>3. ASSUME NEW i \in 1..Len(s) PROVE s[i] \in Tokens
  BY <1>1, ElementOfSeq
<1> QED
  BY <1>2, <1>3 DEF Tokens

LEMMA PartType ==
  ASSUME NEW s \in Texts, NEW a \in 1..Len(s) + 1, NEW b \in a - 1..Len(s)
  PROVE  /\ Part(s, a, b) \in Texts
         /\ Len(Part(s, a, b)) = b - a + 1
         /\ \A i \in 1..b - a + 1 : Part(s, a, b)[i] = s[a + i - 1]
BY DEF Part, Texts

LEMMA TextEqual ==
  ASSUME NEW s \in Texts, NEW t \in Texts, Len(s) = Len(t),
         \A i \in 1..Len(s) : s[i] = t[i]
  PROVE  s = t
BY SeqEqual DEF Texts

-----------------------------------------------------------------------------
(* Depth *)

OpeningIn(s, a, b) == {i \in a..b : s[i].kind \in Opening}
ClosingIn(s, a, b) == {i \in a..b : s[i].kind = ")"}

LEMMA DepthIs == ASSUME NEW s, NEW a \in Int, NEW b \in Int
  PROVE  /\ IsFiniteSet(OpeningIn(s, a, b)) /\ IsFiniteSet(ClosingIn(s, a, b))
         /\ Cardinality(OpeningIn(s, a, b)) \in Nat /\ Cardinality(ClosingIn(s, a, b)) \in Nat
         /\ Depth(s, a, b) = Cardinality(OpeningIn(s, a, b)) - Cardinality(ClosingIn(s, a, b))
         /\ Depth(s, a, b) \in Int
<1>1. IsFiniteSet(a..b)
  BY FS_Interval
<1>2. IsFiniteSet(OpeningIn(s, a, b)) /\ IsFiniteSet(ClosingIn(s, a, b))
  BY <1>1, FS_Subset DEF OpeningIn, ClosingIn
<1>3. Cardinality(OpeningIn(s, a, b)) \in Nat /\ Cardinality(ClosingIn(s, a, b)) \in Nat
  BY <1>2, FS_CardinalityType
<1>4. Depth(s, a, b) = Cardinality(OpeningIn(s, a, b)) - Cardinality(ClosingIn(s, a, b))
  BY DEF Depth, OpeningIn, ClosingIn
<1> QED
  BY <1>2, <1>3, <1>4

LEMMA DepthSplit ==
  ASSUME NEW s, NEW a \in Int, NEW b \in Int, NEW m \in a - 1..b
  PROVE  Depth(s, a, b) = Depth(s, a, m) + Depth(s, m + 1, b)
<1>1. /\ OpeningIn(s, a, b) = OpeningIn(s, a, m) \cup OpeningIn(s, m + 1, b)
      /\ OpeningIn(s, a, m) \cap OpeningIn(s, m + 1, b) = {}
      /\ ClosingIn(s, a, b) = ClosingIn(s, a, m) \cup ClosingIn(s, m + 1, b)
      /\ ClosingIn(s, a, m) \cap ClosingIn(s, m + 1, b) = {}
  BY DEF OpeningIn, ClosingIn
<1>2. Cardinality({}) = 0
  BY FS_EmptySet
<1> DEFINE O == OpeningIn(s, a, m)
           P == OpeningIn(s, m + 1, b)
           C == ClosingIn(s, a, m)
           D == ClosingIn(s, m + 1, b)
<1>3. /\ IsFiniteSet(O) /\ IsFiniteSet(P) /\ IsFiniteSet(C) /\ IsFiniteSet(D)
      /\ Cardinality(O) \in Nat /\ Cardinality(P) \in Nat
      /\ Cardinality(C) \in Nat /\ Cardinality(D) \in Nat
      /\ Depth(s, a, m) = Cardinality(O) - Cardinality(C)
      /\ Depth(s, m + 1, b) = Cardinality(P) - Cardinality(D)
      /\ Depth(s, a, b) = Cardinality(O \cup P) - Cardinality(C \cup D)
  <2>1. OpeningIn(s, a, b) = O \cup P /\ ClosingIn(s, a, b) = C \cup D
    BY <1>1
  <2>2. Depth(s, a, b) = Cardinality(OpeningIn(s, a, b)) - Cardinality(ClosingIn(s, a, b))
    BY DepthIs
  <2>3. m \in Int /\ m + 1 \in Int
    OBVIOUS
  <2>4. /\ IsFiniteSet(O) /\ IsFiniteSet(C) /\ Cardinality(O) \in Nat /\ Cardinality(C) \in Nat
        /\ Depth(s, a, m) = Cardinality(O) - Cardinality(C)
    BY <2>3, DepthIs
  <2>5. /\ IsFiniteSet(P) /\ IsFiniteSet(D) /\ Cardinality(P) \in Nat /\ Cardinality(D) \in Nat
        /\ Depth(s, m + 1, b) = Cardinality(P) - Cardinality(D)
    BY <2>3, DepthIs
  <2> HIDE DEF O, P, C, D
  <2> QED
    BY <2>1, <2>2, <2>4, <2>5
<1> HIDE DEF O, P, C, D
<1>4. /\ Cardinality(O \cup P) = Cardinality(O) + Cardinality(P) - Cardinality(O \cap P)
      /\ Cardinality(C \cup D) = Cardinality(C) + Cardinality(D) - Cardinality(C \cap D)
  BY <1>3, FS_Union
<1>5. O \cap P = {} /\ C \cap D = {}
  BY <1>1 DEF O, P, C, D
<1>6. Cardinality(O \cap P) = 0 /\ Cardinality(C \cap D) = 0
  BY <1>2, <1>5
<1>7. /\ Cardinality(O \cup P) = Cardinality(O) + Cardinality(P)
      /\ Cardinality(C \cup D) = Cardinality(C) + Cardinality(D)
  BY <1>3, <1>4, <1>6
<1> QED
  BY <1>3, <1>7

LEMMA DepthNone ==
  ASSUME NEW s, NEW a \in Int, NEW b \in Int, b < a
  PROVE  Depth(s, a, b) = 0
<1>1. OpeningIn(s, a, b) = {} /\ ClosingIn(s, a, b) = {}
  BY DEF OpeningIn, ClosingIn
<1>2. Depth(s, a, b) = Cardinality({}) - Cardinality({})
  BY <1>1, DepthIs
<1> QED
  BY <1>2, FS_EmptySet

LEMMA DepthOne ==
  ASSUME NEW s, NEW a \in Int
  PROVE  Depth(s, a, a) = IF s[a].kind \in Opening THEN 1 ELSE IF s[a].kind = ")" THEN -1 ELSE 0
<1>1. /\ OpeningIn(s, a, a) = IF s[a].kind \in Opening THEN {a} ELSE {}
      /\ ClosingIn(s, a, a) = IF s[a].kind = ")" THEN {a} ELSE {}
  BY DEF OpeningIn, ClosingIn
<1>2. Cardinality({}) = 0 /\ Cardinality({a}) = 1
  BY FS_EmptySet, FS_Singleton
<1>3. ")" \notin Opening
  BY DEF Opening, Calls
<1>4. Depth(s, a, a) = Cardinality(OpeningIn(s, a, a)) - Cardinality(ClosingIn(s, a, a))
  BY DepthIs
<1> QED
  BY <1>1, <1>2, <1>3, <1>4

SameKinds(s, t, a, b, d) == \A i \in a..b : s[i].kind = t[i + d].kind

OfKinds(s, a, b, K) == Cardinality({i \in a..b : s[i].kind \in K})

(* As many tokens of the kinds K, if the tokens have the same kinds. *)
LEMMA SameCount ==
  ASSUME NEW s, NEW t, NEW a \in Int, NEW b \in Int, NEW d \in Int, NEW K,
         SameKinds(s, t, a, b, d)
  PROVE  OfKinds(s, a, b, K) = OfKinds(t, a + d, b + d, K)
<1> DEFINE A == {i \in a..b : s[i].kind \in K}
           B == {i \in a + d..b + d : t[i].kind \in K}
           f == [i \in A |-> i + d]
<1>0. \A i \in a..b : s[i].kind = t[i + d].kind
  BY DEF SameKinds
<1>1. IsFiniteSet(A)
  <2>1. IsFiniteSet(a..b) /\ A \subseteq a..b
    BY FS_Interval
  <2> HIDE DEF A
  <2> QED
    BY <2>1, FS_Subset
<1>2. \A i \in A : i \in a..b /\ i + d \in B
  BY <1>0
<1>3. \A j \in B : j \in a + d..b + d /\ j - d \in A
  <2> SUFFICES ASSUME NEW j \in B PROVE j \in a + d..b + d /\ j - d \in A
    OBVIOUS
  <2>1. j \in a + d..b + d /\ t[j].kind \in K
    OBVIOUS
  <2>2. j - d \in a..b /\ (j - d) + d = j
    BY <2>1
  <2>3. s[j - d].kind = t[(j - d) + d].kind
    BY <1>0, <2>2
  <2> QED
    BY <2>1, <2>2, <2>3
<1>4. f \in [A -> B]
  BY <1>2
<1>5. \A i, j \in A : f[i] = f[j] => i = j
  BY <1>2
<1>6. \A j \in B : f[j - d] = j
  BY <1>3
<1> HIDE DEF A, B, f
<1>7. f \in Bijection(A, B)
  BY <1>3, <1>4, <1>5, <1>6 DEF Bijection, Injection, Surjection, IsInjective
<1>8. ExistsBijection(A, B)
  BY <1>7 DEF ExistsBijection
<1>9. Cardinality(A) = Cardinality(B)
  BY <1>1, <1>8, FS_Bijection
<1> QED
  BY <1>9 DEF A, B, OfKinds

(* The depth depends on what kinds the tokens are only. *)
LEMMA DepthShift ==
  ASSUME NEW s, NEW t, NEW a \in Int, NEW b \in Int, NEW d \in Int,
         SameKinds(s, t, a, b, d)
  PROVE  Depth(s, a, b) = Depth(t, a + d, b + d)
<1>1. OfKinds(s, a, b, Opening) = OfKinds(t, a + d, b + d, Opening)
  BY SameCount
<1>2. OfKinds(s, a, b, {")"}) = OfKinds(t, a + d, b + d, {")"})
  BY SameCount
<1>3. /\ {i \in a..b : s[i].kind \in {")"}} = {i \in a..b : s[i].kind = ")"}
      /\ {i \in a + d..b + d : t[i].kind \in {")"}} = {i \in a + d..b + d : t[i].kind = ")"}
  OBVIOUS
<1> QED
  BY <1>1, <1>2, <1>3 DEF Depth, OfKinds

(* Induction on the length of a text, and on a number. *)
LEMMA TextInduction ==
  ASSUME NEW G,
         ASSUME NEW s \in Texts, \A t \in Texts : Len(t) < Len(s) => t \in G
         PROVE  s \in G
  PROVE  \A s \in Texts : s \in G
<1> DEFINE B == Texts \ G
<1> SUFFICES ASSUME B # {} PROVE FALSE
  OBVIOUS
<1>1. PICK s \in B : \A t \in B : Len(s) <= Len(t)
  BY ShortestText
<1>2. \A t \in Texts : Len(t) \in Nat
  BY TextType
<1>3. \A t \in Texts : Len(t) < Len(s) => t \in G
  BY <1>1, <1>2
<1> QED
  BY <1>1, <1>3

LEMMA NumberInduction ==
  ASSUME NEW G, 0 \in G, \A n \in Nat : n \in G => n + 1 \in G
  PROVE  \A n \in Nat : n \in G
<1> DEFINE B == Nat \ G
<1> SUFFICES ASSUME B # {} PROVE FALSE
  OBVIOUS
<1>1. Min(B) \in B /\ \A x \in B : Min(B) <= x
  BY LeastNumber
<1> DEFINE m == Min(B)
<1>2. m \in Nat /\ m # 0
  BY <1>1
<1>3. m - 1 \in Nat /\ (m - 1) + 1 = m
  BY <1>2
<1>4. m - 1 \in G
  BY <1>1, <1>2, <1>3
<1> QED
  BY <1>1, <1>3, <1>4

-----------------------------------------------------------------------------
(* Level: the parentheses open after the first k tokens *)

Level(s, k) == Depth(s, 1, k)

Weight(t) == IF t.kind \in Opening THEN 1 ELSE IF t.kind = ")" THEN -1 ELSE 0

LEMMA WeightType == ASSUME NEW t PROVE Weight(t) \in {-1, 0, 1}
BY DEF Weight

LEMMA LevelZero == ASSUME NEW s PROVE Level(s, 0) = 0
BY DepthNone DEF Level

LEMMA LevelType == ASSUME NEW s, NEW k \in Int PROVE Level(s, k) \in Int
BY DepthIs DEF Level

LEMMA DepthIsLevel ==
  ASSUME NEW s, NEW a \in Int, NEW b \in Int, 1 <= a, a - 1 <= b
  PROVE  Depth(s, a, b) = Level(s, b) - Level(s, a - 1)
<1>1. a - 1 \in 1 - 1..b /\ (a - 1) + 1 = a /\ a - 1 \in Int
  OBVIOUS
<1>2. Depth(s, 1, b) = Depth(s, 1, a - 1) + Depth(s, (a - 1) + 1, b)
  BY <1>1, DepthSplit
<1>3. Depth(s, 1, b) \in Int /\ Depth(s, 1, a - 1) \in Int /\ Depth(s, a, b) \in Int
  BY <1>1, DepthIs
<1> QED
  BY <1>1, <1>2, <1>3 DEF Level

LEMMA LevelStep ==
  ASSUME NEW s, NEW k \in Int, 1 <= k
  PROVE  Level(s, k) = Level(s, k - 1) + Weight(s[k])
<1>1. Depth(s, k, k) = Level(s, k) - Level(s, k - 1)
  BY DepthIsLevel
<1>2. Depth(s, k, k) = Weight(s[k])
  BY DepthOne DEF Weight
<1>3. Level(s, k) \in Int /\ Level(s, k - 1) \in Int
  BY LevelType
<1> QED
  BY <1>1, <1>2, <1>3

LEMMA LevelOfPart ==
  ASSUME NEW s \in Texts, NEW a \in 1..Len(s) + 1, NEW b \in a - 1..Len(s), NEW k \in 0..b - a + 1
  PROVE  Level(Part(s, a, b), k) = Level(s, a + k - 1) - Level(s, a - 1)
<1> DEFINE p == Part(s, a, b)
<1>0. Len(s) \in Nat /\ a \in Int /\ b \in Int /\ k \in Int /\ a - 1 \in Int /\ 1 + (a - 1) = a /\ k + (a - 1) = a + k - 1
  BY TextType
<1>1. SameKinds(p, s, 1, k, a - 1)
  <2>1. \A i \in 1..b - a + 1 : p[i] = s[a + i - 1]
    BY PartType
  <2>2. \A i \in 1..k : i \in 1..b - a + 1 /\ a + i - 1 = i + (a - 1)
    BY <1>0
  <2> QED
    BY <2>1, <2>2 DEF SameKinds
<1>2. Depth(p, 1, k) = Depth(s, 1 + (a - 1), k + (a - 1))
  <2> HIDE DEF p
  <2> QED
    BY <1>0, <1>1, DepthShift
<1>3. Depth(s, a, a + k - 1) = Level(s, a + k - 1) - Level(s, a - 1)
  BY <1>0, DepthIsLevel
<1> QED
  BY <1>0, <1>2, <1>3 DEF Level

LEMMA LevelSame ==
  ASSUME NEW s, NEW t, NEW k \in Int, \A i \in 1..k : s[i].kind = t[i].kind
  PROVE  Level(s, k) = Level(t, k)
<1>1. SameKinds(s, t, 1, k, 0)
  BY DEF SameKinds
<1>2. Depth(s, 1, k) = Depth(t, 1 + 0, k + 0)
  BY <1>1, DepthShift
<1> QED
  BY <1>2 DEF Level

(* The tokens strictly between a and b, and those before and after m. *)
LEMMA Between ==
  ASSUME NEW s \in Texts, NEW a \in 0..Len(s), NEW b \in a + 1..Len(s) + 1
  PROVE  /\ Part(s, a + 1, b - 1) \in Texts
         /\ Len(Part(s, a + 1, b - 1)) = b - a - 1
         /\ \A i \in 1..b - a - 1 : Part(s, a + 1, b - 1)[i] = s[a + i]
         /\ \A k \in 0..b - a - 1 : Level(Part(s, a + 1, b - 1), k) = Level(s, a + k) - Level(s, a)
<1> DEFINE c == a + 1
           d == b - 1
<1>1. /\ Len(s) \in Nat /\ c \in 1..Len(s) + 1 /\ d \in c - 1..Len(s)
      /\ d - c + 1 = b - a - 1 /\ c - 1 = a
      /\ \A i \in Int : c + i - 1 = a + i
  <2>1. Len(s) \in Nat
    BY TextType
  <2> QED
    BY <2>1
<1> HIDE DEF c, d
<1>2. /\ Part(s, c, d) \in Texts
      /\ Len(Part(s, c, d)) = d - c + 1
      /\ \A i \in 1..d - c + 1 : Part(s, c, d)[i] = s[c + i - 1]
  BY <1>1, PartType
<1>3. \A k \in 0..d - c + 1 : Level(Part(s, c, d), k) = Level(s, c + k - 1) - Level(s, c - 1)
  BY <1>1, LevelOfPart
<1>4. /\ Part(s, c, d) \in Texts
      /\ Len(Part(s, c, d)) = b - a - 1
      /\ \A i \in 1..b - a - 1 : Part(s, c, d)[i] = s[a + i]
      /\ \A k \in 0..b - a - 1 : Level(Part(s, c, d), k) = Level(s, a + k) - Level(s, a)
  BY <1>1, <1>2, <1>3
<1> QED
  BY <1>4 DEF c, d

LEMMA Before ==
  ASSUME NEW s \in Texts, NEW m \in 1..Len(s) + 1
  PROVE  /\ Part(s, 1, m - 1) \in Texts
         /\ Len(Part(s, 1, m - 1)) = m - 1
         /\ \A i \in 1..m - 1 : Part(s, 1, m - 1)[i] = s[i]
         /\ \A k \in 0..m - 1 : Level(Part(s, 1, m - 1), k) = Level(s, k)
<1>0. Len(s) \in Nat /\ 0 \in 0..Len(s) /\ m \in 0 + 1..Len(s) + 1 /\ 0 + 1 = 1 /\ m - 0 - 1 = m - 1
  BY TextType
<1>1. /\ Part(s, 0 + 1, m - 1) \in Texts
      /\ Len(Part(s, 0 + 1, m - 1)) = m - 0 - 1
      /\ \A i \in 1..m - 0 - 1 : Part(s, 0 + 1, m - 1)[i] = s[0 + i]
      /\ \A k \in 0..m - 0 - 1 : Level(Part(s, 0 + 1, m - 1), k) = Level(s, 0 + k) - Level(s, 0)
  BY <1>0, Between
<1>2. \A k \in 0..m - 1 : Level(s, k) \in Int /\ Level(s, k) - Level(s, 0) = Level(s, k)
  BY LevelType, LevelZero
<1> QED
  BY <1>0, <1>1, <1>2

LEMMA After ==
  ASSUME NEW s \in Texts, NEW m \in 0..Len(s)
  PROVE  /\ Part(s, m + 1, Len(s)) \in Texts
         /\ Len(Part(s, m + 1, Len(s))) = Len(s) - m
         /\ \A i \in 1..Len(s) - m : Part(s, m + 1, Len(s))[i] = s[m + i]
         /\ \A k \in 0..Len(s) - m : Level(Part(s, m + 1, Len(s)), k) = Level(s, m + k) - Level(s, m)
<1>0. /\ Len(s) \in Nat /\ Len(s) + 1 \in m + 1..Len(s) + 1 /\ (Len(s) + 1) - 1 = Len(s)
      /\ (Len(s) + 1) - m - 1 = Len(s) - m
  BY TextType
<1>1. /\ Part(s, m + 1, (Len(s) + 1) - 1) \in Texts
      /\ Len(Part(s, m + 1, (Len(s) + 1) - 1)) = (Len(s) + 1) - m - 1
      /\ \A i \in 1..(Len(s) + 1) - m - 1 : Part(s, m + 1, (Len(s) + 1) - 1)[i] = s[m + i]
      /\ \A k \in 0..(Len(s) + 1) - m - 1 :
             Level(Part(s, m + 1, (Len(s) + 1) - 1), k) = Level(s, m + k) - Level(s, m)
  BY <1>0, Between
<1> QED
  BY <1>0, <1>1

LEMMA Inside ==
  ASSUME NEW s \in Texts, Len(s) >= 2
  PROVE  /\ Part(s, 2, Len(s) - 1) \in Texts
         /\ Len(Part(s, 2, Len(s) - 1)) = Len(s) - 2
         /\ \A i \in 1..Len(s) - 2 : Part(s, 2, Len(s) - 1)[i] = s[i + 1]
         /\ \A k \in 0..Len(s) - 2 :
               Level(Part(s, 2, Len(s) - 1), k) = Level(s, k + 1) - Weight(s[1])
<1>0. /\ Len(s) \in Nat /\ 1 \in 0..Len(s) /\ Len(s) \in 1 + 1..Len(s) + 1 /\ 1 + 1 = 2
      /\ Len(s) - 1 - 1 = Len(s) - 2 /\ \A k \in Int : 1 + k = k + 1
  BY TextType
<1>1. /\ Part(s, 1 + 1, Len(s) - 1) \in Texts
      /\ Len(Part(s, 1 + 1, Len(s) - 1)) = Len(s) - 1 - 1
      /\ \A i \in 1..Len(s) - 1 - 1 : Part(s, 1 + 1, Len(s) - 1)[i] = s[1 + i]
      /\ \A k \in 0..Len(s) - 1 - 1 :
             Level(Part(s, 1 + 1, Len(s) - 1), k) = Level(s, 1 + k) - Level(s, 1)
  BY <1>0, Between
<1>2. Level(s, 1) = Level(s, 1 - 1) + Weight(s[1]) /\ 1 - 1 = 0
  BY LevelStep
<1>3. Level(s, 1) = Weight(s[1])
  BY <1>2, LevelZero, WeightType
<1>4. Len(s) - 1 - 1 = Len(s) - 2
  BY <1>0
<1>5. ASSUME NEW i \in 1..Len(s) - 2 PROVE Part(s, 2, Len(s) - 1)[i] = s[i + 1]
  BY <1>1, <1>4
<1>6. ASSUME NEW k \in 0..Len(s) - 2
      PROVE  Level(Part(s, 2, Len(s) - 1), k) = Level(s, k + 1) - Weight(s[1])
  BY <1>1, <1>3, <1>4
<1> QED
  BY <1>1, <1>4, <1>5, <1>6

WellNested(s) == Level(s, Len(s)) = 0 /\ \A k \in 0..Len(s) : Level(s, k) >= 0

LEMMA OperatorWeight ==
  ASSUME NEW t, t.kind \in Operators PROVE Weight(t) = 0 /\ t.kind \notin Opening /\ t.kind # ")"
BY DEF Operators, Opening, Calls, Weight

LEMMA OperatorStep ==
  ASSUME NEW s, NEW k \in Int, 1 <= k, s[k].kind \in Operators
  PROVE  Level(s, k) = Level(s, k - 1)
<1>1. Weight(s[k]) = 0
  BY OperatorWeight
<1>2. Level(s, k) = Level(s, k - 1) + 0
  BY <1>1, LevelStep
<1>3. Level(s, k - 1) \in Int
  BY LevelType
<1> QED
  BY <1>2, <1>3

LEMMA OpeningStep ==
  ASSUME NEW s, NEW k \in Int, 1 <= k, s[k].kind \in Opening
  PROVE  Level(s, k) = Level(s, k - 1) + 1 /\ Level(s, k) \in Int /\ Level(s, k - 1) \in Int
<1>1. Weight(s[k]) = 1
  BY DEF Weight
<1>2. Level(s, k) = Level(s, k - 1) + Weight(s[k])
  BY LevelStep
<1>3. k - 1 \in Int
  OBVIOUS
<1>4. Level(s, k) \in Int /\ Level(s, k - 1) \in Int
  BY <1>3, LevelType
<1> QED
  BY <1>1, <1>2, <1>4

LEMMA ClosingStep ==
  ASSUME NEW s, NEW k \in Int, 1 <= k, s[k].kind = ")"
  PROVE  Level(s, k) = Level(s, k - 1) - 1 /\ Level(s, k) \in Int /\ Level(s, k - 1) \in Int
<1>1. Weight(s[k]) = -1
  BY DEF Weight, Opening, Calls
<1>2. Level(s, k) = Level(s, k - 1) + Weight(s[k])
  BY LevelStep
<1>3. k - 1 \in Int
  OBVIOUS
<1>4. Level(s, k) \in Int /\ Level(s, k - 1) \in Int
  BY <1>3, LevelType
<1> QED
  BY <1>1, <1>2, <1>4

(* The parts on both sides of an operator outside parentheses. *)
LEMMA WellNestedParts ==
  ASSUME NEW s \in Texts, NEW m \in 1..Len(s), s[m].kind \in Operators
  PROVE  (WellNested(s) /\ Level(s, m) = 0)
           <=> (WellNested(Part(s, 1, m - 1)) /\ WellNested(Part(s, m + 1, Len(s))))
<1> DEFINE p == Part(s, 1, m - 1)
           q == Part(s, m + 1, Len(s))
<1>0. Len(s) \in Nat /\ m \in Nat /\ \A k \in Int : Level(s, k) \in Int
  BY TextType, LevelType
<1>1. Len(p) = m - 1 /\ \A k \in 0..m - 1 : Level(p, k) = Level(s, k)
  <2>1. m \in 1..Len(s) + 1
    BY <1>0
  <2> QED
    BY <2>1, Before
<1>2. Level(s, m) = Level(s, m - 1) /\ Level(s, 0) = 0
  BY <1>0, OperatorStep, LevelZero, SMTT(30)
<1>3. \A k \in 0..m - 1 : Level(p, k) = Level(s, k)
  BY <1>1
<1>4. Len(q) = Len(s) - m /\ \A k \in 0..Len(s) - m : Level(q, k) = Level(s, m + k) - Level(s, m)
  BY <1>0, After
<1> HIDE DEF p, q
<1>5. ASSUME WellNested(s), Level(s, m) = 0 PROVE WellNested(p) /\ WellNested(q)
  BY <1>0, <1>1, <1>2, <1>3, <1>4, <1>5, SMTT(30) DEF WellNested
<1>6. ASSUME WellNested(p), WellNested(q) PROVE WellNested(s) /\ Level(s, m) = 0
  <2>1. Level(s, m - 1) = 0 /\ Level(s, m) = 0
    BY <1>0, <1>1, <1>2, <1>3, <1>6 DEF WellNested
  <2>2. Level(q, Len(s) - m) = Level(s, m + (Len(s) - m)) - Level(s, m) /\ m + (Len(s) - m) = Len(s)
    BY <1>0, <1>4
  <2>3. Level(s, Len(s)) = 0
    BY <1>0, <1>4, <2>1, <2>2, <1>6 DEF WellNested
  <2>4. ASSUME NEW k \in 0..Len(s) PROVE Level(s, k) >= 0
    <3>1. CASE k <= m - 1
      BY <1>0, <1>1, <1>3, <1>6, <3>1 DEF WellNested
    <3>2. CASE k >= m
      <4>1. k - m \in 0..Len(s) - m /\ m + (k - m) = k
        BY <1>0, <3>2
      <4>2. Level(q, k - m) = Level(s, k) - Level(s, m) /\ Level(q, k - m) >= 0
        BY <1>1, <1>4, <1>6, <4>1 DEF WellNested
      <4> QED
        BY <1>0, <2>1, <4>2
    <3> QED
      BY <1>0, <3>1, <3>2
  <2> QED
    BY <2>1, <2>3, <2>4 DEF WellNested
<1> QED
  BY <1>5, <1>6 DEF p, q


-----------------------------------------------------------------------------
(* Results, and what one step of an evaluation looks at *)

Result == [ok : BOOLEAN, n : Int]

LEMMA RootType == ASSUME NEW n \in Nat PROVE Root(n) \in Int
<1> DEFINE S == {k \in 0..n : k * k <= n}
<1>1. 0 \in S /\ S \subseteq 0..n
  OBVIOUS
<1> HIDE DEF S
<1>2. Max(S) \in S
  BY <1>1, GreatestNumber
<1> QED
  BY <1>1, <1>2 DEF Root, S

LEMMA FailType == Fail \in Result /\ ~Fail.ok
BY DEF Fail, Result

LEMMA OkType == ASSUME NEW n \in Int PROVE Ok(n) \in Result /\ Ok(n).ok /\ Ok(n).n = n
BY DEF Ok, Result

LEMMA CallType ==
  ASSUME NEW f, NEW arg \in Result
  PROVE  Call(f, arg) \in Result /\ (~arg.ok => ~Call(f, arg).ok)
<1>1. arg.n \in Int /\ arg.ok \in BOOLEAN
  BY DEF Result
<1>2. Magnitude(arg.n) \in Int
  BY <1>1 DEF Magnitude
<1>3. CASE ~arg.ok \/ (f = "sqrt(" /\ arg.n < 0)
  BY <1>3, FailType DEF Call
<1>4. CASE ~(~arg.ok \/ (f = "sqrt(" /\ arg.n < 0))
  <2>1. f = "sqrt(" => Root(arg.n) \in Int
    <3>1. f = "sqrt(" => arg.n \in Nat
      BY <1>1, <1>4
    <3> QED
      BY <3>1, RootType
  <2>2. (IF f = "sqrt(" THEN Root(arg.n) ELSE Magnitude(arg.n)) \in Int
    BY <1>2, <2>1
  <2> QED
    BY <1>4, <2>2, OkType DEF Call
<1> QED
  BY <1>3, <1>4

LEMMA ApplyType ==
  ASSUME NEW op \in Operators, NEW l \in Result, NEW r \in Result
  PROVE  Apply(op, l, r) \in Result /\ (~l.ok \/ ~r.ok => ~Apply(op, l, r).ok)
<1>1. l.n \in Int /\ r.n \in Int
  BY DEF Result
<1>2. CASE ~l.ok \/ ~r.ok \/ (op = "/" /\ r.n = 0)
  BY <1>2, FailType DEF Apply
<1>3. CASE ~(~l.ok \/ ~r.ok \/ (op = "/" /\ r.n = 0))
  <2>1. op = "/" => Quotient(l.n, r.n) \in Int
    BY <1>1, <1>3 DEF Quotient
  <2>2. Power(l.n, r.n) \in Int
    BY <1>1 DEF Power
  <2>3. Apply(op, l, r) = Ok(CASE op = "+" -> l.n + r.n
                               [] op = "-" -> l.n - r.n
                               [] op = "*" -> l.n * r.n
                               [] op = "/" -> Quotient(l.n, r.n)
                               [] op = "^" -> Power(l.n, r.n))
    BY <1>3 DEF Apply
  <2>4. /\ op = "+" => Apply(op, l, r) = Ok(l.n + r.n)
        /\ op = "-" => Apply(op, l, r) = Ok(l.n - r.n)
        /\ op = "*" => Apply(op, l, r) = Ok(l.n * r.n)
        /\ op = "/" => Apply(op, l, r) = Ok(Quotient(l.n, r.n))
        /\ op = "^" => Apply(op, l, r) = Ok(Power(l.n, r.n))
    BY <2>3
  <2>5. op \in {"+", "-", "*", "/", "^"}
    BY DEF Operators
  <2>6. \E n \in Int : Apply(op, l, r) = Ok(n)
    <3>1. l.n + r.n \in Int /\ l.n - r.n \in Int /\ l.n * r.n \in Int
      BY <1>1
    <3> QED
      BY <2>1, <2>2, <2>4, <2>5, <3>1
  <2> QED
    BY <1>3, <2>6, OkType
<1> QED
  BY <1>2, <1>3

LEMMA FindType ==
  ASSUME NEW s \in Texts, NEW ops
  PROVE  LET i == FindOperator(s, ops) IN
         /\ i # 0 => /\ i \in 1..Len(s) /\ s[i].kind \in ops /\ Depth(s, i + 1, Len(s)) = 0
         /\ \A k \in 1..Len(s) : s[k].kind \in ops /\ Depth(s, k + 1, Len(s)) = 0 => k <= i /\ i # 0
<1> DEFINE F == {0} \cup {k \in DOMAIN s : s[k].kind \in ops /\ Depth(s, k + 1, Len(s)) = 0}
<1>1. Len(s) \in Nat /\ DOMAIN s = 1..Len(s)
  BY TextType
<1>2. F \subseteq 0..Len(s) /\ F # {}
  BY <1>1
<1>3. FindOperator(s, ops) = Max(F)
  BY DEF FindOperator
<1>4. Max(F) \in F /\ \A x \in F : Max(F) >= x
  <2> HIDE DEF F
  <2> QED
    BY <1>1, <1>2, GreatestNumber
<1> QED
  BY <1>1, <1>3, <1>4

LEMMA OutsideType ==
  ASSUME NEW s \in Texts, NEW ops, Outside(s, ops) # {}
  PROVE  /\ Outside(s, ops) \subseteq 1..Len(s)
         /\ Max(Outside(s, ops)) \in Outside(s, ops)
         /\ \A k \in Outside(s, ops) : k <= Max(Outside(s, ops))
         /\ Min(Outside(s, ops)) \in Outside(s, ops)
         /\ \A k \in Outside(s, ops) : k >= Min(Outside(s, ops))
         /\ \A k \in Outside(s, ops) : s[k].kind \in ops /\ Level(s, k) = 0
<1>1. Len(s) \in Nat /\ DOMAIN s = 1..Len(s)
  BY TextType
<1>2. Outside(s, ops) \subseteq 1..Len(s)
  BY <1>1 DEF Outside
<1>3. \A k \in Outside(s, ops) : s[k].kind \in ops /\ Level(s, k) = 0
  BY DEF Outside, Level
<1> DEFINE O == Outside(s, ops)
<1> HIDE DEF O
<1>4. O \subseteq 0..Len(s) /\ O \subseteq Nat /\ O # {}
  BY <1>1, <1>2 DEF O
<1>5. Max(O) \in O /\ \A k \in O : Max(O) >= k
  BY <1>1, <1>4, GreatestNumber
<1>6. Min(O) \in O /\ \A k \in O : Min(O) <= k
  BY <1>4, LeastNumber
<1>7. \A k \in O : k <= Max(O) /\ k >= Min(O)
  BY <1>4, <1>5, <1>6
<1> QED
  BY <1>2, <1>3, <1>5, <1>6, <1>7 DEF O

LEMMA MatchType ==
  ASSUME NEW s \in Texts, NEW f, Matches(s, f) # {}
  PROVE  LET i == Min(Matches(s, f)) j == FirstClose(s, i) IN
         /\ i \in 1..Len(s) /\ s[i].kind = f /\ j \in i + 2..Len(s)
         /\ s[j].kind = ")" /\ \A k \in i..j - 1 : s[k].kind # ")"
<1> DEFINE i == Min(Matches(s, f))
           j == FirstClose(s, i)
           S == {Len(s) + 1} \cup {k \in i..Len(s) : s[k].kind = ")"}
<1>1. Len(s) \in Nat /\ DOMAIN s = 1..Len(s)
  BY TextType
<1>2. Matches(s, f) \subseteq Nat
  BY <1>1 DEF Matches
<1>3. i \in Matches(s, f)
  BY <1>2, LeastNumber
<1>4. i \in 1..Len(s) /\ s[i].kind = f /\ j \in i + 2..Len(s)
  BY <1>1, <1>3 DEF Matches
<1>5. j = Min(S)
  BY DEF FirstClose
<1>6. S \subseteq Nat /\ S # {}
  BY <1>1, <1>4
<1>7. Min(S) \in S /\ \A x \in S : Min(S) <= x
  <2> HIDE DEF S
  <2> QED
    BY <1>6, LeastNumber
<1>8. s[j].kind = ")"
  BY <1>1, <1>4, <1>5, <1>7
<1>9. ASSUME NEW k \in i..j - 1 PROVE s[k].kind # ")"
  BY <1>1, <1>4, <1>5, <1>7
<1> QED
  BY <1>4, <1>8, <1>9

LEMMA InPlaceType ==
  ASSUME NEW left \in Texts, NEW right \in Texts, NEW n \in Int
  PROVE  /\ InPlace(left, n, right) \in Texts
         /\ Len(InPlace(left, n, right)) <= Len(left) + 1 + Len(right)
<1> DEFINE joined == left # <<>> /\ Last(left).kind = "num"
           broken == \/ left # <<>> /\ Last(left).kind = "dec"
                     \/ right # <<>> /\ Head(right).kind = "dec"
           number == IF joined THEN Shifted(Last(left).n, n) ELSE n
           rest   == IF right # <<>> /\ Head(right).kind = "num" THEN Tail(right) ELSE right
           first  == IF joined THEN Front(left) ELSE left
           middle == IF broken THEN Token("malformed") ELSE Decimal(number)
<1>1. InPlace(left, n, right) = first \o <<middle>> \o rest
  BY DEF InPlace
<1>2. left \in Seq(Tokens) /\ right \in Seq(Tokens) /\ Len(left) \in Nat /\ Len(right) \in Nat
  BY TextType DEF Texts
<1>3. first \in Seq(Tokens) /\ Len(first) <= Len(left)
  <2>1. left # <<>> => Len(left) >= 1
    BY <1>2
  <2>2. left # <<>> => /\ SubSeq(left, 1, Len(left) - 1) \in Seq(Tokens)
                       /\ Len(SubSeq(left, 1, Len(left) - 1)) = Len(left) - 1
    <3>1. left # <<>> => Len(left) \in 1..Len(left) + 1
      BY <1>2, <2>1
    <3>2. left # <<>> => /\ Part(left, 1, Len(left) - 1) \in Texts
                         /\ Len(Part(left, 1, Len(left) - 1)) = Len(left) - 1
      BY <3>1, Before
    <3> QED
      BY <3>2 DEF Part, Texts
  <2> QED
    BY <1>2, <2>2 DEF Front
<1>4. rest \in Seq(Tokens) /\ Len(rest) <= Len(right)
  BY <1>2, HeadTailProperties
<1>5. middle \in Tokens
  <2>1. joined => Last(left).n \in Int
    <3>1. left # <<>> => left[Len(left)].n \in Int
      <4>1. left # <<>> => Len(left) \in 1..Len(left)
        BY <1>2
      <4> QED
        BY <4>1, TextType
    <3> QED
      BY <3>1 DEF Last
  <2>2. number \in Int
    BY <2>1 DEF Shifted
  <2> HIDE DEF number, broken
  <2> QED
    BY <2>2 DEF Token, Decimal, Tokens
<1> HIDE DEF first, middle, rest
<1>6. <<middle>> \in Seq(Tokens) /\ Len(<<middle>>) = 1
  BY <1>5
<1>7. first \o <<middle>> \in Seq(Tokens) /\ Len(first \o <<middle>>) = Len(first) + 1
  BY <1>3, <1>6, ConcatProperties
<1>8. /\ (first \o <<middle>>) \o rest \in Seq(Tokens)
      /\ Len((first \o <<middle>>) \o rest) = Len(first) + 1 + Len(rest)
  BY <1>4, <1>7, ConcatProperties
<1>9. Len(first) \in Nat /\ Len(rest) \in Nat
  BY <1>3, <1>4, LenProperties
<1> QED
  BY <1>1, <1>2, <1>3, <1>4, <1>8, <1>9 DEF Texts

LEMMA ReplaceType ==
  ASSUME NEW s \in Texts, NEW f, Matches(s, f) # {}, NEW n \in Int
  PROVE  /\ Replace(s, f, n) \in Texts /\ Len(Replace(s, f, n)) < Len(s)
         /\ Argument(s, f) \in Texts /\ Len(Argument(s, f)) < Len(s)
<1> DEFINE i == Min(Matches(s, f))
           j == FirstClose(s, i)
<1>1. i \in 1..Len(s) /\ j \in i + 2..Len(s)
  BY MatchType
<1>2. /\ Replace(s, f, n) = InPlace(Part(s, 1, i - 1), n, Part(s, j + 1, Len(s)))
      /\ Argument(s, f) = Part(s, i + 1, j - 1)
  BY DEF Replace, Argument
<1> HIDE DEF i, j
<1>3. Len(s) \in Nat /\ i \in 0..Len(s) /\ i \in 1..Len(s) + 1 /\ j \in i + 1..Len(s) + 1 /\ j \in 0..Len(s)
  BY <1>1, TextType
<1>4. Part(s, 1, i - 1) \in Texts /\ Len(Part(s, 1, i - 1)) = i - 1
  BY <1>3, Before
<1>5. Part(s, j + 1, Len(s)) \in Texts /\ Len(Part(s, j + 1, Len(s))) = Len(s) - j
  BY <1>3, After
<1>6. Part(s, i + 1, j - 1) \in Texts /\ Len(Part(s, i + 1, j - 1)) = j - i - 1
  BY <1>3, Between
<1>7. /\ Replace(s, f, n) \in Texts
      /\ Len(Replace(s, f, n)) <= Len(Part(s, 1, i - 1)) + 1 + Len(Part(s, j + 1, Len(s)))
  BY <1>2, <1>4, <1>5, InPlaceType
<1>8. Len(Replace(s, f, n)) \in Nat
  BY <1>7, TextType
<1> QED
  BY <1>1, <1>2, <1>3, <1>4, <1>5, <1>6, <1>7, <1>8

-----------------------------------------------------------------------------
(* The two recursive functions satisfy their equations. *)

LEMMA SplitDepends ==
  ASSUME NEW g \in [Texts -> Result], NEW h, NEW s \in Texts,
         \A t \in Texts : Len(t) < Len(s) => g[t] = h[t],
         NEW i \in 1..Len(s), s[i].kind \in Operators
  PROVE  Split(g, s, i) = Split(h, s, i) /\ Split(g, s, i) \in Result
<1> DEFINE p == Part(s, 1, i - 1)
           q == Part(s, i + 1, Len(s))
<1>1. Len(s) \in Nat /\ i \in 1..Len(s) + 1 /\ i \in 0..Len(s)
  BY TextType
<1>2. p \in Texts /\ Len(p) = i - 1
  BY <1>1, Before
<1>3. q \in Texts /\ Len(q) = Len(s) - i
  BY <1>1, After
<1> HIDE DEF p, q
<1>4. g[p] = h[p] /\ g[q] = h[q] /\ g[p] \in Result /\ g[q] \in Result
  BY <1>1, <1>2, <1>3
<1>5. Apply(s[i].kind, g[p], g[q]) \in Result
  BY <1>4, ApplyType
<1> QED
  BY <1>4, <1>5 DEF Split, p, q

LEMMA EvaluateCallDepends ==
  ASSUME NEW g \in [Texts -> Result], NEW h, NEW s \in Texts,
         \A t \in Texts : Len(t) < Len(s) => g[t] = h[t], NEW f
  PROVE  EvaluateCall(g, s, f) = EvaluateCall(h, s, f) /\ EvaluateCall(g, s, f) \in Result
<1>1. CASE Matches(s, f) = {}
  BY <1>1, FailType DEF EvaluateCall
<1>2. CASE Matches(s, f) # {}
  <2>1. 0 \in Int
    OBVIOUS
  <2>2. Argument(s, f) \in Texts /\ Len(Argument(s, f)) < Len(s)
    BY <1>2, <2>1, ReplaceType
  <2>3. g[Argument(s, f)] = h[Argument(s, f)] /\ g[Argument(s, f)] \in Result
    BY <2>2
  <2> DEFINE v == Call(f, g[Argument(s, f)])
  <2>4. v \in Result /\ v.n \in Int
    BY <2>3, CallType DEF Result
  <2>5. Replace(s, f, v.n) \in Texts /\ Len(Replace(s, f, v.n)) < Len(s)
    <3> HIDE DEF v
    <3> QED
      BY <1>2, <2>4, ReplaceType
  <2>6. g[Replace(s, f, v.n)] = h[Replace(s, f, v.n)] /\ g[Replace(s, f, v.n)] \in Result
    BY <2>5
  <2>7. /\ EvaluateCall(g, s, f) = IF v.ok THEN g[Replace(s, f, v.n)] ELSE Fail
        /\ EvaluateCall(h, s, f) = IF v.ok THEN h[Replace(s, f, v.n)] ELSE Fail
    BY <1>2, <2>3 DEF EvaluateCall
  <2> QED
    BY <2>6, <2>7, FailType
<1> QED
  BY <1>1, <1>2

LEMMA Bracketed ==
  ASSUME NEW s \in Texts, s # <<>>, Head(s).kind = "(", Last(s).kind = ")"
  PROVE  Len(s) >= 2 /\ s[1].kind = "(" /\ s[Len(s)].kind = ")"
<1>1. Len(s) \in Nat /\ s[1].kind = "(" /\ s[Len(s)].kind = ")" /\ Len(s) # 0
  BY TextType DEF Last, Texts
<1>2. Len(s) # 1
  BY <1>1
<1> QED
  BY <1>1, <1>2

LEMMA EvaluateDepends ==
  ASSUME NEW g \in [Texts -> Result], NEW h, NEW s \in Texts,
         \A t \in Texts : Len(t) < Len(s) => g[t] = h[t]
  PROVE  EvaluateText(g, s) = EvaluateText(h, s) /\ EvaluateText(g, s) \in Result
<1>0. \A f \in Calls : EvaluateCall(g, s, f) = EvaluateCall(h, s, f) /\ EvaluateCall(g, s, f) \in Result
  BY EvaluateCallDepends
<1>1. CASE "sqrt(" \in Kinds(s)
  BY <1>0, <1>1 DEF EvaluateText, Calls
<1>2. CASE "sqrt(" \notin Kinds(s) /\ "abs(" \in Kinds(s)
  BY <1>0, <1>2 DEF EvaluateText, Calls
<1>3. CASE "sqrt(" \notin Kinds(s) /\ "abs(" \notin Kinds(s)
  <2>1. CASE s # <<>> /\ Head(s).kind = "(" /\ Last(s).kind = ")"
    <3>1. EvaluateText(g, s) = g[Part(s, 2, Len(s) - 1)] /\ EvaluateText(h, s) = h[Part(s, 2, Len(s) - 1)]
      BY <1>3, <2>1 DEF EvaluateText
    <3>2. Part(s, 2, Len(s) - 1) \in Texts /\ Len(Part(s, 2, Len(s) - 1)) = Len(s) - 2 /\ Len(s) \in Nat
      BY <2>1, Bracketed, Inside, TextType
    <3> QED
      BY <3>1, <3>2
  <2>2. CASE ~(s # <<>> /\ Head(s).kind = "(" /\ Last(s).kind = ")")
    <3> DEFINE a == FindOperator(s, {"+", "-"})
               b == FindOperator(s, {"*", "/"})
               c == FindOperator(s, {"^"})
               Rest == IF Len(s) = 1 /\ IsNumber(s[1]) THEN Ok(s[1].n) ELSE Fail
               By(e) == IF a # 0 THEN Split(e, s, a) ELSE IF b # 0 THEN Split(e, s, b)
                        ELSE IF c # 0 THEN Split(e, s, c) ELSE Rest
    <3>1. EvaluateText(g, s) = By(g) /\ EvaluateText(h, s) = By(h)
      BY <1>3, <2>2 DEF EvaluateText
    <3>2. /\ a # 0 => a \in 1..Len(s) /\ s[a].kind \in Operators
          /\ b # 0 => b \in 1..Len(s) /\ s[b].kind \in Operators
          /\ c # 0 => c \in 1..Len(s) /\ s[c].kind \in Operators
      BY FindType DEF Operators
    <3>3. Rest \in Result
      <4>1. Len(s) = 1 => s[1].n \in Int
        BY TextType
      <4> QED
        BY <4>1, FailType, OkType
    <3> HIDE DEF a, b, c, Rest
    <3>4. /\ a # 0 => Split(g, s, a) = Split(h, s, a) /\ Split(g, s, a) \in Result
          /\ b # 0 => Split(g, s, b) = Split(h, s, b) /\ Split(g, s, b) \in Result
          /\ c # 0 => Split(g, s, c) = Split(h, s, c) /\ Split(g, s, c) \in Result
      BY <3>2, SplitDepends
    <3> QED
      BY <3>1, <3>3, <3>4
  <2> QED
    BY <2>1, <2>2
<1> QED
  BY <1>1, <1>2, <1>3

LEMMA ParseDepends ==
  ASSUME NEW g \in [Texts -> Result], NEW h, NEW s \in Texts,
         \A t \in Texts : Len(t) < Len(s) => g[t] = h[t]
  PROVE  Parse(g, s) = Parse(h, s) /\ Parse(g, s) \in Result
<1>0. /\ Len(s) \in Nat /\ (s # <<>> => Len(s) # 0)
      /\ (Len(s) = 1 => s[1].n \in Int)
      /\ (Len(s) # 0 /\ Len(s) # 1 => /\ Part(s, 2, Len(s) - 1) \in Texts
                                      /\ Len(Part(s, 2, Len(s) - 1)) < Len(s))
  <2>1. Len(s) \in Nat /\ (s # <<>> => Len(s) # 0)
    BY TextType DEF Texts
  <2>2. Len(s) = 1 => s[1].n \in Int
    BY TextType
  <2>3. Len(s) # 0 /\ Len(s) # 1 => Len(s) >= 2
    <3>1. \A n \in Nat : n # 0 /\ n # 1 => n >= 2
      OBVIOUS
    <3> QED
      BY <2>1, <3>1
  <2> QED
    BY <2>1, <2>2, <2>3, Inside
<1> DEFINE A == Outside(s, {"+", "-"})
           B == Outside(s, {"*", "/"})
           C == Outside(s, {"^"})
           a == Max(A)
           b == Max(B)
           c == Min(C)
           inner(e) == e[Part(s, 2, Len(s) - 1)]
           Rest(e) == IF Len(s) = 1 THEN IF IsNumber(s[1]) THEN Ok(s[1].n) ELSE Fail
                      ELSE IF ~Enclosed(s) THEN Fail
                      ELSE IF Head(s).kind = "(" THEN inner(e) ELSE Call(Head(s).kind, inner(e))
<1>1. CASE s = <<>> \/ Depth(s, 1, Len(s)) # 0
  BY <1>1, FailType DEF Parse
<1>2. CASE ~(s = <<>> \/ Depth(s, 1, Len(s)) # 0)
  <2>1. Len(s) # 0
    BY <1>0, <1>2
  <2>2. /\ Parse(g, s) = IF A # {} THEN Split(g, s, a) ELSE IF B # {} THEN Split(g, s, b)
                         ELSE IF C # {} THEN Split(g, s, c) ELSE Rest(g)
        /\ Parse(h, s) = IF A # {} THEN Split(h, s, a) ELSE IF B # {} THEN Split(h, s, b)
                         ELSE IF C # {} THEN Split(h, s, c) ELSE Rest(h)
    BY <1>2 DEF Parse
  <2>3. /\ A # {} => a \in 1..Len(s) /\ s[a].kind \in Operators
        /\ B # {} => b \in 1..Len(s) /\ s[b].kind \in Operators
        /\ C # {} => c \in 1..Len(s) /\ s[c].kind \in Operators
    <3>1. /\ A # {} => a \in A /\ A \subseteq 1..Len(s)
          /\ B # {} => b \in B /\ B \subseteq 1..Len(s)
          /\ C # {} => c \in C /\ C \subseteq 1..Len(s)
      BY OutsideType
    <3>2. \A k \in A \cup B \cup C : s[k].kind \in Operators
      BY DEF Outside, Operators
    <3> QED
      BY <3>1, <3>2
  <2>4. Rest(g) = Rest(h) /\ Rest(g) \in Result
    <3>1. CASE Len(s) = 1
      <4> QED
        BY <1>0, <3>1, FailType, OkType
    <3>2. CASE Len(s) # 1
      <4>2. inner(g) = inner(h) /\ inner(g) \in Result
        BY <1>0, <2>1, <3>2
      <4>3. Call(Head(s).kind, inner(g)) \in Result
        <5> HIDE DEF inner
        <5> QED
          BY <4>2, CallType
      <4> QED
        BY <3>2, <4>2, <4>3, FailType
    <3> QED
      BY <3>1, <3>2
  <2> HIDE DEF A, B, C, a, b, c, Rest
  <2>5. /\ A # {} => Split(g, s, a) = Split(h, s, a) /\ Split(g, s, a) \in Result
        /\ B # {} => Split(g, s, b) = Split(h, s, b) /\ Split(g, s, b) \in Result
        /\ C # {} => Split(g, s, c) = Split(h, s, c) /\ Split(g, s, c) \in Result
    BY <2>3, SplitDepends
  <2> QED
    BY <2>2, <2>4, <2>5
<1> QED
  BY <1>1, <1>2

Step(w, g, s) == IF w = "evaluate" THEN EvaluateText(g, s) ELSE Parse(g, s)

LEMMA StepDepends ==
  ASSUME NEW w, NEW g \in [Texts -> Result], NEW h, NEW s \in Texts,
         \A t \in Texts : Len(t) < Len(s) => g[t] = h[t]
  PROVE  Step(w, g, s) = Step(w, h, s) /\ Step(w, g, s) \in Result
BY EvaluateDepends, ParseDepends DEF Step

(* g obeys the equation on the texts shorter than n *)
Obeys(w, n, g) == \A s \in Texts : Len(s) < n => g[s] = Step(w, g, s)

LEMMA ObeysOnce ==
  ASSUME NEW w, NEW m \in Nat, NEW g \in [Texts -> Result], NEW h,
         Obeys(w, m, g), Obeys(w, m, h)
  PROVE  \A s \in Texts : Len(s) < m => g[s] = h[s]
<1> DEFINE G == {s \in Texts : Len(s) < m => g[s] = h[s]}
<1>1. ASSUME NEW s \in Texts, \A t \in Texts : Len(t) < Len(s) => t \in G
      PROVE  s \in G
  <2> SUFFICES ASSUME Len(s) < m PROVE g[s] = h[s]
    OBVIOUS
  <2>1. ASSUME NEW t \in Texts, Len(t) < Len(s) PROVE g[t] = h[t]
    <3>1. Len(t) < m
      BY <2>1, TextType
    <3> QED
      BY <1>1, <2>1, <3>1
  <2>2. Step(w, g, s) = Step(w, h, s)
    BY <2>1, StepDepends
  <2> QED
    BY <2>2 DEF Obeys
<1>2. \A s \in Texts : s \in G
  <2> HIDE DEF G
  <2> QED
    BY <1>1, TextInduction
<1> QED
  BY <1>2

LEMMA ObeysNext ==
  ASSUME NEW w, NEW n \in Nat, NEW g \in [Texts -> Result], Obeys(w, n, g)
  PROVE  \E h \in [Texts -> Result] : Obeys(w, n + 1, h)
<1> DEFINE h == [s \in Texts |-> Step(w, g, s)]
<1>1. \A s \in Texts : Step(w, g, s) \in Result
  BY StepDepends
<1>2. h \in [Texts -> Result] /\ \A s \in Texts : h[s] = Step(w, g, s)
  BY <1>1
<1> HIDE DEF h
<1>3. ASSUME NEW s \in Texts, Len(s) < n + 1 PROVE h[s] = Step(w, h, s)
  <2>1. ASSUME NEW t \in Texts, Len(t) < Len(s) PROVE g[t] = h[t]
    <3>1. Len(t) \in Nat /\ Len(s) \in Nat
      BY TextType
    <3>2. Len(t) < n
      BY <1>3, <2>1, <3>1
    <3> QED
      BY <1>2, <3>2 DEF Obeys
  <2>2. Step(w, g, s) = Step(w, h, s)
    BY <1>2, <2>1, StepDepends
  <2> QED
    BY <1>2, <2>2
<1>4. Obeys(w, n + 1, h)
  BY <1>3 DEF Obeys
<1> QED
  BY <1>2, <1>4

LEMMA ObeysSome ==
  ASSUME NEW w, NEW n \in Nat
  PROVE  \E g \in [Texts -> Result] : Obeys(w, n, g)
<1> DEFINE G == {m \in Nat : \E g \in [Texts -> Result] : Obeys(w, m, g)}
<1>1. 0 \in G
  <2>1. [s \in Texts |-> Fail] \in [Texts -> Result]
    BY FailType
  <2>2. \A s \in Texts : ~(Len(s) < 0)
    BY TextType
  <2> QED
    BY <2>1, <2>2 DEF Obeys
<1>2. \A m \in Nat : m \in G => m + 1 \in G
  BY ObeysNext
<1>3. \A m \in Nat : m \in G
  <2> HIDE DEF G
  <2> QED
    BY <1>1, <1>2, NumberInduction
<1> QED
  BY <1>3

LEMMA ObeysAll ==
  ASSUME NEW w
  PROVE  \E f \in [Texts -> Result] : f = [s \in Texts |-> Step(w, f, s)]
<1> DEFINE chosen(n) == CHOOSE g \in [Texts -> Result] : Obeys(w, n, g)
           f == [s \in Texts |-> chosen(Len(s) + 1)[s]]
<1>1. \A n \in Nat : chosen(n) \in [Texts -> Result] /\ Obeys(w, n, chosen(n))
  BY ObeysSome
<1>2. \A s \in Texts : f[s] = chosen(Len(s) + 1)[s]
  OBVIOUS
<1>3. f \in [Texts -> Result]
  <2>1. \A s \in Texts : Len(s) + 1 \in Nat
    BY TextType
  <2>2. \A s \in Texts : chosen(Len(s) + 1)[s] \in Result
    <3> HIDE DEF chosen
    <3> QED
      BY <1>1, <2>1
  <2> QED
    BY <2>2
<1> HIDE DEF chosen, f
<1>4. ASSUME NEW s \in Texts PROVE f[s] = Step(w, f, s)
  <2> DEFINE g == chosen(Len(s) + 1)
  <2>1. Len(s) \in Nat /\ Len(s) + 1 \in Nat
    BY TextType
  <2>2. g \in [Texts -> Result] /\ Obeys(w, Len(s) + 1, g)
    BY <1>1, <2>1
  <2> HIDE DEF g
  <2>3. ASSUME NEW t \in Texts, Len(t) < Len(s) PROVE g[t] = f[t]
    <3> DEFINE h == chosen(Len(t) + 1)
    <3>1. Len(t) \in Nat /\ Len(t) + 1 \in Nat
      BY TextType
    <3>2. h \in [Texts -> Result] /\ Obeys(w, Len(t) + 1, h) /\ f[t] = h[t]
      BY <1>1, <1>2, <3>1
    <3> HIDE DEF h
    <3>3. Obeys(w, Len(t) + 1, g)
      <4>1. \A x \in Texts : Len(x) < Len(t) + 1 => Len(x) < Len(s) + 1
        BY <2>1, <2>3, <3>1, TextType
      <4> QED
        BY <2>2, <4>1 DEF Obeys
    <3>4. Len(t) < Len(t) + 1
      BY <3>1
    <3> QED
      BY <2>2, <3>2, <3>3, <3>4, ObeysOnce
  <2>4. Step(w, g, s) = Step(w, f, s)
    BY <1>3, <2>2, <2>3, StepDepends
  <2>5. g[s] = Step(w, g, s)
    BY <2>1, <2>2 DEF Obeys
  <2> QED
    BY <1>2, <2>4, <2>5 DEF g
<1>5. f = [s \in Texts |-> Step(w, f, s)]
  BY <1>3, <1>4
<1> QED
  BY <1>3, <1>5

N(s) == EvaluateNumericExpression[s]
M(s) == Meaning[s]

LEMMA NEquation ==
  /\ EvaluateNumericExpression \in [Texts -> Result]
  /\ \A s \in Texts : EvaluateNumericExpression[s] = EvaluateText(EvaluateNumericExpression, s)
<1>1. PICK f \in [Texts -> Result] : f = [s \in Texts |-> Step("evaluate", f, s)]
  BY ObeysAll
<1>2. f = [s \in Texts |-> EvaluateText(f, s)]
  BY <1>1 DEF Step
<1>3. EvaluateNumericExpression = [s \in Texts |-> EvaluateText(EvaluateNumericExpression, s)]
  BY <1>2 DEF EvaluateNumericExpression
<1> DEFINE h == EvaluateNumericExpression
<1>4. \A s \in Texts : h[s] = EvaluateText(h, s)
  BY <1>3
<1>5. h = [s \in Texts |-> h[s]]
  BY <1>3
<1> HIDE DEF h
<1>6. \A n \in Nat : Obeys("evaluate", n, f) /\ Obeys("evaluate", n, h)
  BY <1>1, <1>4 DEF Obeys, Step
<1>7. \A s \in Texts : h[s] = f[s]
  <2> TAKE s \in Texts
  <2>1. Len(s) + 1 \in Nat /\ Len(s) < Len(s) + 1
    BY TextType
  <2> QED
    BY <1>6, <2>1, ObeysOnce
<1>8. h \in [Texts -> Result]
  BY <1>5, <1>7
<1> QED
  BY <1>4, <1>8 DEF h

LEMMA MEquation ==
  /\ Meaning \in [Texts -> Result]
  /\ \A s \in Texts : Meaning[s] = Parse(Meaning, s)
<1>1. PICK f \in [Texts -> Result] : f = [s \in Texts |-> Step("parse", f, s)]
  BY ObeysAll
<1>2. f = [s \in Texts |-> Parse(f, s)]
  BY <1>1 DEF Step
<1>3. Meaning = [s \in Texts |-> Parse(Meaning, s)]
  BY <1>2 DEF Meaning
<1> DEFINE h == Meaning
<1>4. \A s \in Texts : h[s] = Parse(h, s)
  BY <1>3
<1>5. h = [s \in Texts |-> h[s]]
  BY <1>3
<1> HIDE DEF h
<1>6. \A n \in Nat : Obeys("parse", n, f) /\ Obeys("parse", n, h)
  BY <1>1, <1>4 DEF Obeys, Step
<1>7. \A s \in Texts : h[s] = f[s]
  <2> TAKE s \in Texts
  <2>1. Len(s) + 1 \in Nat /\ Len(s) < Len(s) + 1
    BY TextType
  <2> QED
    BY <1>6, <2>1, ObeysOnce
<1>8. h \in [Texts -> Result]
  BY <1>5, <1>7
<1> QED
  BY <1>4, <1>8 DEF h

-----------------------------------------------------------------------------
(* A call and the number that takes its place *)

CallBlock(s, i, j) ==
    /\ i \in 1..Len(s) /\ j \in i + 1..Len(s)
    /\ s[i].kind \in Calls /\ s[j].kind = ")"
    /\ Level(s, j) = Level(s, i - 1)
    /\ \A k \in i..j - 1 : Level(s, k) > Level(s, i - 1)

(* t is s with the number n in place of the tokens i..j *)
Contracts(s, t, i, j, n) ==
    /\ Len(t) = Len(s) - (j - i) /\ t[i] = Decimal(n)
    /\ \A k \in 1..i - 1 : t[k] = s[k]
    /\ \A k \in i + 1..Len(t) : t[k] = s[k + (j - i)]

LEMMA ContractLevel ==
  ASSUME NEW s \in Texts, NEW t \in Texts, NEW i, NEW j, NEW n,
         CallBlock(s, i, j), Contracts(s, t, i, j, n)
  PROVE  /\ \A k \in 0..i - 1 : Level(t, k) = Level(s, k)
         /\ \A k \in i..Len(t) : Level(t, k) = Level(s, k + (j - i))
         /\ Weight(t[i]) = 0 /\ Weight(s[i]) = 1 /\ Weight(s[j]) = -1
<1>1. /\ Len(s) \in Nat /\ Len(t) \in Nat /\ i \in Int /\ j \in Int
      /\ i >= 1 /\ i <= Len(s) /\ i < j /\ j <= Len(s) /\ j - i \in Int
  BY TextType DEF CallBlock
<1>2. ASSUME NEW k \in 0..i - 1 PROVE Level(t, k) = Level(s, k)
  <2>1. \A x \in 1..k : s[x].kind = t[x].kind
    BY <1>1 DEF Contracts
  <2> QED
    BY <1>1, <2>1, LevelSame
<1>3. Weight(t[i]) = 0 /\ Weight(s[i]) = 1 /\ Weight(s[j]) = -1
  BY DEF CallBlock, Contracts, Weight, Decimal, Opening, Calls
<1>4. Level(t, i) = Level(s, j)
  <2>1. Level(t, i) = Level(t, i - 1) + Weight(t[i])
    BY <1>1, LevelStep
  <2>2. Level(t, i - 1) = Level(s, i - 1) /\ i - 1 \in Int
    BY <1>1, <1>2
  <2>3. Level(t, i) = Level(s, i - 1)
    BY <1>3, <2>1, <2>2, LevelType
  <2> QED
    BY <2>3 DEF CallBlock
<1>5. ASSUME NEW k \in i..Len(t) PROVE Level(t, k) = Level(s, k + (j - i))
  <2>0. k \in Int /\ k + (j - i) \in Int /\ (i + 1) + (j - i) = j + 1 /\ i + 1 \in Int
    BY <1>1
  <2>1. SameKinds(t, s, i + 1, k, j - i)
    BY <1>1 DEF SameKinds, Contracts
  <2>2. Depth(t, i + 1, k) = Depth(s, (i + 1) + (j - i), k + (j - i))
    BY <1>1, <2>0, <2>1, DepthShift
  <2>3. Depth(t, i + 1, k) = Level(t, k) - Level(t, (i + 1) - 1)
    BY <1>1, <2>0, DepthIsLevel
  <2>4. Depth(s, j + 1, k + (j - i)) = Level(s, k + (j - i)) - Level(s, (j + 1) - 1)
    BY <1>1, <2>0, DepthIsLevel
  <2>5. (i + 1) - 1 = i /\ (j + 1) - 1 = j
    BY <1>1
  <2>6. Level(t, k) \in Int /\ Level(t, i) \in Int /\ Level(s, k + (j - i)) \in Int
    BY <1>1, <2>0, LevelType
  <2> QED
    BY <1>4, <2>0, <2>2, <2>3, <2>4, <2>5, <2>6
<1> QED
  BY <1>2, <1>3, <1>5

LEMMA ContractNesting ==
  ASSUME NEW s \in Texts, NEW t \in Texts, NEW i, NEW j, NEW n,
         CallBlock(s, i, j), Contracts(s, t, i, j, n)
  PROVE  WellNested(s) <=> WellNested(t)
<1>1. /\ Len(s) \in Nat /\ Len(t) \in Nat /\ i \in Int /\ j \in Int
      /\ i >= 1 /\ i < j /\ j <= Len(s) /\ Len(t) = Len(s) - (j - i)
  BY TextType DEF CallBlock, Contracts
<1>2. /\ \A k \in 0..i - 1 : Level(t, k) = Level(s, k)
      /\ \A k \in i..Len(t) : Level(t, k) = Level(s, k + (j - i))
  BY ContractLevel
<1>3. \A k \in Int : Level(s, k) \in Int
  BY LevelType
<1>4. Level(t, Len(t)) = Level(s, Len(s))
  BY <1>1, <1>2
<1>5. ASSUME WellNested(s) PROVE WellNested(t)
  BY <1>1, <1>2, <1>4, <1>5 DEF WellNested
<1>6. ASSUME WellNested(t) PROVE WellNested(s)
  <2>1. ASSUME NEW k \in 0..Len(s) PROVE Level(s, k) >= 0
    <3>1. CASE k < i
      BY <1>1, <1>2, <1>6, <3>1 DEF WellNested
    <3>2. CASE k >= i /\ k < j
      <4>1. Level(s, k) > Level(s, i - 1)
        BY <1>1, <3>2 DEF CallBlock
      <4>2. Level(s, i - 1) >= 0
        BY <1>1, <1>2, <1>6 DEF WellNested
      <4> QED
        BY <1>1, <1>3, <4>1, <4>2
    <3>3. CASE k >= j
      <4>1. k - (j - i) \in i..Len(t) /\ (k - (j - i)) + (j - i) = k /\ k - (j - i) \in 0..Len(t)
        BY <1>1, <3>3
      <4> QED
        BY <1>2, <1>6, <4>1 DEF WellNested
    <3> QED
      BY <1>1, <3>1, <3>2, <3>3
  <2> QED
    BY <1>4, <1>6, <2>1 DEF WellNested
<1> QED
  BY <1>5, <1>6

(* Where a token of s outside the call is in t *)
Corresponds(i, j, k, m) == (k < i /\ m = k) \/ (k > j /\ m = k - (j - i))

LEMMA OutsideContracts ==
  ASSUME NEW s \in Texts, NEW t \in Texts, NEW i, NEW j, NEW n,
         CallBlock(s, i, j), Contracts(s, t, i, j, n), WellNested(s),
         NEW ops, ops \subseteq Operators
  PROVE  /\ Outside(s, ops) = {} <=> Outside(t, ops) = {}
         /\ Outside(s, ops) # {} =>
               /\ Corresponds(i, j, Max(Outside(s, ops)), Max(Outside(t, ops)))
               /\ Corresponds(i, j, Min(Outside(s, ops)), Min(Outside(t, ops)))
<1>1. /\ Len(s) \in Nat /\ Len(t) \in Nat /\ i \in Int /\ j \in Int
      /\ i >= 1 /\ i < j /\ j <= Len(s) /\ Len(t) = Len(s) - (j - i)
      /\ DOMAIN s = 1..Len(s) /\ DOMAIN t = 1..Len(t)
  BY TextType DEF CallBlock, Contracts
<1>2. /\ \A k \in 0..i - 1 : Level(t, k) = Level(s, k)
      /\ \A k \in i..Len(t) : Level(t, k) = Level(s, k + (j - i))
  BY ContractLevel
<1>3. /\ s[i].kind \notin ops /\ s[j].kind \notin ops /\ t[i].kind \notin ops
  BY DEF CallBlock, Contracts, Decimal, Operators, Calls
<1>4. ASSUME NEW k \in i..j - 1 PROVE Level(s, k) # 0
  <2>1. Level(s, k) > Level(s, i - 1) /\ i - 1 \in 0..Len(s) /\ k \in Int
    BY <1>1 DEF CallBlock
  <2>2. Level(s, i - 1) >= 0
    BY <2>1 DEF WellNested
  <2> QED
    BY <2>1, <2>2, LevelType
<1> DEFINE S == Outside(s, ops)
           T == Outside(t, ops)
<1>5. ASSUME NEW k \in S
      PROVE  k \in Int /\ (k < i => k \in T) /\ (k >= i => k > j /\ k - (j - i) \in T)
  <2>1. k \in 1..Len(s) /\ s[k].kind \in ops /\ Level(s, k) = 0
    BY <1>1 DEF Outside, Level
  <2>2. CASE k < i
    <3>1. t[k] = s[k] /\ Level(t, k) = 0 /\ k \in 1..Len(t)
      BY <1>1, <1>2, <2>1, <2>2 DEF Contracts
    <3> QED
      BY <1>1, <2>1, <2>2, <3>1 DEF Outside, Level
  <2>3. CASE k >= i
    <3>1. k > j
      BY <1>1, <1>3, <1>4, <2>1, <2>3
    <3>2. k - (j - i) \in i + 1..Len(t) /\ (k - (j - i)) + (j - i) = k
      BY <1>1, <2>1, <3>1
    <3>3. t[k - (j - i)] = s[k] /\ Level(t, k - (j - i)) = 0 /\ k - (j - i) \in 1..Len(t)
      BY <1>1, <1>2, <2>1, <3>2 DEF Contracts
    <3> QED
      BY <1>1, <2>1, <2>3, <3>1, <3>3 DEF Outside, Level
  <2> QED
    BY <1>1, <2>1, <2>2, <2>3
<1>6. ASSUME NEW k \in T
      PROVE  k \in Int /\ (k < i => k \in S) /\ (k >= i => k > i /\ k + (j - i) \in S)
  <2>1. k \in 1..Len(t) /\ t[k].kind \in ops /\ Level(t, k) = 0
    BY <1>1 DEF Outside, Level
  <2>2. CASE k < i
    <3>1. t[k] = s[k] /\ Level(s, k) = 0 /\ k \in 1..Len(s)
      BY <1>1, <1>2, <2>1, <2>2 DEF Contracts
    <3> QED
      BY <1>1, <2>1, <2>2, <3>1 DEF Outside, Level
  <2>3. CASE k >= i
    <3>1. k > i
      BY <1>1, <1>3, <2>1, <2>3
    <3>2. k + (j - i) \in 1..Len(s)
      BY <1>1, <2>1, <3>1
    <3>3. t[k] = s[k + (j - i)] /\ Level(s, k + (j - i)) = 0
      BY <1>1, <1>2, <2>1, <3>1 DEF Contracts
    <3> QED
      BY <1>1, <2>1, <2>3, <3>1, <3>2, <3>3 DEF Outside, Level
  <2> QED
    BY <1>1, <2>1, <2>2, <2>3
<1>7. S = {} <=> T = {}
  <2> HIDE DEF S, T
  <2>1. ASSUME NEW k \in S PROVE T # {}
    BY <1>1, <1>5
  <2>2. ASSUME NEW k \in T PROVE S # {}
    BY <1>1, <1>6
  <2> QED
    BY <2>1, <2>2
<1>8. ASSUME S # {}
      PROVE  Corresponds(i, j, Max(S), Max(T)) /\ Corresponds(i, j, Min(S), Min(T))
  <2>1. Max(S) \in S /\ Min(S) \in S /\ \A k \in S : k <= Max(S) /\ k >= Min(S)
    BY <1>8, OutsideType
  <2>2. Max(T) \in T /\ Min(T) \in T /\ \A k \in T : k <= Max(T) /\ k >= Min(T)
    BY <1>7, <1>8, OutsideType
  <2> HIDE DEF S, T
  <2> DEFINE a == Max(S)
             b == Max(T)
             c == Min(S)
             d == Min(T)
  <2>3. a \in S /\ b \in T /\ c \in S /\ d \in T /\ a \in Int /\ b \in Int /\ c \in Int /\ d \in Int
    BY <1>5, <1>6, <2>1, <2>2
  <2>4. /\ \A k \in S : k <= a /\ k >= c
        /\ \A k \in T : k <= b /\ k >= d
    BY <2>1, <2>2
  <2> HIDE DEF a, b, c, d
  <2>5. Corresponds(i, j, a, b)
    BY <1>1, <1>5, <1>6, <2>3, <2>4 DEF Corresponds
  <2>6. Corresponds(i, j, c, d)
    BY <1>1, <1>5, <1>6, <2>3, <2>4 DEF Corresponds
  <2> QED
    BY <2>5, <2>6 DEF a, b, c, d
<1> QED
  BY <1>7, <1>8

(* what the call in i..j is worth *)
Value(s, i, j) == Call(s[i].kind, Meaning[Part(s, i + 1, j - 1)])

(* The part of s between a and b has the call in it, at i - a. *)
BlockOfPart(s, t, i, j, n, a, b) ==
    /\ CallBlock(Part(s, a + 1, b - 1), i - a, j - a)
    /\ Contracts(Part(s, a + 1, b - 1), Part(t, a + 1, b - (j - i) - 1), i - a, j - a, n)
    /\ Value(Part(s, a + 1, b - 1), i - a, j - a) = Value(s, i, j)
    /\ Part(s, a + 1, b - 1) \in Texts /\ Part(t, a + 1, b - (j - i) - 1) \in Texts

LEMMA SubBlock ==
  ASSUME NEW s \in Texts, NEW t \in Texts, NEW i, NEW j, NEW n,
         CallBlock(s, i, j), Contracts(s, t, i, j, n),
         NEW a \in 0..i - 1, NEW b \in j + 1..Len(s) + 1
  PROVE  BlockOfPart(s, t, i, j, n, a, b)
<1> DEFINE p == Part(s, a + 1, b - 1)
           q == Part(t, a + 1, b - (j - i) - 1)
           e == j - i
           x == i - a
           y == j - a
<1>1. /\ Len(s) \in Nat /\ Len(t) \in Nat /\ i \in Int /\ j \in Int /\ a \in Int /\ b \in Int
      /\ i >= 1 /\ i < j /\ j <= Len(s) /\ Len(t) = Len(s) - e /\ a < i /\ a >= 0 /\ j < b /\ b <= Len(s) + 1
  BY TextType DEF CallBlock, Contracts
<1>2. a \in 0..Len(s) /\ b \in a + 1..Len(s) + 1 /\ a \in 0..Len(t) /\ b - e \in a + 1..Len(t) + 1
  BY <1>1
<1>3. /\ p \in Texts /\ Len(p) = b - a - 1
      /\ \A k \in 1..b - a - 1 : p[k] = s[a + k]
      /\ \A k \in 0..b - a - 1 : Level(p, k) = Level(s, a + k) - Level(s, a)
  BY <1>2, Between
<1>4. /\ q \in Texts /\ Len(q) = (b - e) - a - 1
      /\ \A k \in 1..(b - e) - a - 1 : q[k] = t[a + k]
  <2> HIDE DEF e
  <2>1. /\ Part(t, a + 1, (b - e) - 1) \in Texts /\ Len(Part(t, a + 1, (b - e) - 1)) = (b - e) - a - 1
        /\ \A k \in 1..(b - e) - a - 1 : Part(t, a + 1, (b - e) - 1)[k] = t[a + k]
    BY <1>2, Between
  <2> QED
    BY <2>1 DEF e
<1> HIDE DEF p, q
<1>5. CallBlock(p, x, y)
  <2>1. x \in 1..Len(p) /\ y \in x + 1..Len(p)
    BY <1>1, <1>3
  <2>2. p[x] = s[i] /\ p[y] = s[j]
    <3>1. a + x = i /\ a + y = j /\ x \in 1..b - a - 1 /\ y \in 1..b - a - 1
      BY <1>1
    <3> QED
      BY <1>3, <3>1
  <2>3. ASSUME NEW k \in x - 1..y PROVE Level(p, k) = Level(s, a + k) - Level(s, a) /\ a + k \in i - 1..j
    BY <1>1, <1>3
  <2>4. a + (x - 1) = i - 1 /\ a + y = j /\ x - 1 \in x - 1..y /\ y \in x - 1..y
    BY <1>1
  <2>5. Level(p, y) = Level(p, x - 1)
    <3>1. Level(p, y) = Level(s, j) - Level(s, a) /\ Level(p, x - 1) = Level(s, i - 1) - Level(s, a)
      BY <2>3, <2>4
    <3> QED
      BY <3>1 DEF CallBlock
  <2>6. ASSUME NEW k \in x..y - 1 PROVE Level(p, k) > Level(p, x - 1)
    <3>1. Level(p, k) = Level(s, a + k) - Level(s, a) /\ Level(p, x - 1) = Level(s, i - 1) - Level(s, a)
      BY <1>1, <2>3, <2>4
    <3>2. a + k \in i..j - 1
      BY <1>1
    <3>3. Level(s, a + k) > Level(s, i - 1)
      BY <3>2 DEF CallBlock
    <3>4. Level(s, a + k) \in Int /\ Level(s, i - 1) \in Int /\ Level(s, a) \in Int
      BY <1>1, <3>2, LevelType
    <3> QED
      BY <3>1, <3>3, <3>4
  <2> QED
    BY <2>1, <2>2, <2>5, <2>6 DEF CallBlock
<1>6. Contracts(p, q, x, y, n)
  <2>1. Len(q) = Len(p) - (y - x) /\ y - x = e
    BY <1>1, <1>3, <1>4
  <2>2. q[x] = Decimal(n)
    <3>1. a + x = i /\ x \in 1..(b - e) - a - 1
      BY <1>1
    <3> QED
      BY <1>4, <3>1 DEF Contracts
  <2>3. ASSUME NEW k \in 1..x - 1 PROVE q[k] = p[k]
    <3>1. a + k \in 1..i - 1 /\ k \in 1..b - a - 1 /\ k \in 1..(b - e) - a - 1
      BY <1>1
    <3> QED
      BY <1>3, <1>4, <3>1 DEF Contracts
  <2>4. ASSUME NEW k \in x + 1..Len(q) PROVE q[k] = p[k + (y - x)]
    <3>1. a + k \in i + 1..Len(t) /\ k \in 1..(b - e) - a - 1 /\ k + e \in 1..b - a - 1
      BY <1>1, <1>4
    <3>2. (a + k) + e = a + (k + e)
      BY <1>1
    <3>3. q[k] = t[a + k] /\ p[k + e] = s[a + (k + e)] /\ t[a + k] = s[(a + k) + e]
      BY <1>3, <1>4, <3>1 DEF Contracts
    <3> QED
      BY <2>1, <3>2, <3>3
  <2> QED
    BY <2>1, <2>2, <2>3, <2>4 DEF Contracts
<1>7. Value(p, x, y) = Value(s, i, j)
  <2>1. /\ i \in 0..Len(s) /\ j \in i + 1..Len(s) + 1
        /\ x \in 0..Len(p) /\ y \in x + 1..Len(p) + 1
    BY <1>1, <1>3
  <2> DEFINE c == Part(s, i + 1, j - 1)
             d == Part(p, x + 1, y - 1)
  <2>2. c \in Texts /\ Len(c) = j - i - 1 /\ \A k \in 1..j - i - 1 : c[k] = s[i + k]
    BY <2>1, Between
  <2>3. d \in Texts /\ Len(d) = y - x - 1 /\ \A k \in 1..y - x - 1 : d[k] = p[x + k]
    <3> HIDE DEF x, y
    <3> QED
      BY <1>3, <2>1, Between
  <2>4. ASSUME NEW k \in 1..j - i - 1 PROVE c[k] = d[k]
    <3>1. x + k \in 1..b - a - 1 /\ a + (x + k) = i + k /\ k \in 1..y - x - 1
      BY <1>1
    <3> QED
      BY <1>3, <2>2, <2>3, <3>1
  <2>5. Len(c) = Len(d)
    BY <1>1, <2>2, <2>3
  <2> HIDE DEF c, d
  <2>6. c = d
    BY <2>2, <2>3, <2>4, <2>5, TextEqual
  <2>7. p[x] = s[i]
    <3>1. a + x = i /\ x \in 1..b - a - 1
      BY <1>1
    <3> QED
      BY <1>3, <3>1
  <2> QED
    BY <2>6, <2>7 DEF c, d, Value
<1> QED
  BY <1>3, <1>4, <1>5, <1>6, <1>7 DEF p, q, BlockOfPart

(* A text means the same when a call in it gives way to its value n, and    *)
(* nothing when the call has none.                                          *)
Same(c, n, x, y) == (c = Ok(n) => x = y) /\ (~c.ok => ~x.ok)

Replaced(s) ==
    \A t \in Texts, i \in Nat, j \in Nat, n \in Int :
       WellNested(s) /\ CallBlock(s, i, j) /\ Contracts(s, t, i, j, n)
         => Same(Value(s, i, j), n, Meaning[s], Meaning[t])

LEMMA MType == ASSUME NEW s \in Texts PROVE Meaning[s] \in Result /\ Meaning[s] = Parse(Meaning, s)
BY MEquation

LEMMA SplitContracts ==
  ASSUME NEW s \in Texts, NEW t \in Texts, NEW i \in Nat, NEW j \in Nat, NEW n \in Int,
         CallBlock(s, i, j), Contracts(s, t, i, j, n), WellNested(s),
         \A r \in Texts : Len(r) < Len(s) => Replaced(r),
         NEW k \in 1..Len(s), NEW m \in 1..Len(t),
         s[k].kind \in Operators, Level(s, k) = 0, Corresponds(i, j, k, m)
  PROVE  Same(Value(s, i, j), n, Split(Meaning, s, k), Split(Meaning, t, m))
<1> DEFINE e == j - i
           l == Part(s, 1, k - 1)
           r == Part(s, k + 1, Len(s))
           l2 == Part(t, 1, m - 1)
           r2 == Part(t, m + 1, Len(t))
           c == Value(s, i, j)
<1>1. /\ Len(s) \in Nat /\ Len(t) \in Nat /\ i >= 1 /\ i < j /\ j <= Len(s) /\ Len(t) = Len(s) - e
  BY TextType DEF CallBlock, Contracts
<1>2. /\ k \in 0..Len(s) /\ k \in 1..Len(s) + 1 /\ m \in 0..Len(t) /\ m \in 1..Len(t) + 1
  BY <1>1
<1>3. /\ l \in Texts /\ Len(l) = k - 1 /\ \A x \in 1..k - 1 : l[x] = s[x]
      /\ l2 \in Texts /\ Len(l2) = m - 1 /\ \A x \in 1..m - 1 : l2[x] = t[x]
  BY <1>2, Before
<1>4. /\ r \in Texts /\ Len(r) = Len(s) - k /\ \A x \in 1..Len(s) - k : r[x] = s[k + x]
      /\ r2 \in Texts /\ Len(r2) = Len(t) - m /\ \A x \in 1..Len(t) - m : r2[x] = t[m + x]
  BY <1>2, After
<1>5. WellNested(l) /\ WellNested(r)
  BY WellNestedParts
<1>6. t[m] = s[k]
  <2>1. (k < i /\ m = k) \/ (k > j /\ m = k - e)
    BY DEF Corresponds
  <2>2. CASE k < i /\ m = k
    BY <1>1, <2>2 DEF Contracts
  <2>3. CASE k > j /\ m = k - e
    <3>1. m \in i + 1..Len(t) /\ m + e = k
      BY <1>1, <2>3
    <3> QED
      BY <3>1 DEF Contracts
  <2> QED
    BY <2>1, <2>2, <2>3
<1>7. (Same(c, n, Meaning[l], Meaning[l2]) /\ r = r2) \/ (l = l2 /\ Same(c, n, Meaning[r], Meaning[r2]))
  <2>1. CASE k > j /\ m = k - e
    <3> DEFINE z == 0
    <3>1. z \in 0..i - 1 /\ k \in j + 1..Len(s) + 1 /\ z + 1 = 1 /\ i - z = i /\ j - z = j
      BY <1>1, <2>1
    <3> HIDE DEF z
    <3>2. /\ CallBlock(Part(s, z + 1, k - 1), i - z, j - z)
          /\ Contracts(Part(s, z + 1, k - 1), Part(t, z + 1, k - (j - i) - 1), i - z, j - z, n)
          /\ Value(Part(s, z + 1, k - 1), i - z, j - z) = Value(s, i, j)
      <4>1. BlockOfPart(s, t, i, j, n, z, k)
        BY <3>1, SubBlock
      <4> QED
        BY <4>1 DEF BlockOfPart
    <3>3. CallBlock(l, i, j) /\ Contracts(l, l2, i, j, n) /\ Value(l, i, j) = c
      BY <2>1, <3>1, <3>2
    <3> HIDE DEF l, l2, c
    <3>4. Replaced(l)
      BY <1>1, <1>3
    <3>5. Same(c, n, Meaning[l], Meaning[l2])
      BY <1>3, <1>5, <3>3, <3>4 DEF Replaced
    <3>6. r = r2
      <4>1. Len(r) = Len(r2)
        BY <1>1, <1>4, <2>1
      <4>2. ASSUME NEW x \in 1..Len(r) PROVE r[x] = r2[x]
        <5>1. m + x \in i + 1..Len(t) /\ (m + x) + e = k + x /\ x \in 1..Len(s) - k /\ x \in 1..Len(t) - m
          BY <1>1, <1>4, <2>1
        <5> QED
          BY <1>4, <5>1 DEF Contracts
      <4> HIDE DEF r, r2
      <4> QED
        BY <1>4, <4>1, <4>2, TextEqual
    <3> QED
      BY <3>5, <3>6
  <2>2. CASE k < i /\ m = k
    <3> DEFINE w == Len(s) + 1
    <3>1. /\ k \in 0..i - 1 /\ w \in j + 1..Len(s) + 1 /\ w - 1 = Len(s)
          /\ w - (j - i) - 1 = Len(t) /\ i - k \in Nat /\ j - k \in Nat
          /\ w \in Int /\ k \in Int /\ Len(s) \in Int
      BY <1>1, <2>2
    <3> HIDE DEF w
    <3>2. /\ CallBlock(Part(s, k + 1, w - 1), i - k, j - k)
          /\ Contracts(Part(s, k + 1, w - 1), Part(t, k + 1, w - (j - i) - 1), i - k, j - k, n)
          /\ Value(Part(s, k + 1, w - 1), i - k, j - k) = Value(s, i, j)
      <4>1. BlockOfPart(s, t, i, j, n, k, w)
        BY <3>1, SubBlock
      <4> QED
        BY <4>1 DEF BlockOfPart
    <3>3. CallBlock(r, i - k, j - k) /\ Contracts(r, r2, i - k, j - k, n) /\ Value(r, i - k, j - k) = c
      BY <2>2, <3>1, <3>2
    <3> HIDE DEF r, r2, c
    <3>4. Replaced(r)
      BY <1>1, <1>4
    <3>5. Same(c, n, Meaning[r], Meaning[r2])
      BY <1>4, <1>5, <3>1, <3>3, <3>4 DEF Replaced
    <3>6. l = l2
      <4>1. Len(l) = Len(l2)
        BY <1>3, <2>2
      <4>2. ASSUME NEW x \in 1..Len(l) PROVE l[x] = l2[x]
        <5>1. x \in 1..i - 1 /\ x \in 1..k - 1 /\ x \in 1..m - 1
          BY <1>1, <1>3, <2>2
        <5> QED
          BY <1>3, <5>1 DEF Contracts
      <4> HIDE DEF l, l2
      <4> QED
        BY <1>3, <4>1, <4>2, TextEqual
    <3> QED
      BY <3>5, <3>6
  <2> QED
    BY <2>1, <2>2 DEF Corresponds
<1>8. Meaning[l] \in Result /\ Meaning[r] \in Result
  BY <1>3, <1>4, MType
<1>9. /\ Split(Meaning, s, k) = Apply(s[k].kind, Meaning[l], Meaning[r])
      /\ Split(Meaning, t, m) = Apply(s[k].kind, Meaning[l2], Meaning[r2])
  BY <1>6 DEF Split
<1> HIDE DEF l, r, l2, r2, c
<1>10. ~Meaning[l].ok \/ ~Meaning[r].ok => ~Apply(s[k].kind, Meaning[l], Meaning[r]).ok
  BY <1>8, ApplyType
<1>11. Same(c, n, Split(Meaning, s, k), Split(Meaning, t, m))
  BY <1>7, <1>9, <1>10 DEF Same
<1> QED
  BY <1>11 DEF c

(* How the meaning of a balanced text is read when no operator is outside parentheses. *)
NoOperator(s) == Outside(s, {"+", "-"}) = {} /\ Outside(s, {"*", "/"}) = {} /\ Outside(s, {"^"}) = {}

LEMMA ParseSplit ==
  ASSUME NEW s \in Texts, s # <<>>, Level(s, Len(s)) = 0
  PROVE  /\ Outside(s, {"+", "-"}) # {} => Meaning[s] = Split(Meaning, s, Max(Outside(s, {"+", "-"})))
         /\ Outside(s, {"+", "-"}) = {} /\ Outside(s, {"*", "/"}) # {} =>
               Meaning[s] = Split(Meaning, s, Max(Outside(s, {"*", "/"})))
         /\ Outside(s, {"+", "-"}) = {} /\ Outside(s, {"*", "/"}) = {} /\ Outside(s, {"^"}) # {} =>
               Meaning[s] = Split(Meaning, s, Min(Outside(s, {"^"})))
         /\ NoOperator(s) /\ Len(s) = 1 =>
               Meaning[s] = IF IsNumber(s[1]) THEN Ok(s[1].n) ELSE Fail
         /\ NoOperator(s) /\ Len(s) # 1 =>
               Meaning[s] = IF ~Enclosed(s) THEN Fail
                            ELSE IF s[1].kind = "(" THEN Meaning[Part(s, 2, Len(s) - 1)]
                                 ELSE Call(s[1].kind, Meaning[Part(s, 2, Len(s) - 1)])
<1>1. Meaning[s] = Parse(Meaning, s)
  BY MType
<1>2. ~(s = <<>> \/ Depth(s, 1, Len(s)) # 0)
  BY DEF Level
<1>3. Head(s) = s[1]
  BY DEF Texts
<1> QED
  BY <1>1, <1>2, <1>3 DEF Parse, NoOperator

LEMMA ReplacedAll == \A s \in Texts : Replaced(s)
<1> DEFINE G == {s \in Texts : Replaced(s)}
<1>1. ASSUME NEW s \in Texts, \A r \in Texts : Len(r) < Len(s) => r \in G
      PROVE  s \in G
  <2>1. \A r \in Texts : Len(r) < Len(s) => Replaced(r)
    BY <1>1
  <2> HIDE DEF G
  <2> SUFFICES ASSUME NEW t \in Texts, NEW i \in Nat, NEW j \in Nat, NEW n \in Int,
                      WellNested(s), CallBlock(s, i, j), Contracts(s, t, i, j, n)
               PROVE  Same(Value(s, i, j), n, Meaning[s], Meaning[t])
    BY DEF G, Replaced
  <2>2. /\ Len(s) \in Nat /\ Len(t) \in Nat /\ i >= 1 /\ i < j /\ j <= Len(s) /\ Len(t) = Len(s) - (j - i)
    BY TextType DEF CallBlock, Contracts
  <2>3. s # <<>> /\ t # <<>> /\ Level(s, Len(s)) = 0 /\ Level(t, Len(t)) = 0
    <3>1. WellNested(t)
      BY ContractNesting
    <3>2. Len(s) # 0 /\ Len(t) # 0
      BY <2>2
    <3> QED
      BY <3>1, <3>2 DEF WellNested
  <2>4. \A ops \in {{"+", "-"}, {"*", "/"}, {"^"}} :
          /\ ops \subseteq Operators
          /\ Outside(s, ops) = {} <=> Outside(t, ops) = {}
          /\ Outside(s, ops) # {} =>
                /\ Same(Value(s, i, j), n, Split(Meaning, s, Max(Outside(s, ops))),
                                           Split(Meaning, t, Max(Outside(t, ops))))
                /\ Same(Value(s, i, j), n, Split(Meaning, s, Min(Outside(s, ops))),
                                           Split(Meaning, t, Min(Outside(t, ops))))
    <3> TAKE ops \in {{"+", "-"}, {"*", "/"}, {"^"}}
    <3>1. ops \subseteq Operators
      BY DEF Operators
    <3>2. /\ Outside(s, ops) = {} <=> Outside(t, ops) = {}
          /\ Outside(s, ops) # {} =>
               /\ Corresponds(i, j, Max(Outside(s, ops)), Max(Outside(t, ops)))
               /\ Corresponds(i, j, Min(Outside(s, ops)), Min(Outside(t, ops)))
      BY <3>1, OutsideContracts
    <3>3. ASSUME Outside(s, ops) # {}
          PROVE  /\ Max(Outside(s, ops)) \in 1..Len(s) /\ Max(Outside(t, ops)) \in 1..Len(t)
                 /\ Min(Outside(s, ops)) \in 1..Len(s) /\ Min(Outside(t, ops)) \in 1..Len(t)
                 /\ \A k \in {Max(Outside(s, ops)), Min(Outside(s, ops))} :
                       s[k].kind \in Operators /\ Level(s, k) = 0
      <4>1. Outside(t, ops) # {}
        BY <3>2, <3>3
      <4>2. Max(Outside(t, ops)) \in 1..Len(t) /\ Min(Outside(t, ops)) \in 1..Len(t)
        BY <4>1, OutsideType
      <4>3. /\ Max(Outside(s, ops)) \in Outside(s, ops) /\ Min(Outside(s, ops)) \in Outside(s, ops)
            /\ Outside(s, ops) \subseteq 1..Len(s)
            /\ \A k \in Outside(s, ops) : s[k].kind \in ops /\ Level(s, k) = 0
        BY <3>3, OutsideType
      <4> QED
        BY <3>1, <4>2, <4>3
    <3>4. ASSUME Outside(s, ops) # {}
          PROVE  /\ Same(Value(s, i, j), n, Split(Meaning, s, Max(Outside(s, ops))),
                                            Split(Meaning, t, Max(Outside(t, ops))))
                 /\ Same(Value(s, i, j), n, Split(Meaning, s, Min(Outside(s, ops))),
                                            Split(Meaning, t, Min(Outside(t, ops))))
      BY <2>1, <3>2, <3>3, <3>4, SplitContracts
    <3> QED
      BY <3>1, <3>2, <3>4
  <2>5. CASE ~NoOperator(s)
    <3> DEFINE A == {"+", "-"}
               B == {"*", "/"}
               C == {"^"}
    <3>1. CASE Outside(s, A) # {}
      <4>1. Outside(t, A) # {} /\ Same(Value(s, i, j), n, Split(Meaning, s, Max(Outside(s, A))),
                                                        Split(Meaning, t, Max(Outside(t, A))))
        BY <2>4, <3>1
      <4>2. Meaning[s] = Split(Meaning, s, Max(Outside(s, A)))
        BY <2>3, <3>1, ParseSplit
      <4>3. Meaning[t] = Split(Meaning, t, Max(Outside(t, A)))
        BY <2>3, <4>1, ParseSplit
      <4> QED
        BY <4>1, <4>2, <4>3
    <3>2. CASE Outside(s, A) = {} /\ Outside(s, B) # {}
      <4>1. /\ Outside(t, A) = {} /\ Outside(t, B) # {}
            /\ Same(Value(s, i, j), n, Split(Meaning, s, Max(Outside(s, B))),
                                       Split(Meaning, t, Max(Outside(t, B))))
        BY <2>4, <3>2
      <4>2. Meaning[s] = Split(Meaning, s, Max(Outside(s, B)))
        BY <2>3, <3>2, ParseSplit
      <4>3. Meaning[t] = Split(Meaning, t, Max(Outside(t, B)))
        BY <2>3, <4>1, ParseSplit
      <4> QED
        BY <4>1, <4>2, <4>3
    <3>3. CASE Outside(s, A) = {} /\ Outside(s, B) = {} /\ Outside(s, C) # {}
      <4>1. /\ Outside(t, A) = {} /\ Outside(t, B) = {} /\ Outside(t, C) # {}
            /\ Same(Value(s, i, j), n, Split(Meaning, s, Min(Outside(s, C))),
                                       Split(Meaning, t, Min(Outside(t, C))))
        BY <2>4, <3>3
      <4>2. Meaning[s] = Split(Meaning, s, Min(Outside(s, C)))
        BY <2>3, <3>3, ParseSplit
      <4>3. Meaning[t] = Split(Meaning, t, Min(Outside(t, C)))
        BY <2>3, <4>1, ParseSplit
      <4> QED
        BY <4>1, <4>2, <4>3
    <3> QED
      BY <2>5, <3>1, <3>2, <3>3 DEF NoOperator
  <2>6. CASE NoOperator(s)
    <3>1. NoOperator(t)
      BY <2>4, <2>6 DEF NoOperator
    <3>2. Len(s) # 1 /\ Len(s) >= 2
      BY <2>2, SMTT(30)
    <3>0. Len(t) = 1 => i = 1 /\ j = Len(s)
      <4>1. \A x, y \in Nat : i >= 1 /\ j <= x /\ y = x - (j - i) /\ y = 1 => i = 1 /\ j = x
        OBVIOUS
      <4> QED
        BY <2>2, <4>1
    <3> DEFINE inner == Meaning[Part(s, 2, Len(s) - 1)]
    <3>3. Meaning[s] = IF ~Enclosed(s) THEN Fail
                       ELSE IF s[1].kind = "(" THEN inner ELSE Call(s[1].kind, inner)
      BY <2>3, <2>6, <3>2, ParseSplit
    <3>4. /\ \A k \in 0..i - 1 : Level(t, k) = Level(s, k)
          /\ \A k \in i..Len(t) : Level(t, k) = Level(s, k + (j - i))
      BY ContractLevel
    <3>5. CASE Len(t) = 1
      <4>1. i = 1 /\ j = Len(s)
        BY <3>0, <3>5
      <4>2. Meaning[t] = Ok(n)
        <5>1. t[1] = Decimal(n)
          BY <4>1 DEF Contracts
        <5>2. IsNumber(t[1]) /\ t[1].n = n
          BY <5>1 DEF IsNumber, Decimal
        <5> QED
          BY <2>3, <3>1, <3>5, <5>2, ParseSplit
      <4>3. Enclosed(s)
        <5>1. \A k \in 1..Len(s) - 1 : Level(s, k) > Level(s, 1 - 1)
          BY <4>1 DEF CallBlock
        <5>2. Level(s, 1 - 1) = 0
          BY LevelZero
        <5> QED
          BY <5>1, <5>2 DEF Enclosed, Level
      <4>4. s[1].kind # "("
        BY <4>1 DEF CallBlock, Calls
      <4>5. Value(s, i, j) = Call(s[1].kind, inner)
        <5>1. 1 + 1 = 2
          OBVIOUS
        <5> QED
          BY <4>1, <5>1 DEF Value
      <4>6. Meaning[s] = Value(s, i, j)
        BY <3>3, <4>3, <4>4, <4>5
      <4> QED
        BY <4>2, <4>6 DEF Same
    <3>6. CASE Len(t) # 1
      <4> DEFINE inner2 == Meaning[Part(t, 2, Len(t) - 1)]
      <4>1. Meaning[t] = IF ~Enclosed(t) THEN Fail
                         ELSE IF t[1].kind = "(" THEN inner2 ELSE Call(t[1].kind, inner2)
        BY <2>3, <3>1, <3>6, ParseSplit
      <4>2. Enclosed(s) <=> (Enclosed(t) /\ i > 1 /\ j < Len(s))
        <5>1. ASSUME Enclosed(s) PROVE Enclosed(t) /\ i > 1 /\ j < Len(s)
          <6>1. \A k \in 1..Len(s) - 1 : Level(s, k) > 0
            BY <5>1 DEF Enclosed, Level
          <6>2. ~(i = 1 /\ j < Len(s))
            <7> SUFFICES ASSUME i = 1, j < Len(s) PROVE FALSE
              OBVIOUS
            <7>1. Level(s, j) = Level(s, 1 - 1) /\ Level(s, 1 - 1) = 0
              BY LevelZero DEF CallBlock
            <7> QED
              BY <2>2, <6>1, <7>1
          <6>3. ~(i > 1 /\ j = Len(s))
            <7> SUFFICES ASSUME i > 1, j = Len(s) PROVE FALSE
              OBVIOUS
            <7>1. Level(s, j) = Level(s, i - 1) /\ i - 1 \in 1..Len(s) - 1
              BY <2>2 DEF CallBlock
            <7> QED
              BY <2>3, <6>1, <7>1
          <6>4. i > 1 /\ j < Len(s)
            BY <2>2, <3>6, <6>2, <6>3
          <6>5. ASSUME NEW k \in 1..Len(t) - 1 PROVE Level(t, k) > 0
            <7>1. CASE k < i
              BY <2>2, <3>4, <6>1, <7>1
            <7>2. CASE k >= i
              <8>1. k + (j - i) \in 1..Len(s) - 1 /\ k \in i..Len(t)
                BY <2>2, <7>2
              <8> QED
                BY <3>4, <6>1, <8>1
            <7> QED
              BY <7>1, <7>2
          <6> QED
            BY <6>4, <6>5 DEF Enclosed, Level
        <5>2. ASSUME Enclosed(t), i > 1, j < Len(s) PROVE Enclosed(s)
          <6>1. \A k \in 1..Len(t) - 1 : Level(t, k) > 0
            BY <5>2 DEF Enclosed, Level
          <6>2. ASSUME NEW k \in 1..Len(s) - 1 PROVE Level(s, k) > 0
            <7>1. CASE k < i
              BY <2>2, <3>4, <5>2, <6>1, <7>1
            <7>2. CASE k >= i /\ k < j
              <8>1. Level(s, k) > Level(s, i - 1)
                BY <2>2, <7>2 DEF CallBlock
              <8>2. i - 1 \in 0..Len(s) /\ k \in Int
                BY <2>2
              <8>3. Level(s, i - 1) >= 0
                BY <8>2 DEF WellNested
              <8> QED
                BY <8>1, <8>2, <8>3, LevelType
            <7>3. CASE k >= j
              <8>1. k - (j - i) \in 1..Len(t) - 1 /\ k - (j - i) \in i..Len(t) /\ (k - (j - i)) + (j - i) = k
                BY <2>2, <7>3
              <8> QED
                BY <3>4, <6>1, <8>1
            <7> QED
              BY <2>2, <7>1, <7>2, <7>3
          <6> QED
            BY <6>2 DEF Enclosed, Level
        <5> QED
          BY <5>1, <5>2
      <4>3. Enclosed(t) => i > 1 /\ j < Len(s)
        <5> SUFFICES ASSUME Enclosed(t) PROVE i > 1 /\ j < Len(s)
          OBVIOUS
        <5>1. \A k \in 1..Len(t) - 1 : Level(t, k) > 0
          BY DEF Enclosed, Level
        <5>2. i > 1
          <6> SUFFICES ASSUME i = 1 PROVE FALSE
            BY <2>2
          <6>1. Level(s, j) = Level(s, 1 - 1) /\ Level(s, 1 - 1) = 0
            BY LevelZero DEF CallBlock
          <6>2. i \in i..Len(t) /\ i + (j - i) = j /\ i \in 1..Len(t) - 1
            BY <2>2, <3>6
          <6>3. Level(t, i) = Level(s, i + (j - i))
            BY <3>4, <6>2
          <6> QED
            BY <5>1, <6>1, <6>2, <6>3
        <5>3. j < Len(s)
          <6> SUFFICES ASSUME j = Len(s) PROVE FALSE
            BY <2>2
          <6>1. Level(s, j) = Level(s, i - 1)
            BY DEF CallBlock
          <6>2. i - 1 \in 0..i - 1 /\ i - 1 \in 1..Len(t) - 1
            BY <2>2, <5>2
          <6> QED
            BY <2>3, <3>4, <5>1, <6>1, <6>2
        <5> QED
          BY <5>2, <5>3
      <4>4. CASE ~Enclosed(s)
        BY <3>3, <4>1, <4>2, <4>3, <4>4, FailType DEF Same
      <4>5. CASE Enclosed(s)
        <5>1. Enclosed(t) /\ i > 1 /\ j < Len(s)
          BY <4>2, <4>5
        <5>2. t[1] = s[1]
          BY <2>2, <5>1 DEF Contracts
        <5> DEFINE p == Part(s, 2, Len(s) - 1)
                   q == Part(t, 2, Len(t) - 1)
        <5>3. CallBlock(p, i - 1, j - 1) /\ Contracts(p, q, i - 1, j - 1, n) /\ Value(p, i - 1, j - 1) = Value(s, i, j)
          <6> DEFINE w == Len(s)
                     z == 1
          <6>1. /\ z \in 0..i - 1 /\ w \in j + 1..Len(s) + 1 /\ w - (j - i) - 1 = Len(t) - 1
                /\ z + 1 = 2 /\ w \in Int /\ i - z = i - 1 /\ j - z = j - 1
            BY <2>2, <5>1
          <6>2. w = Len(s)
            OBVIOUS
          <6> HIDE DEF w, z
          <6>3. /\ CallBlock(Part(s, z + 1, w - 1), i - z, j - z)
                /\ Contracts(Part(s, z + 1, w - 1), Part(t, z + 1, w - (j - i) - 1), i - z, j - z, n)
                /\ Value(Part(s, z + 1, w - 1), i - z, j - z) = Value(s, i, j)
            <7>1. BlockOfPart(s, t, i, j, n, z, w)
              BY <6>1, SubBlock
            <7> QED
              BY <7>1 DEF BlockOfPart
          <6> QED
            BY <6>1, <6>2, <6>3
        <5>4. p \in Texts /\ Len(p) = Len(s) - 2 /\ \A k \in 0..Len(s) - 2 : Level(p, k) = Level(s, k + 1) - Weight(s[1])
          BY <3>2, Inside
        <5>5. q \in Texts
          <6>1. Len(t) >= 2
            BY <2>2, <5>1
          <6> QED
            BY <6>1, Inside
        <5> HIDE DEF p, q
        <5>6. WellNested(p)
          <6>1. \A k \in 1..Len(s) - 1 : Level(s, k) > 0
            BY <4>5 DEF Enclosed, Level
          <6>2. Level(s, 1) = Weight(s[1])
            <7>1. Level(s, 1) = Level(s, 1 - 1) + Weight(s[1]) /\ Level(s, 1 - 1) = 0
              BY LevelStep, LevelZero
            <7> QED
              BY <7>1, WeightType
          <6>3. Weight(s[1]) = 1
            BY <2>2, <3>2, <6>1, <6>2, WeightType
          <6>4. Level(s, Len(s) - 1) = 1
            <7>1. Level(s, Len(s)) = Level(s, Len(s) - 1) + Weight(s[Len(s)])
              BY <2>2, <3>2, LevelStep
            <7>2. Level(s, Len(s) - 1) \in Int /\ Level(s, Len(s) - 1) > 0
              BY <2>2, <3>2, <6>1, LevelType
            <7> QED
              BY <2>3, <7>1, <7>2, WeightType
          <6>5. ASSUME NEW k \in 0..Len(s) - 2 PROVE Level(p, k) = Level(s, k + 1) - 1 /\ Level(s, k + 1) > 0 /\ Level(s, k + 1) \in Int
            BY <2>2, <5>4, <6>1, <6>3, LevelType
          <6>6. Level(p, Len(s) - 2) = 0
            <7>1. Len(s) - 2 \in 0..Len(s) - 2 /\ (Len(s) - 2) + 1 = Len(s) - 1
              BY <2>2, <3>2
            <7> QED
              BY <6>4, <6>5, <7>1
          <6>7. \A k \in 0..Len(s) - 2 : Level(p, k) >= 0
            BY <6>5
          <6> QED
            BY <5>4, <6>6, <6>7 DEF WellNested
        <5>7. Replaced(p)
          BY <2>1, <2>2, <5>4
        <5>8. i - 1 \in Nat /\ j - 1 \in Nat
          BY <2>2
        <5>9. Same(Value(s, i, j), n, Meaning[p], Meaning[q])
          BY <5>3, <5>4, <5>5, <5>6, <5>7, <5>8 DEF Replaced
        <5>10. /\ Meaning[s] = IF s[1].kind = "(" THEN Meaning[p] ELSE Call(s[1].kind, Meaning[p])
               /\ Meaning[t] = IF s[1].kind = "(" THEN Meaning[q] ELSE Call(s[1].kind, Meaning[q])
          BY <3>3, <4>1, <4>5, <5>1, <5>2 DEF p, q
        <5>11. ~Meaning[p].ok => ~Call(s[1].kind, Meaning[p]).ok
          BY <5>4, MType, CallType
        <5> QED
          BY <5>9, <5>10, <5>11 DEF Same
      <4> QED
        BY <4>4, <4>5
    <3> QED
      BY <3>5, <3>6
  <2> QED
    BY <2>5, <2>6
<1>2. \A s \in Texts : s \in G
  <2> HIDE DEF G
  <2> QED
    BY <1>1, TextInduction
<1> QED
  BY <1>2

-----------------------------------------------------------------------------
(* The shapes the properties name, of any text *)

Plain == {"num", "dec"}
PlusTimes == {"+", "-", "*", "/"}

(* no operator is missing between two tokens *)
NoneMissing(s) ==
    \A k \in 1..Len(s) - 1 :
       ~(s[k].kind \in Plain \cup {")"} /\ s[k + 1].kind \in Plain \cup Opening)

(* two tokens that stand side by side, or one at an end, lack an operand between them *)
Gap(s) ==
    \E p \in 0..Len(s) :
       /\ p = 0 \/ s[p].kind \in Operators \cup Opening
       /\ p = Len(s) \/ s[p + 1].kind \in Operators \cup {")"}

Above(s, i, j) == \A k \in i..j : Level(s, k) >= Level(s, i)

Chain(s) ==
    \E i, j \in 1..Len(s) :
       /\ i < j /\ s[i].kind = "^" /\ s[j].kind = "^" /\ Level(s, j) = Level(s, i)
       /\ Above(s, i, j)
       /\ \A k \in i..j : Level(s, k) = Level(s, i) => s[k].kind \notin PlusTimes

Crowded(s) ==
    \E i, j \in 1..Len(s) :
       /\ i < j /\ s[i].kind \in Calls /\ s[j].kind \in Opening
       /\ Above(s, i, j)
       /\ ~(s[i].kind = "abs(" /\ s[j].kind = "sqrt(")

Pairs(s) ==
    \E i, j, k, l \in 1..Len(s) :
       /\ i < j /\ j < k /\ k < l
       /\ s[i].kind = "(" /\ s[j].kind = ")" /\ s[k].kind = "(" /\ s[l].kind = ")"

(* p is the tokens of s after a *)
PartOf(p, s, a) ==
    /\ p \in Texts /\ a \in Nat /\ Len(p) + a <= Len(s)
    /\ \A k \in 1..Len(p) : p[k] = s[a + k]
    /\ \A k \in 0..Len(p) : Level(p, k) = Level(s, a + k) - Level(s, a)

LEMMA BeforePart ==
  ASSUME NEW s \in Texts, NEW m \in 1..Len(s) + 1
  PROVE  PartOf(Part(s, 1, m - 1), s, 0) /\ Len(Part(s, 1, m - 1)) = m - 1
<1> DEFINE p == Part(s, 1, m - 1)
<1>1. /\ p \in Texts /\ Len(p) = m - 1
      /\ \A i \in 1..m - 1 : p[i] = s[i]
      /\ \A k \in 0..m - 1 : Level(p, k) = Level(s, k)
  BY Before
<1> HIDE DEF p
<1>2. \A k \in 0..m - 1 : Level(s, 0 + k) - Level(s, 0) = Level(s, k)
  BY LevelType, LevelZero
<1>3. Len(p) + 0 <= Len(s)
  BY <1>1, TextType
<1> QED
  BY <1>1, <1>2, <1>3 DEF PartOf, p

LEMMA AfterPart ==
  ASSUME NEW s \in Texts, NEW m \in 0..Len(s)
  PROVE  PartOf(Part(s, m + 1, Len(s)), s, m) /\ Len(Part(s, m + 1, Len(s))) = Len(s) - m
<1> DEFINE p == Part(s, m + 1, Len(s))
<1>1. /\ p \in Texts /\ Len(p) = Len(s) - m
      /\ \A i \in 1..Len(s) - m : p[i] = s[m + i]
      /\ \A k \in 0..Len(s) - m : Level(p, k) = Level(s, m + k) - Level(s, m)
  BY After
<1>2. m \in Nat /\ Len(s) \in Nat
  BY TextType
<1> HIDE DEF p
<1> QED
  BY <1>1, <1>2 DEF PartOf, p

LEMMA BetweenPart ==
  ASSUME NEW s \in Texts, NEW a \in 0..Len(s), NEW b \in a + 1..Len(s) + 1
  PROVE  PartOf(Part(s, a + 1, b - 1), s, a) /\ Len(Part(s, a + 1, b - 1)) = b - a - 1
<1> DEFINE p == Part(s, a + 1, b - 1)
<1>1. /\ p \in Texts /\ Len(p) = b - a - 1
      /\ \A i \in 1..b - a - 1 : p[i] = s[a + i]
      /\ \A k \in 0..b - a - 1 : Level(p, k) = Level(s, a + k) - Level(s, a)
  BY Between
<1>2. a \in Nat /\ Len(s) \in Nat /\ b \in Nat
  BY TextType
<1> HIDE DEF p
<1> QED
  BY <1>1, <1>2 DEF PartOf, p

LEMMA InsidePart ==
  ASSUME NEW s \in Texts, Len(s) >= 2
  PROVE  PartOf(Part(s, 2, Len(s) - 1), s, 1) /\ Len(Part(s, 2, Len(s) - 1)) = Len(s) - 2
<1> DEFINE a == 1
           b == Len(s)
<1>1. a \in 0..Len(s) /\ b \in a + 1..Len(s) + 1 /\ a + 1 = 2 /\ b - 1 = Len(s) - 1 /\ b - a - 1 = Len(s) - 2
  BY TextType
<1>2. a = 1 /\ b = Len(s)
  OBVIOUS
<1> HIDE DEF a, b
<1>3. PartOf(Part(s, a + 1, b - 1), s, a) /\ Len(Part(s, a + 1, b - 1)) = b - a - 1
  BY <1>1, BetweenPart
<1> QED
  BY <1>1, <1>2, <1>3

LEMMA PartAbove ==
  ASSUME NEW s \in Texts, NEW p, NEW a, PartOf(p, s, a),
         NEW i \in 1..Len(p), NEW j \in 1..Len(p)
  PROVE  /\ Above(p, i, j) <=> Above(s, a + i, a + j)
         /\ p[i] = s[a + i] /\ a + i \in 1..Len(s)
         /\ Level(p, i) = Level(s, a + i) - Level(s, a)
<1>1. a \in Nat /\ p \in Texts /\ Len(p) \in Nat /\ Len(s) \in Nat /\ Len(p) + a <= Len(s)
  BY TextType DEF PartOf
<1>2. \A k \in 0..Len(p) : /\ Level(p, k) = Level(s, a + k) - Level(s, a)
                           /\ Level(s, a + k) \in Int /\ Level(s, a) \in Int
  BY <1>1, LevelType DEF PartOf
<1>3. ASSUME Above(p, i, j) PROVE Above(s, a + i, a + j)
  <2>1. ASSUME NEW k \in a + i..a + j PROVE Level(s, k) >= Level(s, a + i)
    <3>1. k - a \in i..j /\ k - a \in 0..Len(p) /\ i \in 0..Len(p) /\ a + (k - a) = k
      BY <1>1
    <3>2. Level(p, k - a) >= Level(p, i)
      BY <1>3, <3>1 DEF Above
    <3>3. Level(p, k - a) = Level(s, k) - Level(s, a) /\ Level(s, k) \in Int
      BY <1>2, <3>1
    <3>4. Level(p, i) = Level(s, a + i) - Level(s, a) /\ Level(s, a + i) \in Int /\ Level(s, a) \in Int
      BY <1>2, <3>1
    <3> QED
      BY <3>2, <3>3, <3>4
  <2> QED
    BY <2>1 DEF Above
<1>4. ASSUME Above(s, a + i, a + j) PROVE Above(p, i, j)
  <2>1. ASSUME NEW k \in i..j PROVE Level(p, k) >= Level(p, i)
    <3>1. a + k \in a + i..a + j /\ k \in 0..Len(p) /\ i \in 0..Len(p)
      BY <1>1
    <3>2. Level(s, a + k) >= Level(s, a + i)
      BY <1>4, <3>1 DEF Above
    <3> QED
      BY <1>2, <3>1, <3>2
  <2> QED
    BY <2>1 DEF Above
<1>5. p[i] = s[a + i] /\ a + i \in 1..Len(s) /\ i \in 0..Len(p)
  BY <1>1 DEF PartOf
<1> QED
  BY <1>2, <1>3, <1>4, <1>5

LEMMA PartInherits ==
  ASSUME NEW s \in Texts, NEW p, NEW a, PartOf(p, s, a)
  PROVE  /\ NoneMissing(s) => NoneMissing(p)
         /\ Chain(p) => Chain(s)
         /\ Crowded(p) => Crowded(s)
         /\ Pairs(p) => Pairs(s)
<1>1. a \in Nat /\ p \in Texts /\ Len(p) \in Nat /\ Len(s) \in Nat /\ Len(p) + a <= Len(s)
  BY TextType DEF PartOf
<1>2. ASSUME NoneMissing(s) PROVE NoneMissing(p)
  <2>1. ASSUME NEW k \in 1..Len(p) - 1
        PROVE  p[k] = s[a + k] /\ p[k + 1] = s[(a + k) + 1] /\ a + k \in 1..Len(s) - 1
    <3>1. a + (k + 1) = (a + k) + 1 /\ k \in 1..Len(p) /\ k + 1 \in 1..Len(p) /\ a + k \in 1..Len(s) - 1
      BY <1>1
    <3> QED
      BY <3>1 DEF PartOf
  <2> QED
    BY <1>2, <2>1 DEF NoneMissing
<1>3. ASSUME Chain(p) PROVE Chain(s)
  <2>1. PICK i \in 1..Len(p), j \in 1..Len(p) :
           /\ i < j /\ p[i].kind = "^" /\ p[j].kind = "^" /\ Level(p, j) = Level(p, i)
           /\ Above(p, i, j)
           /\ \A k \in i..j : Level(p, k) = Level(p, i) => p[k].kind \notin PlusTimes
    BY <1>3 DEF Chain
  <2>2. /\ Above(s, a + i, a + j) /\ p[i] = s[a + i] /\ a + i \in 1..Len(s)
        /\ Level(p, i) = Level(s, a + i) - Level(s, a)
    BY <2>1, PartAbove
  <2>3. p[j] = s[a + j] /\ a + j \in 1..Len(s) /\ Level(p, j) = Level(s, a + j) - Level(s, a)
    BY PartAbove
  <2>4. ASSUME NEW k \in a + i..a + j, Level(s, k) = Level(s, a + i) PROVE s[k].kind \notin PlusTimes
    <3>1. k - a \in i..j /\ k - a \in 1..Len(p) /\ a + (k - a) = k
      BY <1>1
    <3>2. p[k - a] = s[k] /\ Level(p, k - a) = Level(s, k) - Level(s, a)
      BY <3>1 DEF PartOf
    <3>3. Level(p, k - a) = Level(p, i)
      BY <2>2, <2>4, <3>2
    <3> QED
      BY <2>1, <3>1, <3>2, <3>3
  <2>5. Level(s, a + j) = Level(s, a + i)
    <3>1. Level(s, a + j) \in Int /\ Level(s, a + i) \in Int /\ Level(s, a) \in Int
      BY <1>1, LevelType
    <3> QED
      BY <2>1, <2>2, <2>3, <3>1
  <2>6. a + i < a + j
    BY <1>1, <2>1
  <2> QED
    BY <2>1, <2>2, <2>3, <2>4, <2>5, <2>6 DEF Chain
<1>4. ASSUME Crowded(p) PROVE Crowded(s)
  <2>1. PICK i \in 1..Len(p), j \in 1..Len(p) :
           /\ i < j /\ p[i].kind \in Calls /\ p[j].kind \in Opening
           /\ Above(p, i, j) /\ ~(p[i].kind = "abs(" /\ p[j].kind = "sqrt(")
    BY <1>4 DEF Crowded
  <2>2. Above(s, a + i, a + j) /\ p[i] = s[a + i] /\ a + i \in 1..Len(s)
    BY <2>1, PartAbove
  <2>3. p[j] = s[a + j] /\ a + j \in 1..Len(s)
    BY PartAbove
  <2>4. a + i < a + j
    BY <1>1, <2>1
  <2> QED
    BY <2>1, <2>2, <2>3, <2>4 DEF Crowded
<1>5. ASSUME Pairs(p) PROVE Pairs(s)
  <2>1. PICK i \in 1..Len(p), j \in 1..Len(p), k \in 1..Len(p), l \in 1..Len(p) :
           /\ i < j /\ j < k /\ k < l
           /\ p[i].kind = "(" /\ p[j].kind = ")" /\ p[k].kind = "(" /\ p[l].kind = ")"
    BY <1>5 DEF Pairs
  <2>2. \A x \in 1..Len(p) : p[x] = s[a + x] /\ a + x \in 1..Len(s)
    BY <1>1 DEF PartOf
  <2>3. a + i < a + j /\ a + j < a + k /\ a + k < a + l
    BY <1>1, <2>1
  <2> QED
    BY <2>1, <2>2, <2>3 DEF Pairs
<1> QED
  BY <1>2, <1>3, <1>4, <1>5

(* Where a token of t is in s *)
Up(i, j, k) == IF k < i THEN k ELSE k + (j - i)

LEMMA ContractWalk ==
  ASSUME NEW s \in Texts, NEW t \in Texts, NEW i, NEW j, NEW n,
         CallBlock(s, i, j), Contracts(s, t, i, j, n),
         NEW p \in 1..Len(t), NEW q \in 1..Len(t), p < q, p # i, q # i
  PROVE  /\ Up(i, j, p) \in 1..Len(s) /\ Up(i, j, q) \in 1..Len(s) /\ Up(i, j, p) < Up(i, j, q)
         /\ s[Up(i, j, p)] = t[p] /\ s[Up(i, j, q)] = t[q]
         /\ Level(s, Up(i, j, p)) = Level(t, p) /\ Level(s, Up(i, j, q)) = Level(t, q)
         /\ Above(t, p, q) => Above(s, Up(i, j, p), Up(i, j, q))
         /\ Above(t, p, q) => \A k \in Up(i, j, p)..Up(i, j, q) :
               Level(s, k) = Level(s, Up(i, j, p)) =>
                  \/ s[k].kind = ")"
                  \/ \E m \in p..q : Level(t, m) = Level(t, p) /\ s[k] = t[m]
<1> DEFINE x == Up(i, j, p)
           y == Up(i, j, q)
<1>1. /\ Len(s) \in Nat /\ Len(t) \in Nat /\ i \in Int /\ j \in Int
      /\ i >= 1 /\ i < j /\ j <= Len(s) /\ Len(t) = Len(s) - (j - i)
  BY TextType DEF CallBlock, Contracts
<1>2. /\ \A k \in 0..i - 1 : Level(t, k) = Level(s, k)
      /\ \A k \in i..Len(t) : Level(t, k) = Level(s, k + (j - i))
  BY ContractLevel
<1>3. ASSUME NEW k \in 1..Len(t), k # i
      PROVE  /\ Up(i, j, k) \in 1..Len(s) /\ s[Up(i, j, k)] = t[k]
             /\ Level(s, Up(i, j, k)) = Level(t, k)
             /\ (k < i => Up(i, j, k) = k) /\ (k > i => Up(i, j, k) = k + (j - i))
  <2>1. CASE k < i
    BY <1>1, <1>2, <2>1 DEF Up, Contracts
  <2>2. CASE k > i
    BY <1>1, <1>2, <2>2 DEF Up, Contracts
  <2> QED
    BY <1>1, <1>3, <2>1, <2>2
<1>4. /\ x \in 1..Len(s) /\ s[x] = t[p] /\ Level(s, x) = Level(t, p)
      /\ (p < i => x = p) /\ (p > i => x = p + (j - i))
  BY <1>3
<1>5. /\ y \in 1..Len(s) /\ s[y] = t[q] /\ Level(s, y) = Level(t, q)
      /\ (q < i => y = q) /\ (q > i => y = q + (j - i))
  BY <1>3
<1> HIDE DEF x, y
<1>6. x < y
  BY <1>1, <1>4, <1>5
<1>7. ASSUME Above(t, p, q), NEW k \in x..y
      PROVE  /\ Level(s, k) >= Level(s, x)
             /\ Level(s, k) = Level(s, x) =>
                  \/ s[k].kind = ")"
                  \/ \E m \in p..q : Level(t, m) = Level(t, p) /\ s[k] = t[m]
  <2>1. CASE k < i
    <3>1. k \in p..q /\ k \in 0..i - 1 /\ k \in 1..i - 1
      BY <1>1, <1>4, <1>5, <2>1
    <3>2. Level(t, k) >= Level(t, p) /\ Level(s, k) = Level(t, k)
      BY <1>2, <1>7, <3>1 DEF Above
    <3>3. s[k] = t[k]
      BY <3>1 DEF Contracts
    <3> QED
      BY <1>4, <3>1, <3>2, <3>3
  <2>2. CASE k > j
    <3>1. k - (j - i) \in p..q /\ k - (j - i) \in i + 1..Len(t) /\ k - (j - i) \in i..Len(t)
          /\ (k - (j - i)) + (j - i) = k
      BY <1>1, <1>4, <1>5, <2>2
    <3>2. Level(t, k - (j - i)) >= Level(t, p) /\ Level(s, k) = Level(t, k - (j - i))
      BY <1>2, <1>7, <3>1 DEF Above
    <3>3. s[k] = t[k - (j - i)]
      BY <3>1 DEF Contracts
    <3> QED
      BY <1>4, <3>1, <3>2, <3>3
  <2>3. CASE k >= i /\ k <= j
    <3>1. p < i /\ q > i
      BY <1>1, <1>4, <1>5, <2>3
    <3>2. CASE k = j
      <4>1. i \in p..q /\ i \in i..Len(t) /\ i + (j - i) = j
        BY <1>1, <3>1
      <4>2. Level(t, i) >= Level(t, p) /\ Level(s, j) = Level(t, i)
        BY <1>2, <1>7, <4>1 DEF Above
      <4> QED
        BY <1>4, <3>2, <4>2 DEF CallBlock
    <3>3. CASE k < j
      <4>1. i - 1 \in p..q /\ i - 1 \in 0..i - 1 /\ k \in i..j - 1
        BY <1>1, <2>3, <3>1, <3>3
      <4>2. Level(t, i - 1) >= Level(t, p) /\ Level(s, i - 1) = Level(t, i - 1)
        BY <1>2, <1>7, <4>1 DEF Above
      <4>3. Level(s, k) > Level(s, i - 1)
        BY <4>1 DEF CallBlock
      <4>4. Level(s, k) \in Int /\ Level(s, i - 1) \in Int /\ Level(s, x) \in Int
        BY <1>1, <1>4, <4>1, LevelType
      <4> QED
        BY <1>4, <4>2, <4>3, <4>4
    <3> QED
      BY <1>1, <2>3, <3>2, <3>3
  <2> QED
    BY <1>1, <1>4, <1>5, <2>1, <2>2, <2>3
<1>8. Above(t, p, q) => Above(s, x, y)
  BY <1>7 DEF Above
<1>9. Above(t, p, q) => \A k \in x..y :
         Level(s, k) = Level(s, x) => \/ s[k].kind = ")"
                                      \/ \E m \in p..q : Level(t, m) = Level(t, p) /\ s[k] = t[m]
  BY <1>7
<1> QED
  BY <1>4, <1>5, <1>6, <1>8, <1>9 DEF x, y

LEMMA ContractInherits ==
  ASSUME NEW s \in Texts, NEW t \in Texts, NEW i, NEW j, NEW n,
         CallBlock(s, i, j), Contracts(s, t, i, j, n)
  PROVE  (Chain(t) => Chain(s)) /\ (Crowded(t) => Crowded(s)) /\ (Pairs(t) => Pairs(s))
<1>1. /\ Len(s) \in Nat /\ Len(t) \in Nat /\ i \in Int /\ j \in Int
      /\ i >= 1 /\ i < j /\ j <= Len(s) /\ Len(t) = Len(s) - (j - i)
  BY TextType DEF CallBlock, Contracts
<1>2. t[i].kind = "dec"
  BY DEF Contracts, Decimal
<1>3. ASSUME Chain(t) PROVE Chain(s)
  <2>1. PICK p \in 1..Len(t), q \in 1..Len(t) :
           /\ p < q /\ t[p].kind = "^" /\ t[q].kind = "^" /\ Level(t, q) = Level(t, p)
           /\ Above(t, p, q)
           /\ \A k \in p..q : Level(t, k) = Level(t, p) => t[k].kind \notin PlusTimes
    BY <1>3 DEF Chain
  <2> DEFINE x == Up(i, j, p)
             y == Up(i, j, q)
  <2>2. p # i /\ q # i
    BY <1>2, <2>1
  <2>3. /\ x \in 1..Len(s) /\ y \in 1..Len(s) /\ x < y
        /\ s[x] = t[p] /\ s[y] = t[q] /\ Level(s, x) = Level(t, p) /\ Level(s, y) = Level(t, q)
        /\ Above(s, x, y)
        /\ \A k \in x..y : Level(s, k) = Level(s, x) =>
              s[k].kind = ")" \/ \E m \in p..q : Level(t, m) = Level(t, p) /\ s[k] = t[m]
    BY <2>1, <2>2, ContractWalk
  <2> HIDE DEF x, y
  <2>4. \A k \in x..y : Level(s, k) = Level(s, x) => s[k].kind \notin PlusTimes
    BY <2>1, <2>3 DEF PlusTimes
  <2> QED
    BY <2>1, <2>3, <2>4 DEF Chain
<1>4. ASSUME Crowded(t) PROVE Crowded(s)
  <2>1. PICK p \in 1..Len(t), q \in 1..Len(t) :
           /\ p < q /\ t[p].kind \in Calls /\ t[q].kind \in Opening
           /\ Above(t, p, q) /\ ~(t[p].kind = "abs(" /\ t[q].kind = "sqrt(")
    BY <1>4 DEF Crowded
  <2> DEFINE x == Up(i, j, p)
             y == Up(i, j, q)
  <2>2. p # i /\ q # i
    BY <1>2, <2>1 DEF Opening, Calls
  <2>3. /\ x \in 1..Len(s) /\ y \in 1..Len(s) /\ x < y
        /\ s[x] = t[p] /\ s[y] = t[q] /\ Above(s, x, y)
    BY <2>1, <2>2, ContractWalk
  <2> HIDE DEF x, y
  <2> QED
    BY <2>1, <2>3 DEF Crowded
<1>5. ASSUME Pairs(t) PROVE Pairs(s)
  <2>1. PICK a \in 1..Len(t), b \in 1..Len(t), c \in 1..Len(t), d \in 1..Len(t) :
           /\ a < b /\ b < c /\ c < d
           /\ t[a].kind = "(" /\ t[b].kind = ")" /\ t[c].kind = "(" /\ t[d].kind = ")"
    BY <1>5 DEF Pairs
  <2>2. a # i /\ b # i /\ c # i /\ d # i
    BY <1>2, <2>1
  <2>3. /\ Up(i, j, a) \in 1..Len(s) /\ Up(i, j, b) \in 1..Len(s) /\ Up(i, j, a) < Up(i, j, b)
        /\ s[Up(i, j, a)] = t[a] /\ s[Up(i, j, b)] = t[b]
    BY <2>1, <2>2, ContractWalk
  <2>4. /\ Up(i, j, c) \in 1..Len(s) /\ Up(i, j, b) < Up(i, j, c) /\ s[Up(i, j, c)] = t[c]
    BY <2>1, <2>2, ContractWalk
  <2>5. /\ Up(i, j, d) \in 1..Len(s) /\ Up(i, j, c) < Up(i, j, d) /\ s[Up(i, j, d)] = t[d]
    BY <2>1, <2>2, ContractWalk
  <2> QED
    BY <2>1, <2>3, <2>4, <2>5 DEF Pairs
<1> QED
  BY <1>3, <1>4, <1>5

(* Evaluating a call of a text in which no operator is missing contracts it. *)
LEMMA ReplaceContracts ==
  ASSUME NEW s \in Texts, NEW f \in Calls, Matches(s, f) # {}, NoneMissing(s), NEW n \in Int
  PROVE  LET i == Min(Matches(s, f)) j == FirstClose(s, i) IN
         /\ Contracts(s, Replace(s, f, n), i, j, n)
         /\ NoneMissing(Replace(s, f, n))
<1> DEFINE i == Min(Matches(s, f))
           j == FirstClose(s, i)
           l == Part(s, 1, i - 1)
           r == Part(s, j + 1, Len(s))
           t == Replace(s, f, n)
<1>1. /\ i \in 1..Len(s) /\ s[i].kind = f /\ j \in i + 2..Len(s) /\ s[j].kind = ")"
      /\ Len(s) \in Nat
  BY MatchType, TextType
<1>2. t = InPlace(l, n, r)
  BY DEF Replace
<1>3. t \in Texts
  BY ReplaceType
<1> HIDE DEF i, j, t
<1>4. i \in 1..Len(s) + 1 /\ j \in 0..Len(s)
  BY <1>1
<1>5. l \in Texts /\ Len(l) = i - 1 /\ \A k \in 1..i - 1 : l[k] = s[k]
  BY <1>4, Before
<1>6. r \in Texts /\ Len(r) = Len(s) - j /\ \A k \in 1..Len(s) - j : r[k] = s[j + k]
  BY <1>4, After
<1> HIDE DEF l, r
<1>7. l # <<>> => Last(l).kind \notin {"num", "dec", ")"}
  <2> SUFFICES ASSUME l # <<>> PROVE l[Len(l)].kind \notin {"num", "dec", ")"}
    BY DEF Last
  <2>1. Len(l) # 0
    BY <1>5 DEF Texts
  <2>2. i - 1 \in 1..Len(s) - 1 /\ (i - 1) + 1 = i /\ l[Len(l)] = s[i - 1]
    BY <1>1, <1>5, <2>1
  <2>3. s[i].kind \in Opening
    BY <1>1 DEF Opening
  <2>4. ~(s[i - 1].kind \in Plain \cup {")"})
    BY <2>2, <2>3 DEF NoneMissing
  <2> QED
    BY <2>2, <2>4 DEF Plain
<1>8. r # <<>> => Head(r).kind \notin {"num", "dec"} \cup Opening
  <2> SUFFICES ASSUME r # <<>> PROVE Head(r).kind \notin {"num", "dec"} \cup Opening
    OBVIOUS
  <2>1. Len(r) # 0 /\ Head(r) = r[1]
    BY <1>6 DEF Texts
  <2>2. j \in 1..Len(s) - 1 /\ Head(r) = s[j + 1]
    BY <1>1, <1>6, <2>1
  <2> QED
    BY <1>1, <2>2 DEF NoneMissing, Plain
<1>9. t = (l \o <<Decimal(n)>>) \o r
  <2>1. /\ ~(l # <<>> /\ Last(l).kind = "num") /\ ~(l # <<>> /\ Last(l).kind = "dec")
        /\ ~(r # <<>> /\ Head(r).kind = "dec") /\ ~(r # <<>> /\ Head(r).kind = "num")
    BY <1>7, <1>8
  <2> QED
    BY <1>2, <2>1 DEF InPlace
<1>10. l \in Seq(Tokens) /\ r \in Seq(Tokens) /\ <<Decimal(n)>> \in Seq(Tokens) /\ Len(<<Decimal(n)>>) = 1
  <2>1. Decimal(n) \in Tokens
    BY DEF Decimal, Tokens
  <2> QED
    BY <1>5, <1>6, <2>1 DEF Texts
<1> DEFINE c == l \o <<Decimal(n)>>
<1>11. /\ c \in Seq(Tokens) /\ Len(c) = Len(l) + 1
       /\ \A k \in 1..Len(l) + 1 : c[k] = IF k <= Len(l) THEN l[k] ELSE Decimal(n)
  <2>1. c \in Seq(Tokens) /\ Len(c) = Len(l) + Len(<<Decimal(n)>>)
    BY <1>10, ConcatProperties
  <2>2. \A k \in 1..Len(l) + Len(<<Decimal(n)>>) :
           c[k] = IF k <= Len(l) THEN l[k] ELSE <<Decimal(n)>>[k - Len(l)]
    BY <1>10, ConcatProperties
  <2>3. ASSUME NEW k \in 1..Len(l) + 1 PROVE c[k] = IF k <= Len(l) THEN l[k] ELSE Decimal(n)
    <3>1. ~(k <= Len(l)) => k - Len(l) = 1
      BY <1>1, <1>5
    <3> QED
      BY <1>10, <2>2, <3>1
  <2> QED
    BY <1>10, <2>1, <2>3
<1> HIDE DEF c
<1>12. /\ Len(t) = Len(c) + Len(r)
       /\ \A k \in 1..Len(c) + Len(r) : t[k] = IF k <= Len(c) THEN c[k] ELSE r[k - Len(c)]
  <2>1. t = c \o r
    BY <1>9 DEF c
  <2> QED
    BY <1>10, <1>11, <2>1, ConcatProperties
<1>13. Contracts(s, t, i, j, n)
  <2>1. Len(c) = i /\ Len(r) = Len(s) - j /\ Len(t) = Len(s) - (j - i)
    BY <1>1, <1>5, <1>6, <1>11, <1>12
  <2>2. t[i] = Decimal(n)
    <3>1. i \in 1..Len(c) + Len(r) /\ i <= Len(c) /\ i \in 1..Len(l) + 1 /\ ~(i <= Len(l))
      BY <1>1, <1>5, <2>1
    <3> QED
      BY <1>11, <1>12, <3>1
  <2>3. ASSUME NEW k \in 1..i - 1 PROVE t[k] = s[k]
    <3>1. k \in 1..Len(c) + Len(r) /\ k <= Len(c) /\ k \in 1..Len(l) + 1 /\ k <= Len(l)
      BY <1>1, <1>5, <2>1
    <3> QED
      BY <1>5, <1>11, <1>12, <3>1
  <2>4. ASSUME NEW k \in i + 1..Len(t) PROVE t[k] = s[k + (j - i)]
    <3>1. k \in 1..Len(c) + Len(r) /\ ~(k <= Len(c)) /\ k - Len(c) \in 1..Len(s) - j /\ j + (k - Len(c)) = k + (j - i)
      BY <1>1, <2>1
    <3>2. t[k] = r[k - Len(c)] /\ r[k - Len(c)] = s[j + (k - Len(c))]
      BY <1>6, <1>12, <3>1
    <3> QED
      BY <3>1, <3>2
  <2> QED
    BY <2>1, <2>2, <2>3, <2>4 DEF Contracts
<1>14. NoneMissing(t)
  <2>1. ASSUME NEW k \in 1..Len(t) - 1, t[k].kind \in Plain \cup {")"}, t[k + 1].kind \in Plain \cup Opening
        PROVE  FALSE
    <3>0. Len(t) = Len(s) - (j - i) /\ t[i] = Decimal(n)
      BY <1>13 DEF Contracts
    <3>1. CASE k + 1 < i
      <4>1. t[k] = s[k] /\ t[k + 1] = s[k + 1] /\ k \in 1..Len(s) - 1
        BY <1>1, <1>13, <3>1 DEF Contracts
      <4> QED
        BY <2>1, <4>1 DEF NoneMissing
    <3>2. CASE k + 1 = i
      <4>1. t[k] = s[k] /\ k \in 1..Len(s) - 1
        BY <1>1, <1>13, <3>2 DEF Contracts
      <4>2. s[k + 1].kind \in Opening
        BY <1>1, <3>2 DEF Opening
      <4> QED
        BY <2>1, <4>1, <4>2 DEF NoneMissing
    <3>3. CASE k = i
      <4>1. t[k + 1] = s[(k + 1) + (j - i)] /\ (k + 1) + (j - i) = j + 1 /\ j \in 1..Len(s) - 1
        BY <1>1, <1>13, <3>0, <3>3 DEF Contracts
      <4> QED
        BY <1>1, <2>1, <4>1 DEF NoneMissing
    <3>4. CASE k > i
      <4>0. k \in i + 1..Len(t) /\ k + 1 \in i + 1..Len(t)
        BY <1>1, <3>0, <3>4
      <4>1. t[k] = s[k + (j - i)] /\ t[k + 1] = s[(k + 1) + (j - i)]
        BY <1>13, <4>0 DEF Contracts
      <4>2. (k + 1) + (j - i) = (k + (j - i)) + 1 /\ k + (j - i) \in 1..Len(s) - 1
        BY <1>1, <3>0, <3>4
      <4> QED
        BY <2>1, <4>1, <4>2 DEF NoneMissing
    <3> QED
      BY <1>1, <3>1, <3>2, <3>3, <3>4
  <2> QED
    BY <2>1 DEF NoneMissing
<1> QED
  BY <1>13, <1>14 DEF i, j, t

-----------------------------------------------------------------------------
(* An answer is right. *)

(* What is answered has an operand on each side of each operator, its       *)
(* parentheses match, and it is the meaning, unless powers are chained.     *)
Right(s) ==
    NoneMissing(s) /\ N(s).ok
      => ~Gap(s) /\ WellNested(s) /\ (~Chain(s) => N(s) = M(s))

LEMMA NIs == ASSUME NEW s \in Texts
  PROVE N(s) \in Result /\ N(s) = EvaluateText(EvaluateNumericExpression, s)
BY NEquation DEF N

LEMMA MIs == ASSUME NEW s \in Texts PROVE M(s) \in Result /\ M(s) = Meaning[s]
BY MEquation DEF M

LEMMA OkIs == ASSUME NEW v \in Result, v.ok PROVE v = Ok(v.n) /\ v.n \in Int
BY DEF Result, Ok

LEMMA FindIsOutside ==
  ASSUME NEW s \in Texts, Level(s, Len(s)) = 0, NEW ops
  PROVE  /\ FindOperator(s, ops) = 0 <=> Outside(s, ops) = {}
         /\ Outside(s, ops) # {} => FindOperator(s, ops) = Max(Outside(s, ops))
<1> DEFINE i == FindOperator(s, ops)
           O == Outside(s, ops)
<1>1. Len(s) \in Nat /\ DOMAIN s = 1..Len(s)
  BY TextType
<1>2. ASSUME NEW k \in 1..Len(s) PROVE Depth(s, k + 1, Len(s)) = 0 <=> Level(s, k) = 0
  <2>1. 1 <= k + 1 /\ (k + 1) - 1 <= Len(s) /\ (k + 1) - 1 = k /\ k + 1 \in Int
    BY <1>1
  <2>2. Depth(s, k + 1, Len(s)) = Level(s, Len(s)) - Level(s, (k + 1) - 1)
    BY <1>1, <2>1, DepthIsLevel
  <2>3. Level(s, k) \in Int
    BY LevelType
  <2> QED
    BY <2>1, <2>2, <2>3
<1>3. \A k : k \in O <=> k \in 1..Len(s) /\ s[k].kind \in ops /\ Level(s, k) = 0
  BY <1>1 DEF Outside, Level
<1>4. /\ i # 0 => i \in 1..Len(s) /\ s[i].kind \in ops /\ Depth(s, i + 1, Len(s)) = 0
      /\ \A k \in 1..Len(s) : s[k].kind \in ops /\ Depth(s, k + 1, Len(s)) = 0 => k <= i /\ i # 0
  BY FindType
<1>5. O # {} => Max(O) \in O /\ \A k \in O : k <= Max(O)
  BY OutsideType
<1> HIDE DEF i, O
<1>6. i # 0 => i \in O
  BY <1>2, <1>3, <1>4
<1>7. \A k \in O : k <= i /\ i # 0 /\ k \in Int
  BY <1>2, <1>3, <1>4
<1>8. O # {} => i = Max(O)
  <2> SUFFICES ASSUME O # {} PROVE i = Max(O)
    OBVIOUS
  <2>1. Max(O) <= i /\ i \in O /\ i <= Max(O) /\ Max(O) \in Int /\ i \in Int
    BY <1>5, <1>6, <1>7
  <2> QED
    BY <2>1
<1> QED
  BY <1>6, <1>7, <1>8 DEF i, O

(* The text beside an operator has a gap where the whole has one. *)
LEMMA SplitRight ==
  ASSUME NEW s \in Texts, NEW m \in 1..Len(s), s[m].kind \in Operators,
         \A r \in Texts : Len(r) < Len(s) => Right(r), NoneMissing(s),
         Split(EvaluateNumericExpression, s, m).ok
  PROVE  /\ ~Gap(s) /\ WellNested(s) /\ Level(s, m) = 0
         /\ ~Chain(s) => Split(EvaluateNumericExpression, s, m) = Split(Meaning, s, m)
<1> DEFINE l == Part(s, 1, m - 1)
           r == Part(s, m + 1, Len(s))
<1>1. Len(s) \in Nat /\ m \in 1..Len(s) + 1 /\ m \in 0..Len(s)
  BY TextType
<1>2. PartOf(l, s, 0) /\ Len(l) = m - 1 /\ PartOf(r, s, m) /\ Len(r) = Len(s) - m
  BY <1>1, BeforePart, AfterPart
<1>3. l \in Texts /\ r \in Texts
  BY <1>2 DEF PartOf
<1>4. NoneMissing(l) /\ NoneMissing(r) /\ (Chain(l) => Chain(s)) /\ (Chain(r) => Chain(s))
  BY <1>2, PartInherits
<1>5. Split(EvaluateNumericExpression, s, m) = Apply(s[m].kind, N(l), N(r))
  BY DEF Split, N
<1>6. Split(Meaning, s, m) = Apply(s[m].kind, M(l), M(r))
  BY DEF Split, M
<1>7. (WellNested(s) /\ Level(s, m) = 0) <=> (WellNested(l) /\ WellNested(r))
  BY WellNestedParts
<1> HIDE DEF l, r
<1>8. N(l).ok /\ N(r).ok
  BY <1>3, <1>5, NIs, ApplyType
<1>9. Right(l) /\ Right(r)
  BY <1>1, <1>2, <1>3
<1>10. ~Gap(l) /\ ~Gap(r) /\ WellNested(l) /\ WellNested(r)
       /\ (~Chain(s) => N(l) = M(l) /\ N(r) = M(r))
  BY <1>4, <1>8, <1>9 DEF Right
<1>11. ASSUME Gap(s) PROVE FALSE
  <2>1. PICK p \in 0..Len(s) : /\ p = 0 \/ s[p].kind \in Operators \cup Opening
                               /\ p = Len(s) \/ s[p + 1].kind \in Operators \cup {")"}
    BY <1>11 DEF Gap
  <2>2. CASE p < m
    <3>1. p \in 0..Len(l) /\ (p # 0 => l[p] = s[p]) /\ (p # Len(l) => l[p + 1] = s[p + 1] /\ p # Len(s))
      BY <1>1, <1>2, <2>2 DEF PartOf
    <3>2. Gap(l)
      BY <2>1, <3>1 DEF Gap
    <3> QED
      BY <1>10, <3>2
  <2>3. CASE p >= m
    <3> DEFINE q == p - m
    <3>0. /\ q \in 0..Len(r) /\ m + q = p /\ m + (q + 1) = p + 1 /\ p # 0
          /\ (q # 0 => q \in 1..Len(r)) /\ (q # Len(r) => q + 1 \in 1..Len(r) /\ p # Len(s))
      BY <1>1, <1>2, <2>3
    <3> HIDE DEF q
    <3>1. /\ q \in 0..Len(r) /\ (q # 0 => r[q] = s[m + q] /\ m + q = p /\ p # 0)
          /\ (q # Len(r) => r[q + 1] = s[m + (q + 1)] /\ m + (q + 1) = p + 1 /\ p # Len(s))
      BY <1>2, <3>0 DEF PartOf
    <3>2. Gap(r)
      BY <2>1, <3>1 DEF Gap
    <3> QED
      BY <1>10, <3>2
  <2> QED
    BY <1>1, <2>2, <2>3
<1> QED
  BY <1>5, <1>6, <1>7, <1>10, <1>11

LEMMA CallRight ==
  ASSUME NEW s \in Texts, NEW f \in Calls,
         \A r \in Texts : Len(r) < Len(s) => Right(r), NoneMissing(s),
         N(s) = EvaluateCall(EvaluateNumericExpression, s, f), N(s).ok
  PROVE  ~Gap(s) /\ WellNested(s) /\ (~Chain(s) => N(s) = M(s))
<1> DEFINE i == Min(Matches(s, f))
           j == FirstClose(s, i)
           arg == Part(s, i + 1, j - 1)
           v == Call(f, N(arg))
           t == Replace(s, f, v.n)
<1>1. Matches(s, f) # {}
  BY FailType DEF EvaluateCall
<1>2. /\ i \in 1..Len(s) /\ s[i].kind = f /\ j \in i + 2..Len(s) /\ s[j].kind = ")"
      /\ Len(s) \in Nat
  BY <1>1, MatchType, TextType
<1>3. Argument(s, f) = arg
  BY DEF Argument
<1>4. N(s) = IF v.ok THEN N(t) ELSE Fail
  BY <1>1, <1>3 DEF EvaluateCall, N
<1>5. v.ok /\ N(s) = N(t)
  BY <1>4, FailType
<1>6. arg \in Texts /\ Len(arg) < Len(s)
  <2>1. 0 \in Int
    OBVIOUS
  <2> QED
    BY <1>1, <1>3, <2>1, ReplaceType
<1>7. v \in Result /\ N(arg).ok
  <2> HIDE DEF arg
  <2>1. N(arg) \in Result
    BY <1>6, NIs
  <2> QED
    BY <1>5, <2>1, CallType
<1>8. v = Ok(v.n) /\ v.n \in Int
  <2> HIDE DEF v
  <2> QED
    BY <1>5, <1>7, OkIs
<1>9. t \in Texts /\ Len(t) < Len(s)
  <2> HIDE DEF v
  <2> QED
    BY <1>1, <1>8, ReplaceType
<1>10. Contracts(s, t, i, j, v.n) /\ NoneMissing(t)
  <2> HIDE DEF v
  <2> QED
    BY <1>1, <1>8, ReplaceContracts
<1>11. PartOf(arg, s, i) /\ Len(arg) = j - i - 1
  <2> HIDE DEF i, j
  <2>1. i \in 0..Len(s) /\ j \in i + 1..Len(s) + 1
    BY <1>2
  <2> QED
    BY <2>1, BetweenPart
<1>12. Value(s, i, j) = Call(f, M(arg))
  BY <1>2 DEF Value, M
<1> HIDE DEF i, j, arg, v, t
<1>13. NoneMissing(arg) /\ (Chain(arg) => Chain(s))
  BY <1>11, PartInherits
<1>14. ~Gap(arg) /\ WellNested(arg) /\ (~Chain(arg) => N(arg) = M(arg))
  BY <1>6, <1>7, <1>13 DEF Right
<1>15. ~Gap(t) /\ WellNested(t) /\ (~Chain(t) => N(t) = M(t))
  BY <1>5, <1>9, <1>10 DEF Right
<1>16. CallBlock(s, i, j)
  <2>1. Level(s, i) = Level(s, i - 1) + 1 /\ Level(s, i - 1) \in Int
    <3>1. i \in Int /\ 1 <= i /\ s[i].kind \in Opening
      BY <1>2 DEF Opening
    <3> QED
      BY <3>1, OpeningStep
  <2>2. Level(s, j) = Level(s, j - 1) - 1 /\ Level(s, j - 1) \in Int
    <3>1. j \in Int /\ 1 <= j /\ s[j].kind = ")"
      BY <1>2
    <3> QED
      BY <3>1, ClosingStep
  <2>3. ASSUME NEW k \in i..j - 1
        PROVE  /\ Level(s, k) >= Level(s, i) /\ Level(s, k) \in Int
               /\ k = j - 1 => Level(s, k) = Level(s, i)
    <3>1. k - i \in 0..Len(arg) /\ i + (k - i) = k /\ (k = j - 1 => k - i = Len(arg)) /\ k \in Int
      BY <1>2, <1>11, SMTT(30)
    <3>2. Level(arg, k - i) = Level(s, k) - Level(s, i) /\ Level(arg, k - i) >= 0
          /\ (k = j - 1 => Level(arg, k - i) = 0)
      BY <1>11, <1>14, <3>1 DEF PartOf, WellNested
    <3>3. Level(s, k) \in Int /\ Level(s, i) \in Int
      BY <1>2, <3>1, LevelType, SMTT(30)
    <3> QED
      BY <3>2, <3>3
  <2>4. j - 1 \in i..j - 1
    BY <1>2
  <2>5. Level(s, j) = Level(s, i - 1)
    BY <2>1, <2>2, <2>3, <2>4
  <2>6. \A k \in i..j - 1 : Level(s, k) > Level(s, i - 1)
    BY <2>1, <2>3
  <2>7. j \in i + 1..Len(s)
    BY <1>2
  <2> QED
    BY <1>2, <2>5, <2>6, <2>7 DEF CallBlock
<1>17. WellNested(s)
  BY <1>9, <1>10, <1>15, <1>16, ContractNesting
<1>18. ASSUME ~Chain(s) PROVE N(s) = M(s)
  <2>1. ~Chain(t) /\ ~Chain(arg)
    BY <1>9, <1>10, <1>13, <1>16, <1>18, ContractInherits
  <2>2. Value(s, i, j) = Ok(v.n)
    BY <1>8, <1>12, <1>14, <2>1 DEF v
  <2>3. i \in Nat /\ j \in Nat
    BY <1>2
  <2>4. Same(Value(s, i, j), v.n, Meaning[s], Meaning[t])
    BY <1>8, <1>9, <1>10, <1>16, <1>17, <2>3, ReplacedAll DEF Replaced
  <2> QED
    BY <1>5, <1>9, <1>15, <2>1, <2>2, <2>4, MIs DEF Same
<1>19. ASSUME Gap(s) PROVE FALSE
  <2>1. PICK p \in 0..Len(s) : /\ p = 0 \/ s[p].kind \in Operators \cup Opening
                               /\ p = Len(s) \/ s[p + 1].kind \in Operators \cup {")"}
    BY <1>19 DEF Gap
  <2>2. s[i].kind \notin Operators \cup {")"} /\ s[j].kind \notin Operators \cup Opening
    BY <1>2 DEF Operators, Opening, Calls
  <2>3. Len(t) = Len(s) - (j - i) /\ Len(t) \in Nat
    BY <1>9, <1>10, TextType DEF Contracts
  <2>4. CASE p < i
    <3>1. p + 1 < i
      BY <1>2, <2>1, <2>2, <2>4
    <3>2. p \in 0..Len(t) /\ (p # 0 => t[p] = s[p]) /\ t[p + 1] = s[p + 1] /\ p # Len(s)
      BY <1>2, <1>10, <2>3, <3>1 DEF Contracts
    <3>3. Gap(t)
      BY <2>1, <3>2 DEF Gap
    <3> QED
      BY <1>15, <3>3
  <2>5. CASE p >= i /\ p < j
    <3> DEFINE q == p - i
    <3>1. /\ q \in 0..Len(arg) /\ (q # 0 => arg[q] = s[i + q] /\ i + q = p /\ p # 0)
          /\ (q # Len(arg) => arg[q + 1] = s[i + (q + 1)] /\ i + (q + 1) = p + 1)
          /\ p # Len(s)
      <4>1. Len(arg) = j - i - 1 /\ \A k \in 1..Len(arg) : arg[k] = s[i + k]
        BY <1>11 DEF PartOf
      <4>2. /\ q \in 0..j - i - 1 /\ p # Len(s) /\ i + q = p /\ i + (q + 1) = p + 1
            /\ q # 0 => q \in 1..j - i - 1 /\ p # 0
            /\ q # j - i - 1 => q + 1 \in 1..j - i - 1
        BY <1>2, <2>5
      <4> QED
        BY <4>1, <4>2
    <3> HIDE DEF q
    <3>2. Gap(arg)
      BY <2>1, <3>1 DEF Gap
    <3> QED
      BY <1>14, <3>2
  <2>6. CASE p >= j
    <3>1. p > j
      BY <1>2, <2>1, <2>2, <2>6
    <3> DEFINE q == p - (j - i)
    <3>2. q \in i + 1..Len(t) /\ q + (j - i) = p /\ (q # Len(t) => q + 1 \in i + 1..Len(t)) /\ (q + 1) + (j - i) = p + 1
          /\ (p = Len(s) => q = Len(t))
      BY <1>2, <2>3, <3>1
    <3>3. t[q] = s[p] /\ (q # Len(t) => t[q + 1] = s[p + 1])
      BY <1>10, <3>2 DEF Contracts
    <3>4. q \in 0..Len(t) /\ p # 0
      BY <1>2, <3>1, <3>2, SMTT(30)
    <3> HIDE DEF q
    <3>5. Gap(t)
      BY <2>1, <3>2, <3>3, <3>4 DEF Gap
    <3> QED
      BY <1>15, <3>5
  <2> QED
    BY <1>2, <2>4, <2>5, <2>6
<1> QED
  BY <1>17, <1>18, <1>19

(* What "(" and ")" around a text do to its levels. *)
LEMMA StripLevels ==
  ASSUME NEW s \in Texts, Len(s) >= 2, s[1].kind = "(", s[Len(s)].kind = ")",
         WellNested(Part(s, 2, Len(s) - 1))
  PROVE  WellNested(s) /\ Enclosed(s) /\ NoOperator(s)
<1> DEFINE p == Part(s, 2, Len(s) - 1)
<1>0. DOMAIN s = 1..Len(s)
  BY TextType
<1>1. Len(s) \in Nat /\ Len(s) \in 1..Len(s)
  BY TextType
<1>2. Len(p) = Len(s) - 2 /\ \A k \in 0..Len(s) - 2 : Level(p, k) = Level(s, k + 1) - Weight(s[1])
  BY Inside
<1>3. Weight(s[1]) = 1 /\ Weight(s[Len(s)]) = -1
  BY DEF Weight, Opening, Calls
<1> HIDE DEF p
<1>4. \A k \in 0..Len(s) - 2 : Level(p, k) >= 0 /\ Level(p, Len(s) - 2) = 0
  BY <1>2 DEF WellNested, p
<1>5. ASSUME NEW k \in 1..Len(s) - 1
      PROVE  Level(s, k) >= 1 /\ (k = Len(s) - 1 => Level(s, k) = 1) /\ Level(s, k) \in Int
  <2>1. k - 1 \in 0..Len(s) - 2 /\ (k - 1) + 1 = k /\ (k = Len(s) - 1 => k - 1 = Len(s) - 2)
    BY <1>1
  <2>2. Level(p, k - 1) = Level(s, k) - 1 /\ Level(p, k - 1) >= 0
        /\ (k = Len(s) - 1 => Level(p, k - 1) = 0)
    BY <1>2, <1>3, <1>4, <2>1
  <2>3. Level(s, k) \in Int
    BY LevelType
  <2> QED
    BY <2>2, <2>3
<1>6. Level(s, Len(s)) = 0
  <2>1. Level(s, Len(s)) = Level(s, Len(s) - 1) + Weight(s[Len(s)])
    BY <1>1, LevelStep
  <2>2. Len(s) - 1 \in 1..Len(s) - 1
    BY <1>1
  <2> QED
    BY <1>3, <1>5, <2>1, <2>2
<1>7. Level(s, 0) = 0
  BY LevelZero
<1>8. \A k \in 0..Len(s) : k = 0 \/ k = Len(s) \/ k \in 1..Len(s) - 1
  BY <1>1
<1>9. WellNested(s)
  BY <1>5, <1>6, <1>7, <1>8 DEF WellNested
<1>10. Enclosed(s)
  BY <1>5 DEF Enclosed, Level
<1>11. ASSUME NEW ops, ops \subseteq Operators PROVE Outside(s, ops) = {}
  <2> SUFFICES ASSUME NEW k \in Outside(s, ops) PROVE FALSE
    OBVIOUS
  <2>1. k \in 1..Len(s) /\ s[k].kind \in ops /\ Level(s, k) = 0
    BY <1>0 DEF Outside, Level
  <2>2. k = Len(s)
    BY <1>1, <1>5, <2>1
  <2> QED
    BY <1>11, <2>1, <2>2 DEF Operators
<1>12. {"+", "-"} \subseteq Operators /\ {"*", "/"} \subseteq Operators /\ {"^"} \subseteq Operators
  BY DEF Operators
<1>13. NoOperator(s)
  BY <1>11, <1>12 DEF NoOperator
<1> QED
  BY <1>9, <1>10, <1>13

LEMMA StripRight ==
  ASSUME NEW s \in Texts, \A r \in Texts : Len(r) < Len(s) => Right(r), NoneMissing(s),
         Len(s) >= 2, s[1].kind = "(", s[Len(s)].kind = ")",
         N(s) = N(Part(s, 2, Len(s) - 1)), N(s).ok
  PROVE  ~Gap(s) /\ WellNested(s) /\ (~Chain(s) => N(s) = M(s))
<1> DEFINE p == Part(s, 2, Len(s) - 1)
<1>1. Len(s) \in Nat /\ Len(s) \in 1..Len(s)
  BY TextType
<1>2. PartOf(p, s, 1) /\ Len(p) = Len(s) - 2 /\ N(s) = N(p)
  BY InsidePart
<1>3. WellNested(p) => WellNested(s) /\ M(s) = M(p)
  <2> SUFFICES ASSUME WellNested(p) PROVE WellNested(s) /\ M(s) = M(p)
    OBVIOUS
  <2>1. WellNested(s) /\ Enclosed(s) /\ NoOperator(s)
    BY StripLevels
  <2>2. s # <<>> /\ Len(s) # 1 /\ Level(s, Len(s)) = 0
    BY <1>1, <2>1 DEF WellNested
  <2>3. Meaning[s] = Meaning[p]
    BY <2>1, <2>2, ParseSplit
  <2> QED
    BY <2>1, <2>3 DEF M
<1> HIDE DEF p
<1>4. p \in Texts /\ Len(p) < Len(s)
  BY <1>1, <1>2 DEF PartOf
<1>5. NoneMissing(p) /\ (Chain(p) => Chain(s))
  BY <1>2, PartInherits
<1>6. ~Gap(p) /\ WellNested(p) /\ (~Chain(p) => N(p) = M(p))
  BY <1>2, <1>4, <1>5 DEF Right
<1>7. ASSUME Gap(s) PROVE FALSE
  <2>1. PICK k \in 0..Len(s) : /\ k = 0 \/ s[k].kind \in Operators \cup Opening
                               /\ k = Len(s) \/ s[k + 1].kind \in Operators \cup {")"}
    BY <1>7 DEF Gap
  <2>2. s[1].kind \notin Operators \cup {")"} /\ s[Len(s)].kind \notin Operators \cup Opening
    BY DEF Operators, Opening, Calls
  <2>3. k # 0 /\ k # Len(s)
    BY <1>1, <2>1, <2>2
  <2> DEFINE q == k - 1
  <2>4. /\ q \in 0..Len(p) /\ (q # 0 => q \in 1..Len(p)) /\ 1 + q = k
        /\ (q # Len(p) => q + 1 \in 1..Len(p)) /\ 1 + (q + 1) = k + 1
    BY <1>1, <1>2, <2>3
  <2> HIDE DEF q
  <2>5. (q # 0 => p[q] = s[1 + q]) /\ (q # Len(p) => p[q + 1] = s[1 + (q + 1)])
    BY <1>2, <2>4 DEF PartOf
  <2>6. Gap(p)
    BY <2>1, <2>3, <2>4, <2>5 DEF Gap
  <2> QED
    BY <1>6, <2>6
<1> QED
  BY <1>2, <1>3, <1>5, <1>6, <1>7

(* Where powers are not chained there is one outside parentheses. *)
LEMMA OnePower ==
  ASSUME NEW s \in Texts, WellNested(s), ~Chain(s),
         Outside(s, {"+", "-"}) = {}, Outside(s, {"*", "/"}) = {}, Outside(s, {"^"}) # {}
  PROVE  Max(Outside(s, {"^"})) = Min(Outside(s, {"^"}))
<1> DEFINE O == Outside(s, {"^"})
           a == Min(O)
           b == Max(O)
<1>1. Len(s) \in Nat /\ DOMAIN s = 1..Len(s)
  BY TextType
<1>2. O \subseteq 1..Len(s) /\ a \in O /\ b \in O /\ a <= b
      /\ \A k \in O : s[k].kind = "^" /\ Level(s, k) = 0
  BY OutsideType
<1>3. ASSUME NEW k \in 1..Len(s), Level(s, k) = 0 PROVE s[k].kind \notin PlusTimes
  BY <1>1, <1>3 DEF Outside, Level, PlusTimes
<1> HIDE DEF O, a, b
<1>4. a \in 1..Len(s) /\ b \in 1..Len(s) /\ Level(s, a) = 0 /\ Level(s, b) = 0
      /\ s[a].kind = "^" /\ s[b].kind = "^"
  BY <1>2
<1>5. Above(s, a, b)
  <2>1. ASSUME NEW k \in a..b PROVE Level(s, k) >= Level(s, a)
    BY <1>1, <1>4 DEF WellNested
  <2> QED
    BY <2>1 DEF Above
<1>6. \A k \in a..b : Level(s, k) = Level(s, a) => s[k].kind \notin PlusTimes
  BY <1>1, <1>3, <1>4
<1>7. ~(a < b)
  BY <1>4, <1>5, <1>6 DEF Chain
<1>8. a = b
  BY <1>1, <1>2, <1>4, <1>7
<1> QED
  BY <1>8 DEF a, b, O

LEMMA RightAll == \A s \in Texts : Right(s)
<1> DEFINE G == {s \in Texts : Right(s)}
           E == EvaluateNumericExpression
<1>1. ASSUME NEW s \in Texts, \A r \in Texts : Len(r) < Len(s) => r \in G
      PROVE  s \in G
  <2>1. \A r \in Texts : Len(r) < Len(s) => Right(r)
    BY <1>1
  <2> HIDE DEF G
  <2> SUFFICES ASSUME NoneMissing(s), N(s).ok
               PROVE  ~Gap(s) /\ WellNested(s) /\ (~Chain(s) => N(s) = M(s))
    BY DEF G, Right
  <2>2. N(s) = EvaluateText(E, s)
    BY NIs
  <2>3. Len(s) \in Nat
    BY TextType
  <2>4. CASE "sqrt(" \in Kinds(s)
    <3>1. N(s) = EvaluateCall(E, s, "sqrt(") /\ "sqrt(" \in Calls
      BY <2>2, <2>4 DEF EvaluateText, Calls
    <3> QED
      BY <2>1, <3>1, CallRight
  <2>5. CASE "sqrt(" \notin Kinds(s) /\ "abs(" \in Kinds(s)
    <3>1. N(s) = EvaluateCall(E, s, "abs(") /\ "abs(" \in Calls
      BY <2>2, <2>5 DEF EvaluateText, Calls
    <3> QED
      BY <2>1, <3>1, CallRight
  <2>6. CASE "sqrt(" \notin Kinds(s) /\ "abs(" \notin Kinds(s)
    <3>1. CASE s # <<>> /\ Head(s).kind = "(" /\ Last(s).kind = ")"
      <4>1. N(s) = N(Part(s, 2, Len(s) - 1))
        BY <2>2, <2>6, <3>1 DEF EvaluateText, N
      <4> QED
        BY <2>1, <3>1, <4>1, Bracketed, StripRight
    <3>2. CASE ~(s # <<>> /\ Head(s).kind = "(" /\ Last(s).kind = ")")
      <4> DEFINE a == FindOperator(s, {"+", "-"})
                 b == FindOperator(s, {"*", "/"})
                 c == FindOperator(s, {"^"})
      <4>1. N(s) = IF a # 0 THEN Split(E, s, a) ELSE IF b # 0 THEN Split(E, s, b)
                   ELSE IF c # 0 THEN Split(E, s, c)
                   ELSE IF Len(s) = 1 /\ IsNumber(s[1]) THEN Ok(s[1].n) ELSE Fail
        BY <2>2, <2>6, <3>2 DEF EvaluateText
      <4>2. /\ a # 0 => a \in 1..Len(s) /\ s[a].kind \in Operators
            /\ b # 0 => b \in 1..Len(s) /\ s[b].kind \in Operators
            /\ c # 0 => c \in 1..Len(s) /\ s[c].kind \in Operators
        BY FindType DEF Operators
      <4>3. WellNested(s) => Level(s, Len(s)) = 0
        BY DEF WellNested
      <4>4. WellNested(s) =>
              /\ a = 0 <=> Outside(s, {"+", "-"}) = {}
              /\ a # 0 => a = Max(Outside(s, {"+", "-"}))
              /\ b = 0 <=> Outside(s, {"*", "/"}) = {}
              /\ b # 0 => b = Max(Outside(s, {"*", "/"}))
              /\ c = 0 <=> Outside(s, {"^"}) = {}
              /\ c # 0 => c = Max(Outside(s, {"^"}))
        BY <4>3, FindIsOutside
      <4> HIDE DEF a, b, c
      <4>5. CASE a # 0
        <5>1. N(s) = Split(E, s, a)
          BY <4>1, <4>5
        <5>2. /\ ~Gap(s) /\ WellNested(s)
              /\ ~Chain(s) => Split(E, s, a) = Split(Meaning, s, a)
          BY <2>1, <4>2, <4>5, <5>1, SplitRight
        <5>3. s # <<>> /\ Level(s, Len(s)) = 0
          BY <4>2, <4>3, <4>5, <5>2
        <5>4. Meaning[s] = Split(Meaning, s, a)
          BY <4>4, <4>5, <5>2, <5>3, ParseSplit
        <5> QED
          BY <5>1, <5>2, <5>4 DEF M
      <4>6. CASE a = 0 /\ b # 0
        <5>1. N(s) = Split(E, s, b)
          BY <4>1, <4>6
        <5>2. /\ ~Gap(s) /\ WellNested(s)
              /\ ~Chain(s) => Split(E, s, b) = Split(Meaning, s, b)
          BY <2>1, <4>2, <4>6, <5>1, SplitRight
        <5>3. s # <<>> /\ Level(s, Len(s)) = 0
          BY <4>2, <4>3, <4>6, <5>2
        <5>4. Meaning[s] = Split(Meaning, s, b)
          BY <4>4, <4>6, <5>2, <5>3, ParseSplit
        <5> QED
          BY <5>1, <5>2, <5>4 DEF M
      <4>7. CASE a = 0 /\ b = 0 /\ c # 0
        <5>1. N(s) = Split(E, s, c)
          BY <4>1, <4>7
        <5>2. /\ ~Gap(s) /\ WellNested(s)
              /\ ~Chain(s) => Split(E, s, c) = Split(Meaning, s, c)
          BY <2>1, <4>2, <4>7, <5>1, SplitRight
        <5>3. s # <<>> /\ Level(s, Len(s)) = 0
          BY <4>2, <4>3, <4>7, <5>2
        <5>4. Meaning[s] = Split(Meaning, s, Min(Outside(s, {"^"})))
          BY <4>4, <4>7, <5>2, <5>3, ParseSplit
        <5>5. ~Chain(s) => c = Min(Outside(s, {"^"}))
          BY <4>4, <4>7, <5>2, OnePower
        <5> QED
          BY <5>1, <5>2, <5>4, <5>5 DEF M
      <4>8. CASE a = 0 /\ b = 0 /\ c = 0
        <5>1. Len(s) = 1 /\ IsNumber(s[1]) /\ N(s) = Ok(s[1].n)
          BY <4>1, <4>8, FailType
        <5>2. s[1].kind \in Plain
          BY <5>1 DEF IsNumber, Plain
        <5>3. Weight(s[1]) = 0 /\ s[1].kind \notin Operators \cup Opening \cup {")"}
          BY <5>2 DEF Plain, Weight, Operators, Opening, Calls
        <5>4. ~Gap(s)
          <6>1. \A p \in 0..1 : p = 0 \/ p = 1
            OBVIOUS
          <6> QED
            BY <5>1, <5>3, <6>1 DEF Gap
        <5>5. Level(s, 1) = 0 /\ Level(s, 0) = 0
          <6>1. Level(s, 1) = Level(s, 1 - 1) + Weight(s[1]) /\ Level(s, 1 - 1) = 0
            BY LevelStep, LevelZero
          <6> QED
            BY <5>3, <6>1, LevelZero
        <5>6. WellNested(s)
          <6>1. \A p \in 0..1 : p = 0 \/ p = 1
            OBVIOUS
          <6> QED
            BY <5>1, <5>5, <6>1 DEF WellNested
        <5>7. s # <<>> /\ NoOperator(s) /\ Level(s, Len(s)) = 0
          BY <4>4, <4>8, <5>1, <5>5, <5>6 DEF NoOperator
        <5>8. Meaning[s] = Ok(s[1].n)
          BY <5>1, <5>7, ParseSplit
        <5> QED
          BY <5>1, <5>4, <5>6, <5>8 DEF M
      <4> QED
        BY <4>5, <4>6, <4>7, <4>8
    <3> QED
      BY <3>1, <3>2
  <2> QED
    BY <2>4, <2>5, <2>6
<1>2. \A s \in Texts : s \in G
  <2> HIDE DEF G
  <2> QED
    BY <1>1, TextInduction
<1> QED
  BY <1>2

-----------------------------------------------------------------------------
(* What has a meaning is answered. *)

LEMMA Rises ==
  ASSUME NEW s, NEW a \in Nat, NEW b \in Nat, a <= b, \A k \in a + 1..b : s[k].kind # ")"
  PROVE  Level(s, a) <= Level(s, b)
<1>1. ClosingIn(s, a + 1, b) = {}
  BY DEF ClosingIn
<1>2. Depth(s, a + 1, b) = Level(s, b) - Level(s, (a + 1) - 1) /\ (a + 1) - 1 = a
  BY DepthIsLevel
<1>3. /\ Cardinality(OpeningIn(s, a + 1, b)) \in Nat
      /\ Depth(s, a + 1, b) = Cardinality(OpeningIn(s, a + 1, b)) - Cardinality(ClosingIn(s, a + 1, b))
  BY DepthIs
<1>4. Cardinality({}) = 0
  BY FS_EmptySet
<1>5. Level(s, a) \in Int /\ Level(s, b) \in Int
  BY LevelType
<1> QED
  BY <1>1, <1>2, <1>3, <1>4, <1>5

LEMMA Falls ==
  ASSUME NEW s, NEW a \in Nat, NEW b \in Nat, a <= b, \A k \in a + 1..b : s[k].kind \notin Opening
  PROVE  Level(s, b) <= Level(s, a)
<1>1. OpeningIn(s, a + 1, b) = {}
  BY DEF OpeningIn
<1>2. Depth(s, a + 1, b) = Level(s, b) - Level(s, (a + 1) - 1) /\ (a + 1) - 1 = a
  BY DepthIsLevel
<1>3. /\ Cardinality(ClosingIn(s, a + 1, b)) \in Nat
      /\ Depth(s, a + 1, b) = Cardinality(OpeningIn(s, a + 1, b)) - Cardinality(ClosingIn(s, a + 1, b))
  BY DepthIs
<1>4. Cardinality({}) = 0
  BY FS_EmptySet
<1>5. Level(s, a) \in Int /\ Level(s, b) \in Int
  BY LevelType
<1> QED
  BY <1>1, <1>2, <1>3, <1>4, <1>5

LEMMA EnclosedEnds ==
  ASSUME NEW s \in Texts, Len(s) >= 2, Level(s, Len(s)) = 0, Enclosed(s)
  PROVE  s[1].kind \in Opening /\ s[Len(s)].kind = ")" /\ WellNested(s) /\ NoOperator(s)
<1>0. DOMAIN s = 1..Len(s)
  BY TextType
<1>1. Len(s) \in Nat
  BY TextType
<1>2. \A k \in 1..Len(s) - 1 : Level(s, k) > 0 /\ Level(s, k) \in Int
  BY LevelType DEF Enclosed, Level
<1>3. Level(s, 0) = 0
  BY LevelZero
<1>4. s[1].kind \in Opening
  <2>1. Level(s, 1) = Level(s, 1 - 1) + Weight(s[1]) /\ Level(s, 1 - 1) = 0 /\ 1 \in 1..Len(s) - 1
    BY <1>1, LevelStep, LevelZero
  <2>2. Weight(s[1]) > 0
    BY <1>2, <2>1, WeightType
  <2> QED
    BY <2>2 DEF Weight
<1>5. s[Len(s)].kind = ")"
  <2>1. Level(s, Len(s)) = Level(s, Len(s) - 1) + Weight(s[Len(s)]) /\ Len(s) - 1 \in 1..Len(s) - 1
    BY <1>1, LevelStep
  <2>2. Level(s, Len(s) - 1) > 0 /\ Level(s, Len(s) - 1) \in Int
    BY <1>2, <2>1
  <2>3. Weight(s[Len(s)]) # 0 /\ Weight(s[Len(s)]) # 1
    BY <2>1, <2>2, WeightType
  <2> QED
    BY <2>3 DEF Weight
<1>6. \A k \in 0..Len(s) : k = 0 \/ k = Len(s) \/ k \in 1..Len(s) - 1
  BY <1>1
<1>7. WellNested(s)
  BY <1>2, <1>3, <1>6 DEF WellNested
<1>8. ASSUME NEW ops, ops \subseteq Operators PROVE Outside(s, ops) = {}
  <2> SUFFICES ASSUME NEW k \in Outside(s, ops) PROVE FALSE
    OBVIOUS
  <2>1. k \in 1..Len(s) /\ s[k].kind \in ops /\ Level(s, k) = 0
    BY <1>0 DEF Outside, Level
  <2>2. k = Len(s)
    BY <1>1, <1>2, <2>1
  <2> QED
    BY <1>5, <1>8, <2>1, <2>2 DEF Operators
<1>9. {"+", "-"} \subseteq Operators /\ {"*", "/"} \subseteq Operators /\ {"^"} \subseteq Operators
  BY DEF Operators
<1>10. NoOperator(s)
  BY <1>8, <1>9 DEF NoOperator
<1> QED
  BY <1>4, <1>5, <1>7, <1>10

(* What has a meaning is well formed. *)
Meant(s) == M(s).ok => WellNested(s) /\ NoneMissing(s) /\ s # <<>>

LEMMA MeantSplit ==
  ASSUME NEW s \in Texts, \A r \in Texts : Len(r) < Len(s) => Meant(r),
         NEW m \in 1..Len(s), s[m].kind \in Operators, Level(s, m) = 0,
         Split(Meaning, s, m).ok
  PROVE  WellNested(s) /\ NoneMissing(s)
<1> DEFINE l == Part(s, 1, m - 1)
           r == Part(s, m + 1, Len(s))
<1>1. Len(s) \in Nat /\ m \in 1..Len(s) + 1 /\ m \in 0..Len(s)
  BY TextType
<1>2. PartOf(l, s, 0) /\ Len(l) = m - 1 /\ PartOf(r, s, m) /\ Len(r) = Len(s) - m
  BY <1>1, BeforePart, AfterPart
<1>3. l \in Texts /\ r \in Texts
  BY <1>2 DEF PartOf
<1>4. Split(Meaning, s, m) = Apply(s[m].kind, M(l), M(r))
  BY DEF Split, M
<1>5. (WellNested(s) /\ Level(s, m) = 0) <=> (WellNested(l) /\ WellNested(r))
  BY WellNestedParts
<1> HIDE DEF l, r
<1>6. M(l).ok /\ M(r).ok
  BY <1>3, <1>4, MIs, ApplyType
<1>7. Meant(l) /\ Meant(r)
  BY <1>1, <1>2, <1>3
<1>8. WellNested(l) /\ WellNested(r) /\ NoneMissing(l) /\ NoneMissing(r)
  BY <1>6, <1>7 DEF Meant
<1>9. NoneMissing(s)
  <2>1. ASSUME NEW k \in 1..Len(s) - 1, s[k].kind \in Plain \cup {")"}, s[k + 1].kind \in Plain \cup Opening
        PROVE  FALSE
    <3>1. s[m].kind \notin Plain \cup {")"} \cup Opening
      BY DEF Operators, Plain, Opening, Calls
    <3>2. k # m /\ k + 1 # m
      BY <2>1, <3>1
    <3>3. CASE k + 1 < m
      <4>1. k \in 1..Len(l) /\ k + 1 \in 1..Len(l) /\ k \in 1..Len(l) - 1 /\ 0 + k = k /\ 0 + (k + 1) = k + 1
        BY <1>1, <1>2, <3>3
      <4>2. l[k] = s[k] /\ l[k + 1] = s[k + 1]
        BY <1>2, <4>1 DEF PartOf
      <4> QED
        BY <1>8, <2>1, <4>1, <4>2 DEF NoneMissing
    <3>4. CASE k > m
      <4> DEFINE q == k - m
      <4>1. q \in 1..Len(r) /\ q + 1 \in 1..Len(r) /\ q \in 1..Len(r) - 1 /\ m + q = k /\ m + (q + 1) = k + 1
        BY <1>1, <1>2, <3>4
      <4> HIDE DEF q
      <4>2. r[q] = s[k] /\ r[q + 1] = s[k + 1]
        BY <1>2, <4>1 DEF PartOf
      <4> QED
        BY <1>8, <2>1, <4>1, <4>2 DEF NoneMissing
    <3> QED
      BY <1>1, <3>2, <3>3, <3>4
  <2> QED
    BY <2>1 DEF NoneMissing
<1> QED
  BY <1>5, <1>8, <1>9

LEMMA MNothing == ASSUME NEW s \in Texts, M(s).ok PROVE s # <<>> /\ Level(s, Len(s)) = 0 /\ Len(s) # 0
<1>1. M(s) = Parse(Meaning, s)
  BY MIs, MType
<1>2. s # <<>> /\ Depth(s, 1, Len(s)) = 0
  BY <1>1, FailType DEF Parse
<1>3. Len(s) # 0
  BY <1>2 DEF Texts
<1> QED
  BY <1>2, <1>3 DEF Level

LEMMA MeantAll == \A s \in Texts : Meant(s)
<1> DEFINE G == {s \in Texts : Meant(s)}
<1>1. ASSUME NEW s \in Texts, \A r \in Texts : Len(r) < Len(s) => r \in G
      PROVE  s \in G
  <2>1. \A r \in Texts : Len(r) < Len(s) => Meant(r)
    BY <1>1
  <2> HIDE DEF G
  <2> SUFFICES ASSUME M(s).ok PROVE WellNested(s) /\ NoneMissing(s) /\ s # <<>>
    BY DEF G, Meant
  <2>2. s # <<>> /\ Level(s, Len(s)) = 0 /\ Len(s) # 0
    BY MNothing
  <2>3. Len(s) \in Nat
    BY TextType
  <2>4. ASSUME NEW ops, ops \subseteq Operators, Outside(s, ops) # {},
               NEW m \in {Max(Outside(s, ops)), Min(Outside(s, ops))},
               Meaning[s] = Split(Meaning, s, m)
        PROVE  WellNested(s) /\ NoneMissing(s)
    <3>1. m \in 1..Len(s) /\ s[m].kind \in Operators /\ Level(s, m) = 0
      BY <2>4, OutsideType
    <3>2. Split(Meaning, s, m).ok
      BY <2>4 DEF M
    <3> QED
      BY <2>1, <3>1, <3>2, MeantSplit
  <2>5. {"+", "-"} \subseteq Operators /\ {"*", "/"} \subseteq Operators /\ {"^"} \subseteq Operators
    BY DEF Operators
  <2>6. CASE Outside(s, {"+", "-"}) # {}
    <3>1. Meaning[s] = Split(Meaning, s, Max(Outside(s, {"+", "-"})))
      BY <2>2, <2>6, ParseSplit
    <3> QED
      BY <2>2, <2>4, <2>5, <2>6, <3>1
  <2>7. CASE Outside(s, {"+", "-"}) = {} /\ Outside(s, {"*", "/"}) # {}
    <3>1. Meaning[s] = Split(Meaning, s, Max(Outside(s, {"*", "/"})))
      BY <2>2, <2>7, ParseSplit
    <3> QED
      BY <2>2, <2>4, <2>5, <2>7, <3>1
  <2>8. CASE Outside(s, {"+", "-"}) = {} /\ Outside(s, {"*", "/"}) = {} /\ Outside(s, {"^"}) # {}
    <3>1. Meaning[s] = Split(Meaning, s, Min(Outside(s, {"^"})))
      BY <2>2, <2>8, ParseSplit
    <3> QED
      BY <2>2, <2>4, <2>5, <2>8, <3>1
  <2>9. CASE NoOperator(s) /\ Len(s) = 1
    <3>1. \A k \in 1..Len(s) - 1 : FALSE
      BY <2>9
    <3>2. NoneMissing(s)
      BY <3>1 DEF NoneMissing
    <3>3. \A k \in 0..1 : k = 0 \/ k = 1
      OBVIOUS
    <3>4. WellNested(s)
      BY <2>2, <2>9, <3>3, LevelZero DEF WellNested
    <3> QED
      BY <2>2, <3>2, <3>4
  <2>10. CASE NoOperator(s) /\ Len(s) # 1
    <3> DEFINE p == Part(s, 2, Len(s) - 1)
    <3>1. Len(s) >= 2
      <4>1. \A n \in Nat : n # 0 /\ n # 1 => n >= 2
        OBVIOUS
      <4> QED
        BY <2>2, <2>3, <2>10, <4>1
    <3>2. Meaning[s] = IF ~Enclosed(s) THEN Fail
                       ELSE IF s[1].kind = "(" THEN Meaning[p] ELSE Call(s[1].kind, Meaning[p])
      BY <2>2, <2>10, ParseSplit
    <3>3. Enclosed(s)
      BY <3>2, FailType DEF M
    <3>4. s[1].kind \in Opening /\ s[Len(s)].kind = ")" /\ WellNested(s)
      BY <2>2, <3>1, <3>3, EnclosedEnds
    <3>5. PartOf(p, s, 1) /\ Len(p) = Len(s) - 2
      BY <3>1, InsidePart
    <3> HIDE DEF p
    <3>6. p \in Texts /\ Len(p) < Len(s)
      BY <2>3, <3>5 DEF PartOf
    <3>7. M(p).ok
      BY <3>2, <3>3, <3>6, MIs, CallType DEF M
    <3>8. NoneMissing(p)
      BY <2>1, <3>6, <3>7 DEF Meant
    <3>9. NoneMissing(s)
      <4>1. ASSUME NEW k \in 1..Len(s) - 1, s[k].kind \in Plain \cup {")"}, s[k + 1].kind \in Plain \cup Opening
            PROVE  FALSE
        <5>1. s[1].kind \notin Plain \cup {")"} /\ s[Len(s)].kind \notin Plain \cup Opening
          BY <3>4 DEF Plain, Opening, Calls
        <5>2. k # 1 /\ k + 1 # Len(s)
          BY <4>1, <5>1
        <5> DEFINE q == k - 1
        <5>3. q \in 1..Len(p) /\ q + 1 \in 1..Len(p) /\ q \in 1..Len(p) - 1 /\ 1 + q = k /\ 1 + (q + 1) = k + 1
          BY <2>3, <3>1, <3>5, <5>2
        <5> HIDE DEF q
        <5>4. p[q] = s[k] /\ p[q + 1] = s[k + 1]
          BY <3>5, <5>3 DEF PartOf
        <5> QED
          BY <3>8, <4>1, <5>3, <5>4 DEF NoneMissing
      <4> QED
        BY <4>1 DEF NoneMissing
    <3> QED
      BY <2>2, <3>4, <3>9
  <2> QED
    BY <2>2, <2>6, <2>7, <2>8, <2>9, <2>10 DEF NoOperator
<1>2. \A s \in Texts : s \in G
  <2> HIDE DEF G
  <2> QED
    BY <1>1, TextInduction
<1> QED
  BY <1>2

(* A text with the number n in the place of the call. *)
LEMMA ContractExists ==
  ASSUME NEW s \in Texts, NEW i, NEW j, CallBlock(s, i, j), NEW n \in Int
  PROVE  \E t \in Texts : Contracts(s, t, i, j, n)
<1> DEFINE c == Len(s) - (j - i)
           t == [k \in 1..c |-> IF k < i THEN s[k] ELSE IF k = i THEN Decimal(n) ELSE s[k + (j - i)]]
<1>1. /\ Len(s) \in Nat /\ i \in Int /\ j \in Int /\ i >= 1 /\ i < j /\ j <= Len(s) /\ c \in Nat
  BY TextType DEF CallBlock
<1>2. \A k \in 1..Len(s) : s[k] \in Tokens
  BY TextType
<1>3. Decimal(n) \in Tokens
  BY DEF Decimal, Tokens
<1>4. \A k \in 1..c : t[k] \in Tokens
  <2> TAKE k \in 1..c
  <2>1. k < i => k \in 1..Len(s)
    BY <1>1
  <2>2. k > i => k + (j - i) \in 1..Len(s)
    BY <1>1
  <2>3. k < i \/ k = i \/ k > i
    BY <1>1
  <2> QED
    BY <1>1, <1>2, <1>3, <2>1, <2>2, <2>3
<1> HIDE DEF c
<1>5. t \in [1..c -> Tokens]
  BY <1>4
<1>6. t \in Seq(Tokens) /\ Len(t) = c
  <2> HIDE DEF t
  <2>1. t \in Seq(Tokens)
    BY <1>1, <1>5, IsASeq
  <2>2. DOMAIN t = 1..c
    BY <1>5
  <2>3. DOMAIN t = 1..Len(t) /\ Len(t) \in Nat
    BY <2>1, LenProperties
  <2> QED
    BY <1>1, <2>1, <2>2, <2>3
<1>7. t[i] = Decimal(n)
  <2>1. i \in 1..c /\ ~(i < i)
    BY <1>1 DEF c
  <2> QED
    BY <2>1
<1>8. \A k \in 1..i - 1 : t[k] = s[k]
  <2> TAKE k \in 1..i - 1
  <2>1. k \in 1..c /\ k < i
    BY <1>1 DEF c
  <2> QED
    BY <2>1
<1>9. \A k \in i + 1..c : t[k] = s[k + (j - i)]
  <2> TAKE k \in i + 1..c
  <2>1. k \in 1..c /\ ~(k < i) /\ k # i
    BY <1>1
  <2> QED
    BY <2>1
<1> HIDE DEF t
<1>10. Contracts(s, t, i, j, n)
  BY <1>6, <1>7, <1>8, <1>9 DEF Contracts, c
<1> QED
  BY <1>6, <1>10 DEF Texts

(* Without parentheses in a call, what closes it is the first ")". *)
LEMMA FirstCloseMatches ==
  ASSUME NEW s \in Texts, WellNested(s), ~Crowded(s), NEW f \in Calls,
         f = "abs(" => "sqrt(" \notin Kinds(s),
         NEW i \in 1..Len(s), s[i].kind = f
  PROVE  CallBlock(s, i, FirstClose(s, i))
<1> DEFINE j == FirstClose(s, i)
           S == {Len(s) + 1} \cup {k \in i..Len(s) : s[k].kind = ")"}
<1>1. Len(s) \in Nat
  BY TextType
<1>2. DOMAIN s = 1..Len(s)
  BY TextType
<1>3. j = Min(S)
  BY DEF FirstClose
<1>4. S \subseteq Nat /\ S # {}
  BY <1>1
<1>5. Min(S) \in S /\ \A x \in S : Min(S) <= x
  <2> HIDE DEF S
  <2> QED
    BY <1>4, LeastNumber
<1>6. j \in i..Len(s) + 1 /\ (j # Len(s) + 1 => s[j].kind = ")")
  BY <1>1, <1>3, <1>5
<1>7. ASSUME NEW k \in i..Len(s), k < j PROVE s[k].kind # ")"
  <2>1. \A x \in S : j <= x
    BY <1>3, <1>5
  <2>2. ~(j <= k)
    BY <1>1, <1>6, <1>7
  <2> QED
    BY <2>1, <2>2
<1> HIDE DEF j, S
<1>8. Level(s, i) = Level(s, i - 1) + 1 /\ Level(s, i - 1) >= 0 /\ Level(s, i - 1) \in Int
  <2>1. s[i].kind \in Opening /\ i \in Int /\ 1 <= i /\ i - 1 \in 0..Len(s)
    BY <1>1 DEF Opening
  <2> QED
    BY <2>1, OpeningStep DEF WellNested
<1>9. ASSUME NEW k \in i..j - 1 PROVE Level(s, k) >= Level(s, i) /\ Level(s, k) \in Int
  <2>1. \A x \in i + 1..k : s[x].kind # ")"
    BY <1>1, <1>6, <1>7, SMTT(30)
  <2>2. k \in Nat /\ i \in Nat /\ i <= k
    BY <1>1, <1>6
  <2>3. Level(s, i) <= Level(s, k) /\ Level(s, i) \in Int /\ Level(s, k) \in Int
    BY <2>1, <2>2, Rises, LevelType
  <2> QED
    BY <2>3
<1>10. j <= Len(s)
  <2> SUFFICES ASSUME j = Len(s) + 1 PROVE FALSE
    BY <1>1, <1>6
  <2>1. Len(s) \in i..j - 1
    BY <1>1
  <2> QED
    BY <1>8, <1>9, <2>1 DEF WellNested
<1>11. s[j].kind = ")" /\ j # i /\ j \in i + 1..Len(s)
  <2>1. s[j].kind = ")"
    BY <1>1, <1>6, <1>10
  <2>2. j # i
    BY <2>1 DEF Calls
  <2> QED
    BY <1>1, <1>6, <1>10, <2>1, <2>2
<1>12. ASSUME NEW k \in i + 1..j - 1 PROVE s[k].kind \notin Opening
  <2> SUFFICES ASSUME s[k].kind \in Opening PROVE FALSE
    OBVIOUS
  <2>1. k \in 1..Len(s) /\ i < k
    BY <1>1, <1>11
  <2>2. Above(s, i, k)
    <3>1. \A x \in i..k : x \in i..j - 1
      BY <1>1, <1>11
    <3> QED
      BY <1>9, <3>1 DEF Above
  <2>3. ~(s[i].kind = "abs(" /\ s[k].kind = "sqrt(")
    BY <1>2, <2>1 DEF Kinds
  <2> QED
    BY <2>1, <2>2, <2>3 DEF Crowded
<1>13. Level(s, j - 1) = Level(s, i)
  <2>1. j - 1 \in i..j - 1 /\ j - 1 \in Nat /\ i \in Nat /\ i <= j - 1
    BY <1>1, <1>11
  <2>2. Level(s, j - 1) <= Level(s, i)
    BY <1>12, <2>1, Falls
  <2> QED
    BY <1>8, <1>9, <2>1, <2>2
<1>14. Level(s, j) = Level(s, i - 1)
  <2>1. Level(s, j) = Level(s, j - 1) + Weight(s[j]) /\ Weight(s[j]) = -1
    BY <1>1, <1>11, LevelStep DEF Weight, Opening, Calls
  <2> QED
    BY <1>8, <1>13, <2>1
<1>15. \A k \in i..j - 1 : Level(s, k) > Level(s, i - 1)
  BY <1>8, <1>9
<1> QED
  BY <1>11, <1>14, <1>15 DEF CallBlock, j

(* A call of a text that has a meaning has one itself. *)
LEMMA ValueOk ==
  ASSUME NEW s \in Texts, M(s).ok, NEW i, NEW j, CallBlock(s, i, j)
  PROVE  /\ Value(s, i, j) \in Result /\ Value(s, i, j).ok /\ M(Part(s, i + 1, j - 1)).ok
         /\ j >= i + 2
<1> DEFINE arg == Part(s, i + 1, j - 1)
<1>1. /\ Len(s) \in Nat /\ i \in 1..Len(s) /\ j \in i + 1..Len(s) /\ i \in Nat /\ j \in Nat
  BY TextType DEF CallBlock
<1>2. i \in 0..Len(s) /\ j \in i + 1..Len(s) + 1 /\ 0 \in Int
  BY <1>1
<1>3. PICK t \in Texts : Contracts(s, t, i, j, 0)
  BY <1>2, ContractExists
<1>4. WellNested(s)
  BY MeantAll DEF Meant
<1>5. Same(Value(s, i, j), 0, Meaning[s], Meaning[t])
  BY <1>1, <1>2, <1>3, <1>4, ReplacedAll DEF Replaced
<1>6. Value(s, i, j).ok
  BY <1>5 DEF Same, M
<1>7. arg \in Texts /\ Len(arg) = j - i - 1
  BY <1>2, Between
<1>8. Value(s, i, j) = Call(s[i].kind, M(arg))
  BY DEF Value, M
<1> HIDE DEF arg
<1>9. M(arg) \in Result
  BY <1>7, MIs
<1>10. Value(s, i, j) \in Result /\ M(arg).ok
  BY <1>6, <1>8, <1>9, CallType
<1>11. Len(arg) # 0
  BY <1>7, <1>10, MNothing
<1>12. j >= i + 2
  BY <1>1, <1>7, <1>11
<1> QED
  BY <1>6, <1>10, <1>12 DEF arg

(* What has a meaning and none of the shapes in the way is answered. *)
Complete(s) == M(s).ok /\ ~Chain(s) /\ ~Crowded(s) /\ ~Pairs(s) => N(s).ok

(* A part that is answered is answered rightly. *)
LEMMA CompletePart ==
  ASSUME NEW s \in Texts, NEW p, NEW a, PartOf(p, s, a), Complete(p),
         M(p).ok, ~Chain(s), ~Crowded(s), ~Pairs(s)
  PROVE  N(p).ok /\ N(p) = M(p)
<1>1. p \in Texts
  BY DEF PartOf
<1>2. ~Chain(p) /\ ~Crowded(p) /\ ~Pairs(p)
  BY PartInherits
<1>3. N(p).ok
  BY <1>2 DEF Complete
<1>4. NoneMissing(p)
  BY <1>1, MeantAll DEF Meant
<1> QED
  BY <1>1, <1>2, <1>3, <1>4, RightAll DEF Right

LEMMA CompleteCall ==
  ASSUME NEW s \in Texts, \A r \in Texts : Len(r) < Len(s) => Complete(r),
         M(s).ok, ~Chain(s), ~Crowded(s), ~Pairs(s),
         NEW f \in Calls, f \in Kinds(s), f = "abs(" => "sqrt(" \notin Kinds(s)
  PROVE  EvaluateCall(EvaluateNumericExpression, s, f).ok
<1> DEFINE i == Min(Matches(s, f))
           j == FirstClose(s, i)
           arg == Part(s, i + 1, j - 1)
           v == Call(f, N(arg))
           t == Replace(s, f, v.n)
<1>0. DOMAIN s = 1..Len(s)
  BY TextType
<1>1. Len(s) \in Nat
  BY TextType
<1>2. WellNested(s) /\ NoneMissing(s)
  BY MeantAll DEF Meant
<1>3. Matches(s, f) # {}
  <2>1. PICK x \in 1..Len(s) : s[x].kind = f
    BY <1>0 DEF Kinds
  <2>2. CallBlock(s, x, FirstClose(s, x))
    BY <1>2, <2>1, FirstCloseMatches
  <2>3. FirstClose(s, x) >= x + 2
    BY <2>2, ValueOk
  <2>4. FirstClose(s, x) \in x + 2..Len(s)
    BY <1>1, <2>2, <2>3 DEF CallBlock
  <2>5. x \in Matches(s, f)
    BY <1>0, <2>1, <2>4 DEF Matches
  <2> QED
    BY <2>5
<1>4. i \in 1..Len(s) /\ s[i].kind = f
  BY <1>3, MatchType
<1>5. CallBlock(s, i, j)
  <2> HIDE DEF i
  <2> QED
    BY <1>2, <1>4, FirstCloseMatches
<1>6. Value(s, i, j) \in Result /\ Value(s, i, j).ok /\ M(arg).ok
  <2> HIDE DEF i, j
  <2> QED
    BY <1>5, ValueOk
<1>7. Argument(s, f) = arg
  BY DEF Argument
<1>8. EvaluateCall(EvaluateNumericExpression, s, f) = IF v.ok THEN N(t) ELSE Fail
  BY <1>3, <1>7 DEF EvaluateCall, N
<1>9. PartOf(arg, s, i) /\ Len(arg) = j - i - 1 /\ j \in i + 1..Len(s) /\ i \in Nat /\ j \in Nat
  <2> HIDE DEF i, j
  <2>1. j \in i + 1..Len(s)
    BY <1>5 DEF CallBlock
  <2>2. i \in 0..Len(s) /\ j \in i + 1..Len(s) + 1 /\ i \in Nat /\ j \in Nat
    BY <1>1, <1>4, <2>1
  <2> QED
    BY <2>1, <2>2, BetweenPart
<1>10. Value(s, i, j) = Call(f, M(arg))
  BY <1>4 DEF Value, M
<1> HIDE DEF arg
<1>11. arg \in Texts /\ Len(arg) < Len(s)
  <2> HIDE DEF i, j
  <2> QED
    BY <1>1, <1>9 DEF PartOf
<1>12. N(arg) = M(arg)
  <2> HIDE DEF i, j
  <2> QED
    BY <1>6, <1>9, <1>11, CompletePart
<1>13. v = Value(s, i, j)
  BY <1>10, <1>12
<1> HIDE DEF v
<1>14. v = Ok(v.n) /\ v.n \in Int /\ v.ok
  BY <1>6, <1>13, OkIs
<1>15. t \in Texts /\ Len(t) < Len(s)
  BY <1>3, <1>14, ReplaceType
<1>16. Contracts(s, t, i, j, v.n)
  BY <1>2, <1>3, <1>14, ReplaceContracts
<1> HIDE DEF i, j, t
<1>17. Same(Value(s, i, j), v.n, Meaning[s], Meaning[t])
  BY <1>2, <1>5, <1>9, <1>14, <1>15, <1>16, ReplacedAll DEF Replaced
<1>18. M(t).ok
  BY <1>13, <1>14, <1>17 DEF Same, M
<1>19. ~Chain(t) /\ ~Crowded(t) /\ ~Pairs(t)
  BY <1>5, <1>15, <1>16, ContractInherits
<1>20. N(t).ok
  BY <1>15, <1>18, <1>19 DEF Complete
<1> QED
  BY <1>8, <1>14, <1>20

LEMMA CompleteSplit ==
  ASSUME NEW s \in Texts, \A r \in Texts : Len(r) < Len(s) => Complete(r),
         ~Chain(s), ~Crowded(s), ~Pairs(s),
         NEW m \in 1..Len(s), s[m].kind \in Operators, Split(Meaning, s, m).ok
  PROVE  Split(EvaluateNumericExpression, s, m).ok
<1> DEFINE l == Part(s, 1, m - 1)
           r == Part(s, m + 1, Len(s))
<1>1. Len(s) \in Nat /\ m \in 1..Len(s) + 1 /\ m \in 0..Len(s)
  BY TextType
<1>2. PartOf(l, s, 0) /\ Len(l) = m - 1 /\ PartOf(r, s, m) /\ Len(r) = Len(s) - m
  BY <1>1, BeforePart, AfterPart
<1>3. l \in Texts /\ r \in Texts
  BY <1>2 DEF PartOf
<1>4. /\ Split(Meaning, s, m) = Apply(s[m].kind, M(l), M(r))
      /\ Split(EvaluateNumericExpression, s, m) = Apply(s[m].kind, N(l), N(r))
  BY DEF Split, M, N
<1> HIDE DEF l, r
<1>5. M(l).ok /\ M(r).ok
  BY <1>3, <1>4, MIs, ApplyType
<1>6. Complete(l) /\ Complete(r)
  BY <1>1, <1>2, <1>3
<1>7. N(l) = M(l) /\ N(r) = M(r)
  BY <1>2, <1>5, <1>6, CompletePart
<1> QED
  BY <1>4, <1>7

(* Parentheses around a text that are not each other's are of two pairs. *)
LEMMA NotEnclosed ==
  ASSUME NEW s \in Texts, WellNested(s), Len(s) >= 2, s[1].kind = "(", s[Len(s)].kind = ")",
         ~Enclosed(s), "sqrt(" \notin Kinds(s), "abs(" \notin Kinds(s)
  PROVE  Pairs(s)
<1>0. DOMAIN s = 1..Len(s)
  BY TextType
<1>1. Len(s) \in Nat
  BY TextType
<1>2. PICK k \in 1..Len(s) - 1 : Level(s, k) = 0
  <2>1. PICK k \in 1..Len(s) - 1 : ~(Level(s, k) > 0)
    BY DEF Enclosed, Level
  <2>2. k \in 0..Len(s) /\ Level(s, k) \in Int
    BY <1>1, LevelType
  <2> QED
    BY <2>1, <2>2 DEF WellNested
<1>3. PICK y \in 2..k : s[y].kind = ")"
  <2> SUFFICES ASSUME \A y \in 1 + 1..k : s[y].kind # ")" PROVE FALSE
    OBVIOUS
  <2>1. Level(s, 1) <= Level(s, k)
    BY <1>1, Rises
  <2>2. Level(s, 1) = Level(s, 1 - 1) + Weight(s[1]) /\ Level(s, 1 - 1) = 0 /\ Weight(s[1]) = 1
    BY LevelStep, LevelZero DEF Weight, Opening
  <2> QED
    BY <1>2, <2>1, <2>2
<1>4. PICK z \in k + 1..Len(s) - 1 : s[z].kind \in Opening
  <2> SUFFICES ASSUME \A z \in k + 1..Len(s) - 1 : s[z].kind \notin Opening PROVE FALSE
    OBVIOUS
  <2>1. k \in Nat /\ Len(s) - 1 \in Nat /\ k <= Len(s) - 1
    BY <1>1
  <2>2. Level(s, Len(s) - 1) <= Level(s, k)
    BY <2>1, Falls
  <2>3. Level(s, Len(s)) = Level(s, Len(s) - 1) - 1
    BY <1>1, ClosingStep
  <2>4. Level(s, Len(s)) = 0 /\ Level(s, Len(s) - 1) \in Int
    BY <2>1, LevelType DEF WellNested
  <2> QED
    BY <1>2, <2>2, <2>3, <2>4
<1>5. y \in 1..Len(s) /\ z \in 1..Len(s) /\ 1 \in 1..Len(s) /\ Len(s) \in 1..Len(s)
      /\ 1 < y /\ y < z /\ z < Len(s)
  BY <1>1
<1>6. s[z].kind = "("
  <2>1. s[z].kind \in Kinds(s)
    BY <1>0, <1>5 DEF Kinds
  <2> QED
    BY <1>4, <2>1 DEF Opening, Calls
<1> QED
  BY <1>3, <1>5, <1>6 DEF Pairs

LEMMA CompleteAll == \A s \in Texts : Complete(s)
<1> DEFINE G == {s \in Texts : Complete(s)}
           E == EvaluateNumericExpression
<1>1. ASSUME NEW s \in Texts, \A r \in Texts : Len(r) < Len(s) => r \in G
      PROVE  s \in G
  <2>1. \A r \in Texts : Len(r) < Len(s) => Complete(r)
    BY <1>1
  <2> HIDE DEF G
  <2> SUFFICES ASSUME M(s).ok, ~Chain(s), ~Crowded(s), ~Pairs(s) PROVE N(s).ok
    BY DEF G, Complete
  <2>2. N(s) = EvaluateText(E, s)
    BY NIs
  <2>3. Len(s) \in Nat
    BY TextType
  <2>4. s # <<>> /\ Level(s, Len(s)) = 0 /\ Len(s) # 0 /\ WellNested(s)
    BY MNothing, MeantAll DEF Meant
  <2>5. CASE "sqrt(" \in Kinds(s)
    <3>1. N(s) = EvaluateCall(E, s, "sqrt(") /\ "sqrt(" \in Calls
      BY <2>2, <2>5 DEF EvaluateText, Calls
    <3> QED
      BY <2>1, <2>5, <3>1, CompleteCall
  <2>6. CASE "sqrt(" \notin Kinds(s) /\ "abs(" \in Kinds(s)
    <3>1. N(s) = EvaluateCall(E, s, "abs(") /\ "abs(" \in Calls
      BY <2>2, <2>6 DEF EvaluateText, Calls
    <3> QED
      BY <2>1, <2>6, <3>1, CompleteCall
  <2>7. CASE "sqrt(" \notin Kinds(s) /\ "abs(" \notin Kinds(s)
    <3>1. Len(s) # 1 => Len(s) >= 2
      <4>1. \A n \in Nat : n # 0 /\ n # 1 => n >= 2
        OBVIOUS
      <4> QED
        BY <2>3, <2>4, <4>1
    <3> DEFINE p == Part(s, 2, Len(s) - 1)
    <3>2. Len(s) # 1 /\ NoOperator(s) =>
            Meaning[s] = IF ~Enclosed(s) THEN Fail
                         ELSE IF s[1].kind = "(" THEN Meaning[p] ELSE Call(s[1].kind, Meaning[p])
      BY <2>4, ParseSplit
    <3>3. CASE s # <<>> /\ Head(s).kind = "(" /\ Last(s).kind = ")"
      <4>1. N(s) = N(p)
        BY <2>2, <2>7, <3>3 DEF EvaluateText, N
      <4>2. Len(s) >= 2 /\ s[1].kind = "(" /\ s[Len(s)].kind = ")"
        BY <3>3, Bracketed
      <4>3. PartOf(p, s, 1) /\ Len(p) = Len(s) - 2
        BY <4>2, InsidePart
      <4> HIDE DEF p
      <4>4. Enclosed(s)
        BY <2>4, <2>7, <4>2, NotEnclosed
      <4>5. NoOperator(s)
        BY <2>4, <4>2, <4>4, EnclosedEnds
      <4>6. M(p).ok
        <5>1. Len(s) # 1
          BY <4>2
        <5> QED
          BY <3>2, <4>2, <4>4, <4>5, <5>1 DEF M
      <4>7. p \in Texts /\ Len(p) < Len(s)
        BY <2>3, <4>3 DEF PartOf
      <4>8. N(p).ok
        BY <2>1, <4>3, <4>6, <4>7, CompletePart
      <4> QED
        BY <4>1, <4>8
    <3>4. CASE ~(s # <<>> /\ Head(s).kind = "(" /\ Last(s).kind = ")")
      <4> DEFINE a == FindOperator(s, {"+", "-"})
                 b == FindOperator(s, {"*", "/"})
                 c == FindOperator(s, {"^"})
      <4>1. N(s) = IF a # 0 THEN Split(E, s, a) ELSE IF b # 0 THEN Split(E, s, b)
                   ELSE IF c # 0 THEN Split(E, s, c)
                   ELSE IF Len(s) = 1 /\ IsNumber(s[1]) THEN Ok(s[1].n) ELSE Fail
        BY <2>2, <2>7, <3>4 DEF EvaluateText
      <4>2. /\ a # 0 => a \in 1..Len(s) /\ s[a].kind \in Operators
            /\ b # 0 => b \in 1..Len(s) /\ s[b].kind \in Operators
            /\ c # 0 => c \in 1..Len(s) /\ s[c].kind \in Operators
        BY FindType DEF Operators
      <4>3. /\ a = 0 <=> Outside(s, {"+", "-"}) = {}
            /\ a # 0 => a = Max(Outside(s, {"+", "-"}))
            /\ b = 0 <=> Outside(s, {"*", "/"}) = {}
            /\ b # 0 => b = Max(Outside(s, {"*", "/"}))
            /\ c = 0 <=> Outside(s, {"^"}) = {}
            /\ c # 0 => c = Max(Outside(s, {"^"}))
        BY <2>4, FindIsOutside
      <4> HIDE DEF a, b, c, p
      <4>4. CASE a # 0
        <5>1. Meaning[s] = Split(Meaning, s, a)
          BY <2>4, <4>3, <4>4, ParseSplit
        <5>2. Split(Meaning, s, a).ok
          BY <5>1 DEF M
        <5> QED
          BY <2>1, <4>1, <4>2, <4>4, <5>2, CompleteSplit
      <4>5. CASE a = 0 /\ b # 0
        <5>1. Meaning[s] = Split(Meaning, s, b)
          BY <2>4, <4>3, <4>5, ParseSplit
        <5>2. Split(Meaning, s, b).ok
          BY <5>1 DEF M
        <5> QED
          BY <2>1, <4>1, <4>2, <4>5, <5>2, CompleteSplit
      <4>6. CASE a = 0 /\ b = 0 /\ c # 0
        <5>1. Meaning[s] = Split(Meaning, s, Min(Outside(s, {"^"})))
          BY <2>4, <4>3, <4>6, ParseSplit
        <5>2. c = Min(Outside(s, {"^"}))
          BY <2>4, <4>3, <4>6, OnePower
        <5>3. Split(Meaning, s, c).ok
          BY <5>1, <5>2 DEF M
        <5> QED
          BY <2>1, <4>1, <4>2, <4>6, <5>3, CompleteSplit
      <4>7. CASE a = 0 /\ b = 0 /\ c = 0
        <5>1. NoOperator(s)
          BY <4>3, <4>7 DEF NoOperator
        <5>2. CASE Len(s) = 1
          <6>1. IsNumber(s[1]) /\ s[1].n \in Int
            BY <2>4, <5>1, <5>2, ParseSplit, FailType, TextType DEF M
          <6> QED
            BY <4>1, <4>7, <5>2, <6>1, OkType
        <5>3. CASE Len(s) # 1
          <6>1. Enclosed(s)
            BY <3>2, <5>1, <5>3, FailType DEF M
          <6>2. s[1].kind \in Opening /\ s[Len(s)].kind = ")"
            BY <2>4, <3>1, <5>3, <6>1, EnclosedEnds
          <6>3. s[1].kind = "("
            <7>1. 1 \in DOMAIN s
              BY <2>3, <2>4, TextType
            <7>2. s[1].kind \in Kinds(s)
              BY <7>1 DEF Kinds
            <7> QED
              BY <2>7, <6>2, <7>2 DEF Opening, Calls
          <6>4. Head(s) = s[1] /\ Last(s) = s[Len(s)]
            BY <2>4 DEF Texts, Last
          <6> QED
            BY <2>4, <3>4, <6>2, <6>3, <6>4
        <5> QED
          BY <5>2, <5>3
      <4> QED
        BY <4>4, <4>5, <4>6, <4>7
    <3> QED
      BY <3>3, <3>4
  <2> QED
    BY <2>5, <2>6, <2>7
<1>2. \A s \in Texts : s \in G
  <2> HIDE DEF G
  <2> QED
    BY <1>1, TextInduction
<1> QED
  BY <1>2

-----------------------------------------------------------------------------
(* The text a formula becomes *)

(* the values in place of the token t of a formula *)
Piece(t, vals) == IF t.kind \in Variables THEN Written(vals[t.kind]) ELSE <<t>>

FormulaTokens == [kind : Words \cup Variables, n : Int]

LEMMA FormulaType ==
  ASSUME NEW s \in Seq(FormulaTokens)
  PROVE  /\ s \in Texts
         /\ \A i \in 1..Len(s) : s[i].kind \in Words \cup Variables
<1>1. FormulaTokens \subseteq Tokens
  BY DEF FormulaTokens, Tokens
<1>2. \A i \in 1..Len(s) : s[i] \in FormulaTokens
  BY ElementOfSeq
<1>3. s \in Seq(Tokens)
  BY <1>1
<1> QED
  BY <1>2, <1>3 DEF Texts, FormulaTokens

LEMMA PieceType ==
  ASSUME NEW t \in FormulaTokens, NEW vals \in [Variables -> Int]
  PROVE  /\ Piece(t, vals) \in Seq(Tokens)
         /\ t.kind \in Variables /\ vals[t.kind] < 0 =>
               Piece(t, vals) = <<Token("-"), Decimal(-vals[t.kind])>>
         /\ t.kind \in Variables /\ ~(vals[t.kind] < 0) => Piece(t, vals) = <<Decimal(vals[t.kind])>>
         /\ t.kind \notin Variables => Piece(t, vals) = <<t>>
<1>1. t.kind \in Variables => vals[t.kind] \in Int
  OBVIOUS
<1>2. t \in Tokens
  BY DEF FormulaTokens, Tokens
<1>3. \A n \in Int : Decimal(n) \in Tokens
  BY DEF Decimal, Tokens
<1>4. Token("-") \in Tokens
  BY DEF Token, Tokens, Words, Operators
<1>5. /\ t.kind \in Variables /\ vals[t.kind] < 0 =>
               Piece(t, vals) = <<Token("-"), Decimal(-vals[t.kind])>>
      /\ t.kind \in Variables /\ ~(vals[t.kind] < 0) => Piece(t, vals) = <<Decimal(vals[t.kind])>>
      /\ t.kind \notin Variables => Piece(t, vals) = <<t>>
  BY DEF Piece, Written
<1>6. Piece(t, vals) \in Seq(Tokens)
  <2>1. CASE t.kind \in Variables /\ vals[t.kind] < 0
    <3> DEFINE d == Decimal(-vals[t.kind])
    <3>1. d \in Tokens
      BY <1>1, <1>3, <2>1
    <3> HIDE DEF d
    <3>2. <<Token("-"), d>> \in Seq(Tokens)
      BY <1>4, <3>1
    <3> QED
      BY <1>5, <2>1, <3>2 DEF d
  <2>2. CASE t.kind \in Variables /\ ~(vals[t.kind] < 0)
    <3> DEFINE d == Decimal(vals[t.kind])
    <3>1. d \in Tokens
      BY <1>1, <1>3, <2>2
    <3> HIDE DEF d
    <3>2. <<d>> \in Seq(Tokens)
      BY <3>1
    <3> QED
      BY <1>5, <2>2, <3>2 DEF d
  <2>3. CASE t.kind \notin Variables
    BY <1>2, <1>5, <2>3
  <2> QED
    BY <2>1, <2>2, <2>3
<1> QED
  BY <1>5, <1>6

(* FlattenSeq joins the pieces one by one. *)
JoinedTo(seqs, g, i) == IF i = 1 THEN seqs[i] ELSE g[i - 1] \o seqs[i]

LEMMA FlattenExists ==
  ASSUME NEW n \in Nat, n # 0, NEW seqs \in [1..n -> Texts]
  PROVE  \E g \in [1..n -> Texts] : g = [i \in 1..n |-> JoinedTo(seqs, g, i)]
<1>1. ASSUME NEW g \in [1..n -> Texts], NEW i \in 1..n PROVE JoinedTo(seqs, g, i) \in Texts
  <2>1. i # 1 => i - 1 \in 1..n
    OBVIOUS
  <2>2. seqs[i] \in Seq(Tokens) /\ (i # 1 => g[i - 1] \in Seq(Tokens))
    BY <2>1 DEF Texts
  <2>3. i # 1 => g[i - 1] \o seqs[i] \in Seq(Tokens)
    BY <2>2, ConcatProperties
  <2> QED
    BY <2>2, <2>3 DEF JoinedTo, Texts
<1> DEFINE G == {m \in Nat : \E g \in [1..n -> Texts] :
                    \A i \in 1..n : i <= m => g[i] = JoinedTo(seqs, g, i)}
<1>2. 0 \in G
  <2>1. seqs \in [1..n -> Texts] /\ \A i \in 1..n : ~(i <= 0)
    OBVIOUS
  <2> QED
    BY <2>1
<1>3. ASSUME NEW m \in Nat, m \in G PROVE m + 1 \in G
  <2>1. PICK g \in [1..n -> Texts] : \A i \in 1..n : i <= m => g[i] = JoinedTo(seqs, g, i)
    BY <1>3
  <2> DEFINE h == [i \in 1..n |-> JoinedTo(seqs, g, i)]
  <2>2. h \in [1..n -> Texts] /\ \A i \in 1..n : h[i] = JoinedTo(seqs, g, i)
    BY <1>1
  <2> HIDE DEF h
  <2>3. ASSUME NEW i \in 1..n, i <= m + 1 PROVE h[i] = JoinedTo(seqs, h, i)
    <3>1. CASE i = 1
      BY <2>2, <3>1 DEF JoinedTo
    <3>2. CASE i # 1
      <4>1. i - 1 \in 1..n /\ i - 1 <= m
        BY <2>3, <3>2
      <4>2. h[i - 1] = g[i - 1]
        BY <2>1, <2>2, <4>1
      <4> QED
        BY <2>2, <3>2, <4>2 DEF JoinedTo
    <3> QED
      BY <3>1, <3>2
  <2> QED
    BY <2>2, <2>3
<1>4. \A m \in Nat : m \in G
  <2> HIDE DEF G
  <2> QED
    BY <1>2, <1>3, NumberInduction
<1>5. PICK g \in [1..n -> Texts] : \A i \in 1..n : i <= n => g[i] = JoinedTo(seqs, g, i)
  BY <1>4
<1>6. g = [i \in 1..n |-> JoinedTo(seqs, g, i)]
  BY <1>5
<1> QED
  BY <1>6

LEMMA FlattenIs ==
  ASSUME NEW n \in Nat, n # 0, NEW seqs \in [1..n -> Texts], seqs \in Seq(Texts), Len(seqs) = n
  PROVE  \E g \in [1..n -> Texts] :
            FlattenSeq(seqs) = g[n] /\ \A i \in 1..n : g[i] = JoinedTo(seqs, g, i)
<1> DEFINE f == CHOOSE g : g = [i \in 1..n |-> IF i = 1 THEN seqs[i] ELSE g[i - 1] \o seqs[i]]
<1>1. FlattenSeq(seqs) = f[n]
  BY DEF FlattenSeq
<1>2. PICK g \in [1..n -> Texts] : g = [i \in 1..n |-> JoinedTo(seqs, g, i)]
  BY FlattenExists
<1>3. g = [i \in 1..n |-> IF i = 1 THEN seqs[i] ELSE g[i - 1] \o seqs[i]]
  BY <1>2 DEF JoinedTo
<1>4. f = [i \in 1..n |-> IF i = 1 THEN seqs[i] ELSE f[i - 1] \o seqs[i]]
  BY <1>3
<1> HIDE DEF f
<1>5. \A i \in 1..n : f[i] = JoinedTo(seqs, f, i)
  BY <1>4 DEF JoinedTo
<1> DEFINE G == {m \in Nat : m \in 1..n => f[m] \in Texts}
<1>6. 0 \in G
  OBVIOUS
<1>7. ASSUME NEW m \in Nat, m \in G PROVE m + 1 \in G
  <2> SUFFICES ASSUME m + 1 \in 1..n PROVE f[m + 1] \in Texts
    OBVIOUS
  <2>1. seqs[m + 1] \in Seq(Tokens)
    BY DEF Texts
  <2>2. CASE m = 0
    BY <1>5, <2>2 DEF JoinedTo
  <2>3. CASE m # 0
    <3>1. m \in 1..n /\ (m + 1) - 1 = m /\ m + 1 # 1
      BY <2>3
    <3>2. f[m] \in Seq(Tokens)
      BY <1>7, <3>1 DEF Texts
    <3>3. f[m + 1] = f[m] \o seqs[m + 1]
      BY <1>5, <3>1 DEF JoinedTo
    <3> QED
      BY <2>1, <3>2, <3>3, ConcatProperties DEF Texts
  <2> QED
    BY <2>2, <2>3
<1>8. \A m \in Nat : m \in G
  <2> HIDE DEF G
  <2> QED
    BY <1>6, <1>7, NumberInduction
<1>9. f \in [1..n -> Texts]
  <2>1. \A m \in 1..n : f[m] \in Texts
    BY <1>8
  <2>2. f = [i \in 1..n |-> f[i]]
    BY <1>4
  <2> QED
    BY <2>1, <2>2
<1> QED
  BY <1>1, <1>5, <1>9

-----------------------------------------------------------------------------
(* The text with every value one number *)

LEMMA WordsApart ==
  /\ \A k \in Words : k \notin Variables /\ k # "dec" /\ k # "malformed"
  /\ "dec" \notin Variables /\ "malformed" \notin Variables
  /\ Operators \subseteq Words /\ Opening \subseteq Words /\ Calls \subseteq Opening
  /\ "(" \in Opening /\ ")" \in Words /\ "num" \in Words /\ "^" \in Operators
<1>1. \A k \in Words : k # "dec" /\ k # "malformed"
  BY DEF Words, Operators, Opening, Calls
<1>2. "(" \in Opening /\ ")" \in Words /\ "num" \in Words /\ "^" \in Operators
  BY DEF Words, Operators, Opening
<1>3. Operators \subseteq Words /\ Opening \subseteq Words /\ Calls \subseteq Opening
  BY DEF Words, Opening
<1> QED
  BY <1>1, <1>2, <1>3, FormulasAssumption

LEMMA WithType ==
  ASSUME NEW s \in Seq(FormulaTokens), NEW vals \in [Variables -> Int]
  PROVE  /\ With(s, vals) \in Texts /\ Len(With(s, vals)) = Len(s)
         /\ \A i \in 1..Len(s) :
               /\ s[i].kind \in Variables => With(s, vals)[i] = Decimal(vals[s[i].kind])
               /\ s[i].kind \notin Variables => With(s, vals)[i] = s[i]
<1> DEFINE w == With(s, vals)
           t == [i \in 1..Len(s) |-> IF s[i].kind \in Variables THEN Decimal(vals[s[i].kind]) ELSE s[i]]
<1>1. s \in Texts /\ Len(s) \in Nat /\ DOMAIN s = 1..Len(s) /\ \A i \in 1..Len(s) : s[i] \in Tokens
  BY FormulaType, TextType
<1>2. w = t
  BY <1>1 DEF With
<1>3. \A i \in 1..Len(s) : s[i].kind \in Variables => vals[s[i].kind] \in Int
  OBVIOUS
<1>4. \A n \in Int : Decimal(n) \in Tokens
  BY DEF Decimal, Tokens
<1>5. t \in [1..Len(s) -> Tokens]
  BY <1>1, <1>3, <1>4
<1>6. t \in Seq(Tokens) /\ Len(t) = Len(s)
  <2> HIDE DEF t
  <2>1. t \in Seq(Tokens)
    BY <1>1, <1>5, SeqDef
  <2>2. DOMAIN t = 1..Len(s)
    BY <1>5
  <2>3. DOMAIN t = 1..Len(t) /\ Len(t) \in Nat
    BY <2>1, LenProperties
  <2> QED
    BY <1>1, <2>1, <2>2, <2>3
<1> QED
  BY <1>2, <1>6 DEF Texts

(* A word stands where it stood. *)
LEMMA WithKinds ==
  ASSUME NEW s \in Seq(FormulaTokens), NEW vals \in [Variables -> Int], NEW i \in 1..Len(s)
  PROVE  /\ \A k \in Words : With(s, vals)[i].kind = k <=> s[i].kind = k
         /\ Weight(With(s, vals)[i]) = Weight(s[i])
<1> DEFINE w == With(s, vals)
<1>1. /\ s[i].kind \in Variables => w[i] = Decimal(vals[s[i].kind])
      /\ s[i].kind \notin Variables => w[i] = s[i]
  BY WithType
<1> HIDE DEF w
<1>2. s[i].kind \in Variables => w[i].kind = "dec"
  BY <1>1 DEF Decimal
<1>3. \A k \in Words : w[i].kind = k <=> s[i].kind = k
  BY <1>1, <1>2, WordsApart
<1>4. (w[i].kind \in Opening <=> s[i].kind \in Opening) /\ (w[i].kind = ")" <=> s[i].kind = ")")
  BY <1>3, WordsApart
<1>5. Weight(w[i]) = Weight(s[i])
  BY <1>4 DEF Weight
<1> QED
  BY <1>3, <1>5 DEF w

LEMMA WithLevels ==
  ASSUME NEW s \in Seq(FormulaTokens), NEW vals \in [Variables -> Int], NEW k \in 0..Len(s)
  PROVE  Level(With(s, vals), k) = Level(s, k)
<1> DEFINE w == With(s, vals)
           G == {m \in Nat : m <= Len(s) => Level(w, m) = Level(s, m)}
<1>1. Len(s) \in Nat
  BY FormulaType, TextType
<1>2. 0 \in G
  BY LevelZero
<1>3. ASSUME NEW m \in Nat, m \in G PROVE m + 1 \in G
  <2> SUFFICES ASSUME m + 1 <= Len(s) PROVE Level(w, m + 1) = Level(s, m + 1)
    OBVIOUS
  <2>1. m + 1 \in 1..Len(s) /\ m + 1 \in Int /\ 1 <= m + 1 /\ (m + 1) - 1 = m
    BY <1>1
  <2>2. Level(w, m) = Level(s, m)
    BY <1>1, <1>3
  <2>3. Weight(w[m + 1]) = Weight(s[m + 1])
    BY <2>1, WithKinds
  <2>4. Level(w, m + 1) = Level(w, m) + Weight(w[m + 1])
    BY <2>1, LevelStep
  <2>5. Level(s, m + 1) = Level(s, m) + Weight(s[m + 1])
    BY <2>1, LevelStep
  <2> QED
    BY <2>2, <2>3, <2>4, <2>5
<1>4. \A m \in Nat : m \in G
  <2> HIDE DEF G
  <2> QED
    BY <1>2, <1>3, NumberInduction
<1> QED
  BY <1>1, <1>4

(* The shapes of the formula are the shapes of that text. *)
LEMMA WithShapes ==
  ASSUME NEW vals \in [Variables -> Int], formula \in Seq(FormulaTokens)
  PROVE  /\ Chain(With(formula, vals)) => PowersChained
         /\ Crowded(With(formula, vals)) => ParenthesesInCall
         /\ Pairs(With(formula, vals)) => TwoPairs
<1> DEFINE w == With(formula, vals)
<1>1. /\ Len(formula) \in Nat /\ DOMAIN formula = 1..Len(formula) /\ Len(w) = Len(formula)
      /\ formula \in Texts
  BY FormulaType, TextType, WithType
<1>2. \A k \in 0..Len(formula) : Level(w, k) = Level(formula, k)
  BY WithLevels
<1>3. \A i \in 1..Len(formula) : \A k \in Words : w[i].kind = k <=> formula[i].kind = k
  BY WithKinds
<1> HIDE DEF w
<1>4. ASSUME NEW i \in 1..Len(formula), NEW k \in i..Len(formula)
      PROVE  /\ Depth(formula, i, k) = Level(w, k) - Level(w, i) + Weight(formula[i])
             /\ Level(w, k) \in Int /\ Level(w, i) \in Int
  <2>1. i \in Int /\ k \in Int /\ 1 <= i /\ i - 1 <= k /\ i \in 0..Len(formula) /\ k \in 0..Len(formula)
    BY <1>1
  <2>2. Depth(formula, i, k) = Level(formula, k) - Level(formula, i - 1)
    BY <2>1, DepthIsLevel
  <2>3. Level(formula, i) = Level(formula, i - 1) + Weight(formula[i])
    BY <2>1, LevelStep
  <2>4. Level(w, k) = Level(formula, k) /\ Level(w, i) = Level(formula, i)
    BY <1>2, <2>1
  <2>5. Level(formula, i) \in Int /\ Level(formula, i - 1) \in Int /\ Level(formula, k) \in Int
    BY <2>1, LevelType
  <2>6. Weight(formula[i]) \in Int
    BY WeightType
  <2> QED
    BY <2>2, <2>3, <2>4, <2>5, <2>6
<1>5. ASSUME Chain(w) PROVE PowersChained
  <2>1. PICK i \in 1..Len(w), j \in 1..Len(w) :
           /\ i < j /\ w[i].kind = "^" /\ w[j].kind = "^" /\ Level(w, j) = Level(w, i)
           /\ Above(w, i, j)
           /\ \A k \in i..j : Level(w, k) = Level(w, i) => w[k].kind \notin PlusTimes
    BY <1>5 DEF Chain
  <2>2. formula[i].kind = "^" /\ formula[j].kind = "^" /\ i \in 1..Len(formula) /\ j \in 1..Len(formula)
    BY <1>1, <1>3, <2>1, WordsApart
  <2>3. Weight(formula[i]) = 0
    BY <2>2, OperatorWeight, WordsApart
  <2>4. ASSUME NEW k \in i..j
        PROVE  /\ Depth(formula, i, k) = Level(w, k) - Level(w, i)
               /\ Level(w, k) >= Level(w, i) /\ Level(w, k) \in Int /\ Level(w, i) \in Int
               /\ k \in 1..Len(formula)
    <3>1. k \in i..Len(formula) /\ k \in 1..Len(formula)
      BY <1>1, <2>2
    <3>2. /\ Depth(formula, i, k) = Level(w, k) - Level(w, i) + 0
          /\ Level(w, k) \in Int /\ Level(w, i) \in Int
      BY <1>4, <2>2, <2>3, <3>1
    <3>3. Level(w, k) >= Level(w, i)
      BY <2>1 DEF Above
    <3> QED
      BY <3>1, <3>2, <3>3
  <2>5. Depth(formula, i, j) = 0
    <3>1. j \in i..j
      BY <2>1, <2>2
    <3>2. Depth(formula, i, j) = Level(w, j) - Level(w, i) /\ Level(w, i) \in Int
      BY <2>4, <3>1
    <3> QED
      BY <2>1, <3>2
  <2>6. ASSUME NEW k \in i..j
        PROVE  \/ Depth(formula, i, k) > 0
               \/ Depth(formula, i, k) = 0 /\ formula[k].kind \notin {"+", "-", "*", "/"}
    <3>1. CASE Level(w, k) = Level(w, i)
      <4>1. w[k].kind \notin PlusTimes
        BY <2>1, <3>1
      <4>2. PlusTimes \subseteq Words /\ PlusTimes = {"+", "-", "*", "/"}
        BY DEF PlusTimes, Words, Operators
      <4>3. formula[k].kind \notin PlusTimes
        BY <1>3, <2>4, <4>1, <4>2
      <4>4. Depth(formula, i, k) = 0
        BY <2>4, <3>1
      <4> QED
        BY <4>2, <4>3, <4>4
    <3>2. CASE Level(w, k) # Level(w, i)
      BY <2>4, <3>2
    <3> QED
      BY <3>1, <3>2
  <2>7. i \in DOMAIN formula /\ j \in DOMAIN formula /\ i < j
    BY <1>1, <2>1, <2>2
  <2> QED
    BY <2>2, <2>5, <2>6, <2>7 DEF PowersChained
<1>6. ASSUME Crowded(w) PROVE ParenthesesInCall
  <2>1. PICK i \in 1..Len(w), j \in 1..Len(w) :
           /\ i < j /\ w[i].kind \in Calls /\ w[j].kind \in Opening
           /\ Above(w, i, j) /\ ~(w[i].kind = "abs(" /\ w[j].kind = "sqrt(")
    BY <1>6 DEF Crowded
  <2>2. /\ formula[i].kind = w[i].kind /\ formula[j].kind = w[j].kind
        /\ i \in 1..Len(formula) /\ j \in 1..Len(formula)
    BY <1>1, <1>3, <2>1, WordsApart
  <2>3. Weight(formula[i]) = 1
    BY <2>1, <2>2, WordsApart DEF Weight
  <2>4. ASSUME NEW k \in i..j PROVE Depth(formula, i, k) > 0
    <3>1. k \in i..Len(formula)
      BY <1>1, <2>2
    <3>2. /\ Depth(formula, i, k) = Level(w, k) - Level(w, i) + 1
          /\ Level(w, k) \in Int /\ Level(w, i) \in Int
      BY <1>4, <2>2, <2>3, <3>1
    <3>3. Level(w, k) >= Level(w, i)
      BY <2>1 DEF Above
    <3> QED
      BY <3>2, <3>3
  <2>5. i \in DOMAIN formula /\ j \in DOMAIN formula /\ i < j
    BY <1>1, <2>1, <2>2
  <2>6. /\ formula[i].kind \in Calls /\ formula[j].kind \in Opening
        /\ ~(formula[i].kind = "abs(" /\ formula[j].kind = "sqrt(")
    BY <2>1, <2>2
  <2> QED
    BY <2>4, <2>5, <2>6 DEF ParenthesesInCall
<1>7. ASSUME Pairs(w) PROVE TwoPairs
  <2>1. PICK i \in 1..Len(w), j \in 1..Len(w), k \in 1..Len(w), l \in 1..Len(w) :
           /\ i < j /\ j < k /\ k < l
           /\ w[i].kind = "(" /\ w[j].kind = ")" /\ w[k].kind = "(" /\ w[l].kind = ")"
    BY <1>7 DEF Pairs
  <2>2. "(" \in Words /\ ")" \in Words
    BY WordsApart
  <2>3. /\ formula[i].kind = "(" /\ formula[j].kind = ")" /\ formula[k].kind = "(" /\ formula[l].kind = ")"
        /\ i \in DOMAIN formula /\ j \in DOMAIN formula /\ k \in DOMAIN formula /\ l \in DOMAIN formula
    BY <1>1, <1>3, <2>1, <2>2
  <2> QED
    BY <2>1, <2>3 DEF TwoPairs
<1> QED
  BY <1>5, <1>6, <1>7 DEF w

-----------------------------------------------------------------------------
(* Putting the values in, token by token *)

LEMMA JoinType ==
  ASSUME NEW a \in Texts, NEW c \in Texts
  PROVE  /\ a \o c \in Texts /\ Len(a \o c) = Len(a) + Len(c)
         /\ \A i \in 1..Len(a) : (a \o c)[i] = a[i]
         /\ \A i \in 1..Len(c) : (a \o c)[Len(a) + i] = c[i]
<1>1. a \in Seq(Tokens) /\ c \in Seq(Tokens)
  BY DEF Texts
<1>2. Len(a) \in Nat /\ Len(c) \in Nat
  BY <1>1, LenProperties
<1>3. /\ a \o c \in Seq(Tokens) /\ Len(a \o c) = Len(a) + Len(c)
      /\ \A i \in 1..Len(a) + Len(c) : (a \o c)[i] = IF i <= Len(a) THEN a[i] ELSE c[i - Len(a)]
  BY <1>1, ConcatProperties
<1>4. \A i \in 1..Len(a) : i \in 1..Len(a) + Len(c) /\ i <= Len(a)
  BY <1>2
<1>5. \A i \in 1..Len(c) : /\ Len(a) + i \in 1..Len(a) + Len(c) /\ ~(Len(a) + i <= Len(a))
                           /\ (Len(a) + i) - Len(a) = i
  BY <1>2
<1> QED
  BY <1>3, <1>4, <1>5 DEF Texts

LEMMA SubstituteJoins ==
  ASSUME NEW s \in Seq(FormulaTokens), s # <<>>, NEW vals \in [Variables -> Int]
  PROVE  \E g \in [0..Len(s) -> Texts] :
            /\ g[0] = <<>> /\ Substitute(s, vals) = g[Len(s)]
            /\ \A i \in 1..Len(s) : g[i] = g[i - 1] \o Piece(s[i], vals)
<1> DEFINE n == Len(s)
           seqs == [i \in DOMAIN s |-> Piece(s[i], vals)]
<1>1. n \in Nat /\ DOMAIN s = 1..n /\ n # 0
  <2>1. s \in Texts
    BY FormulaType
  <2>2. Len(s) \in Nat /\ DOMAIN s = 1..Len(s)
    BY <2>1, TextType
  <2>3. Len(s) # 0
    OBVIOUS
  <2> QED
    BY <2>2, <2>3
<1>2. \A i \in 1..n : Piece(s[i], vals) \in Texts
  <2> TAKE i \in 1..n
  <2>1. s[i] \in FormulaTokens
    BY ElementOfSeq
  <2> QED
    BY <2>1, PieceType DEF Texts
<1>3. seqs \in [1..n -> Texts] /\ \A i \in 1..n : seqs[i] = Piece(s[i], vals)
  BY <1>1, <1>2
<1>4. Substitute(s, vals) = FlattenSeq(seqs)
  BY DEF Substitute, Piece
<1> HIDE DEF seqs
<1>5. seqs \in Seq(Texts) /\ Len(seqs) = n
  <2>1. seqs \in Seq(Texts)
    BY <1>1, <1>3, SeqDef
  <2>2. DOMAIN seqs = 1..n
    BY <1>3
  <2>3. DOMAIN seqs = 1..Len(seqs) /\ Len(seqs) \in Nat
    BY <2>1, LenProperties
  <2> QED
    BY <1>1, <2>1, <2>2, <2>3
<1> HIDE DEF n
<1>6. PICK h \in [1..n -> Texts] :
         FlattenSeq(seqs) = h[n] /\ \A i \in 1..n : h[i] = JoinedTo(seqs, h, i)
  BY <1>1, <1>3, <1>5, FlattenIs
<1> DEFINE g == [i \in 0..n |-> IF i = 0 THEN <<>> ELSE h[i]]
<1>7. g \in [0..n -> Texts] /\ g[0] = <<>> /\ \A i \in 1..n : g[i] = h[i]
  <2>1. <<>> \in Texts
    BY DEF Texts
  <2>2. \A i \in 0..n : i # 0 => i \in 1..n
    BY <1>1
  <2>3. 0 \in 0..n /\ \A i \in 1..n : i \in 0..n /\ i # 0
    BY <1>1
  <2> QED
    BY <1>6, <2>1, <2>2, <2>3
<1> HIDE DEF g
<1>8. \A i \in 1..n : g[i] = g[i - 1] \o Piece(s[i], vals)
  <2> TAKE i \in 1..n
  <2>1. g[i] = JoinedTo(seqs, h, i)
    BY <1>6, <1>7
  <2>2. CASE i = 1
    <3>1. g[i] = Piece(s[i], vals) /\ g[i - 1] = <<>> /\ Piece(s[i], vals) \in Seq(Tokens)
      BY <1>2, <1>3, <1>7, <2>1, <2>2 DEF JoinedTo, Texts
    <3> QED
      BY <3>1, ConcatEmptySeq
  <2>3. CASE i # 1
    <3>1. i - 1 \in 1..n
      BY <1>1, <2>3
    <3> QED
      BY <1>3, <1>7, <2>1, <2>3, <3>1 DEF JoinedTo
  <2> QED
    BY <2>2, <2>3
<1>9. g[n] = Substitute(s, vals)
  <2>1. n \in 1..n
    BY <1>1
  <2> QED
    BY <1>4, <1>6, <1>7, <2>1
<1> QED
  BY <1>7, <1>8, <1>9 DEF n

(* A value that is not negative is one number of the text. *)
LEMMA SubstituteIsWith ==
  ASSUME NEW s \in Seq(FormulaTokens), s # <<>>, NEW vals \in [Variables -> Int],
         \A i \in 1..Len(s) : s[i].kind \in Variables => vals[s[i].kind] >= 0
  PROVE  Substitute(s, vals) = With(s, vals)
<1> DEFINE n == Len(s)
           w == With(s, vals)
<1>1. n \in Nat
  BY FormulaType, TextType
<1>2. /\ w \in Texts /\ Len(w) = n
      /\ \A i \in 1..n : /\ s[i].kind \in Variables => w[i] = Decimal(vals[s[i].kind])
                         /\ s[i].kind \notin Variables => w[i] = s[i]
  BY WithType
<1>3. PICK g \in [0..n -> Texts] :
         /\ g[0] = <<>> /\ Substitute(s, vals) = g[n]
         /\ \A i \in 1..n : g[i] = g[i - 1] \o Piece(s[i], vals)
  BY SubstituteJoins
<1>4. \A i \in 1..n : Piece(s[i], vals) = <<w[i]>> /\ w[i] \in Tokens
  <2> TAKE i \in 1..n
  <2>1. s[i] \in FormulaTokens
    BY ElementOfSeq
  <2>2. s[i].kind \in Variables => ~(vals[s[i].kind] < 0)
    <3> HAVE s[i].kind \in Variables
    <3>1. vals[s[i].kind] \in Int /\ vals[s[i].kind] >= 0
      OBVIOUS
    <3> QED
      BY <3>1
  <2>3. w[i] \in Tokens
    BY <1>2, TextType
  <2>4. /\ s[i].kind \in Variables => Piece(s[i], vals) = <<Decimal(vals[s[i].kind])>>
        /\ s[i].kind \notin Variables => Piece(s[i], vals) = <<s[i]>>
    BY <2>1, <2>2, PieceType
  <2> QED
    BY <1>2, <2>3, <2>4
<1> HIDE DEF w
<1> DEFINE G == {m \in Nat : m <= n => Len(g[m]) = m /\ \A k \in 1..m : g[m][k] = w[k]}
<1>5. 0 \in G
  BY <1>3
<1> HIDE DEF n
<1>6. ASSUME NEW m \in Nat, m \in G PROVE m + 1 \in G
  <2> SUFFICES ASSUME m + 1 <= n
               PROVE  Len(g[m + 1]) = m + 1 /\ \A k \in 1..m + 1 : g[m + 1][k] = w[k]
    OBVIOUS
  <2>1. m \in 0..n /\ m + 1 \in 1..n /\ m <= n /\ (m + 1) - 1 = m
    BY <1>1
  <2>2. Len(g[m]) = m /\ (\A k \in 1..m : g[m][k] = w[k]) /\ g[m] \in Texts
    BY <1>3, <1>6, <2>1
  <2> DEFINE c == <<w[m + 1]>>
             t == w[m + 1]
  <2>3. c \in Texts /\ Len(c) = 1 /\ c[1] = w[m + 1]
    <3>1. t \in Tokens
      BY <1>4, <2>1
    <3> HIDE DEF t
    <3>2. <<t>> \in Seq(Tokens) /\ Len(<<t>>) = 1 /\ <<t>>[1] = t
      BY <3>1
    <3> QED
      BY <3>2 DEF Texts, t
  <2>4. g[m + 1] = g[m] \o c
    BY <1>3, <1>4, <2>1
  <2> HIDE DEF c, t
  <2>5. /\ Len(g[m] \o c) = m + 1
        /\ \A k \in 1..m : (g[m] \o c)[k] = g[m][k]
        /\ (g[m] \o c)[m + 1] = c[1]
    <3>1. 1 \in 1..Len(c)
      BY <2>3
    <3>2. /\ Len(g[m] \o c) = Len(g[m]) + Len(c)
          /\ \A k \in 1..Len(g[m]) : (g[m] \o c)[k] = g[m][k]
          /\ \A k \in 1..Len(c) : (g[m] \o c)[Len(g[m]) + k] = c[k]
      BY <2>2, <2>3, JoinType
    <3> QED
      BY <2>2, <2>3, <3>1, <3>2
  <2>6. \A k \in 1..m + 1 : k \in 1..m \/ k = m + 1
    OBVIOUS
  <2> QED
    BY <2>2, <2>3, <2>4, <2>5, <2>6
<1>7. \A m \in Nat : m \in G
  <2> HIDE DEF G
  <2> QED
    BY <1>5, <1>6, NumberInduction
<1>8. Len(g[n]) = n /\ (\A k \in 1..n : g[n][k] = w[k]) /\ g[n] \in Texts
  <2>1. n \in 0..n /\ n <= n
    BY <1>1
  <2> QED
    BY <1>1, <1>3, <1>7, <2>1
<1>9. g[n] = w
  BY <1>2, <1>8, TextEqual
<1> QED
  BY <1>3, <1>9 DEF w

(* No operator is missing between two tokens of the formula. *)
NoneOmitted(s) ==
    \A i \in 1..Len(s) - 1 :
       ~(s[i].kind \in Variables \cup {"num", ")"} /\ s[i + 1].kind \in Variables \cup {"num"} \cup Opening)

(* An operator with nothing to its left. *)
Signed(t) ==
    \E p \in 0..Len(t) - 1 :
       /\ p = 0 \/ t[p].kind \in Operators \cup Opening
       /\ t[p + 1].kind \in Operators

LEMMA SignedIsGap == ASSUME NEW t \in Texts, Signed(t) PROVE Gap(t)
<1>1. Len(t) \in Nat
  BY TextType
<1>2. PICK p \in 0..Len(t) - 1 : /\ p = 0 \/ t[p].kind \in Operators \cup Opening
                                 /\ t[p + 1].kind \in Operators
  BY DEF Signed
<1>3. p \in 0..Len(t)
  BY <1>1
<1> QED
  BY <1>2, <1>3 DEF Gap

LEMMA JoinNoneMissing ==
  ASSUME NEW a \in Texts, NEW c \in Texts, NoneMissing(a), NoneMissing(c), Len(c) # 0,
         Len(a) # 0 => ~(a[Len(a)].kind \in Plain \cup {")"} /\ c[1].kind \in Plain \cup Opening)
  PROVE  NoneMissing(a \o c)
<1> DEFINE u == a \o c
           m == Len(a)
           n == Len(c)
<1>1. m \in Nat /\ n \in Nat
  BY TextType
<1>2. /\ Len(u) = m + n /\ \A i \in 1..m : u[i] = a[i]
      /\ \A i \in 1..n : u[m + i] = c[i]
  BY JoinType
<1> HIDE DEF u, m, n
<1>3. \A i \in 1..m - 1 : ~(a[i].kind \in Plain \cup {")"} /\ a[i + 1].kind \in Plain \cup Opening)
  BY DEF NoneMissing, m
<1>4. \A i \in 1..n - 1 : ~(c[i].kind \in Plain \cup {")"} /\ c[i + 1].kind \in Plain \cup Opening)
  BY DEF NoneMissing, n
<1>5. n # 0 /\ (m # 0 => ~(a[m].kind \in Plain \cup {")"} /\ c[1].kind \in Plain \cup Opening))
  BY DEF m, n
<1>6. ASSUME NEW k \in 1..m + n - 1
      PROVE  ~(u[k].kind \in Plain \cup {")"} /\ u[k + 1].kind \in Plain \cup Opening)
  <2>1. CASE k < m
    <3>1. k \in 1..m - 1 /\ k \in 1..m /\ k + 1 \in 1..m
      BY <1>1, <2>1
    <3> QED
      BY <1>2, <1>3, <3>1
  <2>2. CASE k = m
    <3>1. k \in 1..m /\ m # 0 /\ 1 \in 1..n
      BY <1>1, <1>5, <2>2
    <3>2. u[k] = a[m] /\ u[k + 1] = c[1]
      BY <1>2, <2>2, <3>1
    <3> QED
      BY <1>5, <3>1, <3>2
  <2>3. CASE k > m
    <3> DEFINE q == k - m
    <3>1. q \in 1..n - 1 /\ q \in 1..n /\ q + 1 \in 1..n /\ m + q = k /\ m + (q + 1) = k + 1
      BY <1>1, <2>3
    <3> HIDE DEF q
    <3>2. u[k] = c[q] /\ u[k + 1] = c[q + 1]
      BY <1>2, <3>1
    <3> QED
      BY <1>4, <3>1, <3>2
  <2> QED
    BY <1>1, <2>1, <2>2, <2>3
<1>7. NoneMissing(u)
  <2>1. 1..Len(u) - 1 = 1..m + n - 1
    BY <1>1, <1>2
  <2>2. \A k \in 1..Len(u) - 1 : ~(u[k].kind \in Plain \cup {")"} /\ u[k + 1].kind \in Plain \cup Opening)
    BY <1>6, <2>1
  <2> QED
    BY <2>2 DEF NoneMissing
<1> QED
  BY <1>7 DEF u

(* how one token of a formula begins and ends in the text *)
LEMMA PieceEnds ==
  ASSUME NEW t \in FormulaTokens, NEW vals \in [Variables -> Int]
  PROVE  LET c == Piece(t, vals)
         IN  /\ c \in Texts /\ Len(c) \in Nat /\ Len(c) # 0 /\ NoneMissing(c)
             /\ t.kind \in Variables /\ vals[t.kind] < 0 => c[1].kind = "-"
             /\ t.kind \in Variables /\ ~(vals[t.kind] < 0) => c[1].kind = "dec"
             /\ t.kind \in Variables => c[Len(c)].kind = "dec"
             /\ t.kind \notin Variables => c[1].kind = t.kind /\ c[Len(c)].kind = t.kind
<1> DEFINE c == Piece(t, vals)
<1>1. c \in Texts /\ Len(c) \in Nat
  <2>1. c \in Texts
    BY PieceType DEF Texts
  <2> HIDE DEF c
  <2> QED
    BY <2>1, TextType
<1>2. CASE t.kind \in Variables /\ vals[t.kind] < 0
  <2> DEFINE d == Decimal(-vals[t.kind])
             e == Token("-")
  <2>1. c = <<e, d>>
    BY <1>2, PieceType
  <2>2. e.kind = "-" /\ d.kind = "dec" /\ "-" \notin Plain \cup {")"}
    BY DEF Token, Decimal, Plain
  <2> HIDE DEF c, d, e
  <2>3. Len(c) = 2 /\ c[1] = e /\ c[2] = d
    BY <2>1
  <2>4. NoneMissing(c)
    <3>1. \A k \in 1..Len(c) - 1 : k = 1
      BY <2>3
    <3> QED
      BY <2>2, <2>3, <3>1 DEF NoneMissing
  <2> QED
    BY <1>1, <1>2, <2>2, <2>3, <2>4 DEF c
<1>3. CASE ~(t.kind \in Variables /\ vals[t.kind] < 0)
  <2> DEFINE d == IF t.kind \in Variables THEN Decimal(vals[t.kind]) ELSE t
  <2>1. c = <<d>>
    BY <1>3, PieceType
  <2>2. (t.kind \in Variables => d.kind = "dec") /\ (t.kind \notin Variables => d.kind = t.kind)
    BY DEF Decimal
  <2> HIDE DEF c, d
  <2>3. Len(c) = 1 /\ c[1] = d
    BY <2>1
  <2>4. NoneMissing(c)
    BY <2>3 DEF NoneMissing
  <2> QED
    BY <1>1, <1>3, <2>2, <2>3, <2>4 DEF c
<1> QED
  BY <1>2, <1>3

(* Where no operator is missing the values bring no gap but the sign of a   *)
(* negative one.                                                            *)
LEMMA SubstituteShape ==
  ASSUME NEW s \in Seq(FormulaTokens), s # <<>>, NEW vals \in [Variables -> Int], NoneOmitted(s)
  PROVE  /\ Substitute(s, vals) \in Texts /\ NoneMissing(Substitute(s, vals))
         /\ \A i \in 1..Len(s) :
               s[i].kind \in Variables /\ vals[s[i].kind] < 0 => Signed(Substitute(s, vals))
<1> DEFINE n == Len(s)
           Minus(i) == s[i].kind \in Variables /\ vals[s[i].kind] < 0
<1>1. n \in Nat /\ \A i \in 1..n : s[i].kind \in Words \cup Variables
  BY FormulaType, TextType
<1>2. PICK g \in [0..n -> Texts] :
         /\ g[0] = <<>> /\ Substitute(s, vals) = g[n]
         /\ \A i \in 1..n : g[i] = g[i - 1] \o Piece(s[i], vals)
  BY SubstituteJoins
<1>3. \A i \in 1..n : s[i] \in FormulaTokens
  BY ElementOfSeq
<1>4. \A i \in 1..n - 1 : ~(s[i].kind \in Variables \cup {"num", ")"}
                            /\ s[i + 1].kind \in Variables \cup {"num"} \cup Opening)
  BY DEF NoneOmitted
<1> DEFINE Shape(m) ==
             /\ NoneMissing(g[m])
             /\ m # 0 => /\ Len(g[m]) # 0
                         /\ s[m].kind \in Variables => g[m][Len(g[m])].kind = "dec"
                         /\ s[m].kind \notin Variables => g[m][Len(g[m])].kind = s[m].kind
             /\ (\E i \in 1..m : Minus(i)) => Signed(g[m])
           G == {m \in Nat : m <= n => Shape(m)}
<1>5. 0 \in G
  <2>1. NoneMissing(g[0])
    <3>1. Len(g[0]) = 0
      BY <1>2
    <3> QED
      BY <3>1 DEF NoneMissing
  <2> HIDE DEF Minus
  <2> QED
    BY <2>1
<1> HIDE DEF n, Minus
<1>6. ASSUME NEW m \in Nat, m \in G PROVE m + 1 \in G
  <2> SUFFICES ASSUME m + 1 <= n PROVE Shape(m + 1)
    OBVIOUS
  <2>1. m \in 0..n /\ m + 1 \in 1..n /\ m <= n /\ (m + 1) - 1 = m
    BY <1>1
  <2>2. Shape(m)
    BY <1>6, <2>1
  <2> DEFINE a == g[m]
             t == s[m + 1]
             c == Piece(t, vals)
             u == g[m + 1]
  <2>3. a \in Texts /\ Len(a) \in Nat /\ u = a \o c
    <3>1. a \in Texts /\ u = a \o c
      BY <1>2, <2>1
    <3> QED
      BY <3>1, TextType
  <2>4. t \in FormulaTokens /\ t.kind \in Words \cup Variables
    BY <1>1, <1>3, <2>1
  <2>5. /\ c \in Texts /\ Len(c) \in Nat /\ Len(c) # 0 /\ NoneMissing(c)
        /\ t.kind \in Variables /\ vals[t.kind] < 0 => c[1].kind = "-"
        /\ t.kind \in Variables /\ ~(vals[t.kind] < 0) => c[1].kind = "dec"
        /\ t.kind \in Variables => c[Len(c)].kind = "dec"
        /\ t.kind \notin Variables => c[1].kind = t.kind /\ c[Len(c)].kind = t.kind
    BY <2>4, PieceEnds
  <2>6. m # 0 => /\ s[m].kind \in Words \cup Variables
                 /\ ~(s[m].kind \in Variables \cup {"num", ")"}
                      /\ t.kind \in Variables \cup {"num"} \cup Opening)
    <3> HAVE m # 0
    <3>1. m \in 1..n - 1 /\ m \in 1..n
      BY <1>1, <2>1
    <3> QED
      BY <1>1, <1>4, <3>1
  <2>7. Minus(m + 1) <=> t.kind \in Variables /\ vals[t.kind] < 0
    BY DEF Minus
  <2>8. m = 0 => Len(a) = 0
    BY <1>2
  <2>9. /\ NoneMissing(a)
        /\ m # 0 => /\ Len(a) # 0
                    /\ s[m].kind \in Variables => a[Len(a)].kind = "dec"
                    /\ s[m].kind \notin Variables => a[Len(a)].kind = s[m].kind
        /\ (\E i \in 1..m : Minus(i)) => Signed(a)
    BY <2>2
  <2> HIDE DEF a, t, c, u
  <2>10. /\ Len(u) = Len(a) + Len(c)
         /\ \A i \in 1..Len(a) : u[i] = a[i]
         /\ \A i \in 1..Len(c) : u[Len(a) + i] = c[i]
    BY <2>3, <2>5, JoinType
  <2>11. Len(u) # 0 /\ u[Len(u)] = c[Len(c)] /\ u[Len(a) + 1] = c[1]
    <3>1. Len(c) \in 1..Len(c) /\ 1 \in 1..Len(c) /\ Len(a) + Len(c) # 0
      BY <2>3, <2>5
    <3> QED
      BY <2>10, <3>1
  <2>12. NoneMissing(u)
    <3>1. ASSUME Len(a) # 0, a[Len(a)].kind \in Plain \cup {")"}, c[1].kind \in Plain \cup Opening
          PROVE  FALSE
      <4>1. m # 0
        BY <2>8, <3>1
      <4>2. s[m].kind \in Variables \cup {"num", ")"}
        BY <2>6, <2>9, <3>1, <4>1, WordsApart DEF Plain
      <4>3. t.kind \in Variables \cup {"num"} \cup Opening
        BY <2>4, <2>5, <3>1, WordsApart DEF Plain
      <4> QED
        BY <2>6, <4>1, <4>2, <4>3
    <3> QED
      BY <2>3, <2>5, <2>9, <3>1, JoinNoneMissing
  <2>13. ASSUME Signed(a) PROVE Signed(u)
    <3>1. PICK p \in 0..Len(a) - 1 : /\ p = 0 \/ a[p].kind \in Operators \cup Opening
                                     /\ a[p + 1].kind \in Operators
      BY <2>13 DEF Signed
    <3>2. p \in 0..Len(u) - 1 /\ p + 1 \in 1..Len(a) /\ (p # 0 => p \in 1..Len(a))
      BY <2>3, <2>5, <2>10
    <3>3. u[p + 1] = a[p + 1] /\ (p # 0 => u[p] = a[p])
      BY <2>10, <3>2
    <3> QED
      BY <3>1, <3>2, <3>3 DEF Signed
  <2>14. ASSUME Minus(m + 1) PROVE Signed(u)
    <3>1. u[Len(a) + 1].kind \in Operators
      BY <2>5, <2>7, <2>11, <2>14 DEF Operators
    <3>2. Len(a) # 0 => u[Len(a)].kind \in Operators \cup Opening
      <4> HAVE Len(a) # 0
      <4>1. m # 0 /\ s[m].kind \in Words \cup Variables /\ s[m].kind \notin Variables \cup {"num", ")"}
        BY <2>6, <2>7, <2>8, <2>14
      <4>2. s[m].kind \in Operators \cup Opening /\ a[Len(a)].kind = s[m].kind
        BY <2>9, <4>1 DEF Words
      <4>3. Len(a) \in 1..Len(a)
        BY <2>3
      <4> QED
        BY <2>10, <4>2, <4>3
    <3>3. Len(a) \in 0..Len(u) - 1
      BY <2>3, <2>5, <2>10
    <3> QED
      BY <3>1, <3>2, <3>3 DEF Signed
  <2>15. (\E i \in 1..m + 1 : Minus(i)) => Signed(u)
    <3>1. \A i \in 1..m + 1 : i \in 1..m \/ i = m + 1
      OBVIOUS
    <3> QED
      BY <2>9, <2>13, <2>14, <3>1
  <2>16. /\ t.kind \in Variables => u[Len(u)].kind = "dec"
         /\ t.kind \notin Variables => u[Len(u)].kind = t.kind
    BY <2>5, <2>11
  <2> QED
    BY <2>11, <2>12, <2>15, <2>16 DEF u, t
<1>7. \A m \in Nat : m \in G
  <2> HIDE DEF G
  <2> QED
    BY <1>5, <1>6, NumberInduction
<1>8. Shape(n) /\ g[n] \in Texts
  <2>1. n <= n /\ n \in 0..n
    BY <1>1
  <2> QED
    BY <1>1, <1>2, <1>7, <2>1
<1>9. (\E i \in 1..n : Minus(i)) => Signed(g[n])
  BY <1>8
<1> QED
  BY <1>2, <1>8, <1>9 DEF n, Minus

-----------------------------------------------------------------------------
(* What holds in every state: a formula that was accepted is not empty, and *)
(* the answer is the value of the text the values were put into.            *)
Computed ==
    /\ formula \in Formulas
    /\ values \in [Variables -> Int]
    /\ phase \in {"loading", "refused", "waiting", "cached", "answered"}
    /\ phase \in {"waiting", "cached", "answered"} => formula # <<>>
    /\ phase = "answered" => answer = Evaluate(formula, values)

LEMMA ComputedInit == Init => Computed
BY DEF Init, Computed

LEMMA ComputedStep == Computed /\ [Next]_vars => Computed'
<1> SUFFICES ASSUME Computed, [Next]_vars PROVE Computed'
  OBVIOUS
<1>1. CASE Load
  BY <1>1 DEF Computed, Load, ValidateFormula
<1>2. CASE Read
  <2>1. values' \in [Variables -> Int]
    BY <1>2, FormulasAssumption DEF Read
  <2> QED
    BY <1>2, <2>1 DEF Computed, Read
<1>3. CASE Execute
  BY <1>3 DEF Computed, Execute
<1>4. CASE UNCHANGED vars
  BY <1>4 DEF Computed, vars
<1> QED
  BY <1>1, <1>2, <1>3, <1>4 DEF Next

THEOREM AlwaysComputed == Spec => []Computed
<1>1. Init => Computed
  BY ComputedInit
<1>2. Computed /\ [Next]_vars => Computed'
  BY ComputedStep
<1> QED
  BY <1>1, <1>2, PTL DEF Spec

LEMMA AnswerOfText ==
  ASSUME Computed, phase = "answered"
  PROVE  /\ formula \in Seq(FormulaTokens) /\ formula # <<>> /\ values \in [Variables -> Int]
         /\ DOMAIN formula = 1..Len(formula)
         /\ answer = N(Substitute(formula, values))
         /\ MeaningOf(formula, values) = M(With(formula, values))
         /\ With(formula, values) \in Texts
<1>1. formula \in Seq(FormulaTokens)
  BY FormulasAssumption DEF Computed, FormulaTokens
<1>2. formula \in Texts /\ values \in [Variables -> Int]
  BY <1>1, FormulaType DEF Computed
<1>3. DOMAIN formula = 1..Len(formula)
  BY <1>2, TextType
<1>4. With(formula, values) \in Texts
  BY <1>1, <1>2, WithType
<1>5. answer = N(Substitute(formula, values))
  BY DEF Computed, Evaluate, N
<1>6. MeaningOf(formula, values) = M(With(formula, values))
  BY DEF MeaningOf, M
<1>7. formula # <<>>
  BY DEF Computed
<1> QED
  BY <1>1, <1>2, <1>3, <1>4, <1>5, <1>6, <1>7

LEMMA ComputedIsRight == Computed => AnswerIsRight
<1> SUFFICES ASSUME Computed, phase = "answered", answer.ok, ~OperatorMissing, ~PowersChained
             PROVE  answer = MeaningOf(formula, values)
  BY DEF AnswerIsRight
<1> DEFINE t == Substitute(formula, values)
           w == With(formula, values)
<1>1. /\ formula \in Seq(FormulaTokens) /\ formula # <<>> /\ values \in [Variables -> Int]
      /\ answer = N(t) /\ MeaningOf(formula, values) = M(w) /\ w \in Texts
  BY AnswerOfText
<1>2. NoneOmitted(formula)
  BY DEF OperatorMissing, NoneOmitted
<1>3. /\ t \in Texts /\ NoneMissing(t)
      /\ \A i \in 1..Len(formula) :
            formula[i].kind \in Variables /\ values[formula[i].kind] < 0 => Signed(t)
  BY <1>1, <1>2, SubstituteShape
<1>4. ~Gap(t) /\ (~Chain(t) => N(t) = M(t))
  BY <1>1, <1>3, RightAll DEF Right
<1>5. ASSUME NEW i \in 1..Len(formula), formula[i].kind \in Variables
      PROVE  values[formula[i].kind] >= 0
  <2>1. ~(values[formula[i].kind] < 0)
    BY <1>3, <1>4, <1>5, SignedIsGap
  <2>2. values[formula[i].kind] \in Int
    BY <1>1, <1>5
  <2> QED
    BY <2>1, <2>2
<1>6. t = w
  BY <1>1, <1>5, SubstituteIsWith
<1>7. ~Chain(t)
  BY <1>1, <1>6, WithShapes
<1> QED
  BY <1>1, <1>4, <1>6, <1>7

LEMMA ComputedAnswers == Computed => FailsOnlyWhen
<1> SUFFICES ASSUME Computed, phase = "answered", MeaningOf(formula, values).ok,
                    ~NegativeReading, ~ParenthesesInCall, ~TwoPairs, ~PowersChained
             PROVE  answer.ok
  BY DEF FailsOnlyWhen
<1> DEFINE t == Substitute(formula, values)
           w == With(formula, values)
<1>1. /\ formula \in Seq(FormulaTokens) /\ formula # <<>> /\ values \in [Variables -> Int]
      /\ DOMAIN formula = 1..Len(formula)
      /\ answer = N(t) /\ MeaningOf(formula, values) = M(w) /\ w \in Texts
  BY AnswerOfText
<1>2. ASSUME NEW i \in 1..Len(formula), formula[i].kind \in Variables
      PROVE  values[formula[i].kind] >= 0
  <2>1. formula[i].kind \in VariablesOf(formula)
    BY <1>1, <1>2 DEF VariablesOf, Kinds
  <2>2. ~(values[formula[i].kind] < 0)
    BY <2>1 DEF NegativeReading
  <2>3. values[formula[i].kind] \in Int
    BY <1>1, <1>2
  <2> QED
    BY <2>2, <2>3
<1>3. t = w
  BY <1>1, <1>2, SubstituteIsWith
<1>4. ~Chain(w) /\ ~Crowded(w) /\ ~Pairs(w)
  BY <1>1, WithShapes
<1>5. N(w).ok
  BY <1>1, <1>4, CompleteAll DEF Complete
<1> QED
  BY <1>1, <1>3, <1>5

(* The number the calculated strategy answers with is the one the formula   *)
(* means: findOperator splits where the grammar does, and the text that     *)
(* evaluateSqrt and evaluateAbs leave means what it meant.  The exceptions  *)
(* are those AnswerIsRight names.                                           *)
THEOREM AlwaysRight == Spec => []AnswerIsRight
<1>1. Computed => AnswerIsRight
  BY ComputedIsRight
<1> QED
  BY <1>1, AlwaysComputed, PTL

(* A formula that Device.Validate accepted and that has a value for the     *)
(* readings is answered by evaluateNumericExpression, except for the shapes *)
(* and the negative values FailsOnlyWhen names.                             *)
THEOREM AlwaysAnswers == Spec => []FailsOnlyWhen
<1>1. Computed => FailsOnlyWhen
  BY ComputedAnswers
<1> QED
  BY <1>1, AlwaysComputed, PTL
=============================================================================

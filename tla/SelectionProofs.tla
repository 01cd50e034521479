-------------------------- MODULE SelectionProofs --------------------------
(***************************************************************************)
(* Proofs about what becomes of a transcript: the ranking of Selection is  *)
(* ordered, no two candidates are alike, and none is lost when too few are *)
(* kept; the Captions of a clip say its words, in lines that fit; and of   *)
(* the Artifacts, the file of a clip that is protected stays.              *)
(***************************************************************************)
EXTENDS Selection, Captions, Artifacts, FiniteSetTheorems, SequenceTheorems, TLAPS

Segment == [start : Nat, end : Nat]
Window == {w \in (1..Len(transcript)) \X (1..Len(transcript)) : w[1] <= w[2] /\ Duration(w) > 0}
Entry == [window : Window, score : Int]
Elements(s) == {s[k] : k \in DOMAIN s}

(* What the variables hold.                                                *)
Typed ==
  /\ transcript \in Seq(Segment) /\ limits \in Nat \X Nat
  /\ pc \in {"clear", "load", "rank", "keep", "relax", "done"} /\ chunk \in Ends \cup {0}
  /\ remaining \subseteq Window /\ IsFiniteSet(remaining) /\ ranked \in Seq(Entry)
  /\ existing \subseteq Window /\ deferred \subseteq Entry
  /\ created \in Seq(Window) /\ saved \in 0..Len(created) /\ rows \in Seq(Window)
  /\ pc = "rank" => \A w \in remaining \cup Ranked : base[w] \in Int

(* While a chunk is ranked, nothing that remains would score more than     *)
(* what was ranked.                                                        *)
RankedAbove == pc = "rank" => \A v \in remaining, k \in Ranks : Effective(v, Ranked) <= ranked[k].score

(* The windows that new ones are compared with are those that were kept.   *)
Kept == Elements(created)
Booked ==
  /\ Len(rows) = saved /\ \A k \in 1..saved : rows[k] = created[k]
  /\ pc = "clear" => created = <<>> /\ existing = {}
  /\ pc \in {"clear", "load", "rank"} => saved = Len(created)
  /\ pc \in {"keep", "relax"} => existing = Kept

(* Every window of the chunks so far is kept, alike one that is, deferred, *)
(* or still on its way, unless enough are kept.                            *)
Settled(w) == (\E d \in deferred : d.window = w) \/ \E v \in Kept : v = w \/ RelaxedDuplicate(w, v)
OnItsWay(w, c) ==
  c = chunk /\ ((pc = "rank" /\ w \in remaining) \/ (pc \in {"rank", "keep"} /\ w \in Ranked))
Accounted ==
  /\ pc = "rank" => chunk \in Ends /\ remaining \cup Ranked \subseteq Windows(chunk)
  /\ ~Enough => \A c \in Ends : \A w \in Windows(c) : c > chunk \/ Settled(w) \/ OnItsWay(w, c)
  /\ pc \in {"relax", "done"} /\ ~Enough => Following = {}
  /\ pc = "done" /\ Few => deferred = {}

(* A set of numbers that is not empty has a least one.                     *)
LEMMA LeastThereIs ==
  ASSUME NEW S, S \subseteq Nat, S # {}
  PROVE  Least(S) \in S /\ \A j \in S : Least(S) <= j
<1> DEFINE R == OpToRel(<, Nat)
<1>1. IsWellFoundedOn(R, Nat)
  BY NatLessThanWellFounded
<1>2. PICK x \in S : \A y \in S : ~(<<y, x>> \in R)
  BY <1>1, WFMin
<1>3. \A y \in S : ~(y < x)
  BY <1>2 DEF OpToRel
<1>4. \A y \in S : x <= y
  BY <1>3
<1>5. \E i \in S : \A j \in S : i <= j
  BY <1>4
<1> QED
  BY <1>5 DEF Least

(* A finite set of numbers that is not empty has a greatest one.           *)
LEMMA GreatestThereIs ==
  ASSUME NEW S, S \subseteq Int, IsFiniteSet(S), S # {}
  PROVE  \E x \in S : \A y \in S : y <= x
<1> DEFINE C == {T \in SUBSET S : T # {} /\ \A x \in T : \E y \in T : ~(y <= x)}
           R == StrictSubsetOrdering(S)
<1> SUFFICES ASSUME C # {}
             PROVE  FALSE
  OBVIOUS
<1>1. IsWellFoundedOn(R, SUBSET S)
  BY FS_StrictSubsetOrderingWellFounded, FS_FiniteSubsetsOfFinite
<1>2. PICK T \in C : \A U \in C : ~(<<U, T>> \in R)
  <2> C \subseteq SUBSET S
    OBVIOUS
  <2> HIDE DEF C, R
  <2> QED
    BY <1>1, WFMin
<1>3. PICK x \in T : TRUE
  OBVIOUS
<1> DEFINE U == {y \in T : ~(y <= x)}
<1>4. U \subseteq T /\ x \notin U /\ U # {}
  BY <1>3
<1>5. U \in C
  <2>1. \A u \in U : \E y \in U : ~(y <= u)
    BY <1>3, <1>4
  <2> QED
    BY <1>4, <2>1
<1>6. <<U, T>> \in R
  BY <1>3, <1>4, <1>5 DEF StrictSubsetOrdering
<1> QED
  BY <1>2, <1>5, <1>6

(* The rank of a number in a finite set grows with it.                     *)
LEMMA RankGrows ==
  ASSUME NEW S, S \subseteq Nat, IsFiniteSet(S), NEW i \in S
  PROVE  /\ IsFiniteSet({j \in S : j < i}) /\ Cardinality({j \in S : j < i}) \in 0..(Cardinality(S) - 1)
         /\ \A k \in S : i < k => Cardinality({j \in S : j < i}) < Cardinality({j \in S : j < k})
<1>1. ASSUME NEW k \in S
      PROVE  IsFiniteSet({j \in S : j < k}) /\ Cardinality({j \in S : j < k}) \in Nat
  <2>1. IsFiniteSet({j \in S : j < k})
    BY FS_Subset
  <2> QED
    BY <2>1, FS_CardinalityType
<1>2. Cardinality({j \in S : j < i}) < Cardinality(S)
  <2>1. {j \in S : j < i} \in SUBSET S /\ i \notin {j \in S : j < i}
    OBVIOUS
  <2>2. Cardinality({j \in S : j < i}) # Cardinality(S)
    BY <2>1, FS_Subset
  <2>3. Cardinality({j \in S : j < i}) <= Cardinality(S) /\ Cardinality(S) \in Nat
    BY <2>1, FS_Subset, FS_CardinalityType
  <2> QED
    BY <2>2, <2>3, <1>1
<1>3. ASSUME NEW k \in S, i < k
      PROVE  Cardinality({j \in S : j < i}) < Cardinality({j \in S : j < k})
  <2> DEFINE A == {j \in S : j < i}
             B == {j \in S : j < k}
  <2>0. ASSUME NEW j \in S, j < i
        PROVE  j < k
    <3>1. j \in Nat /\ i \in Nat /\ k \in Nat
      OBVIOUS
    <3> QED
      BY <1>3, <2>0, <3>1
  <2>1. A \in SUBSET B /\ i \in B /\ i \notin A
    <3>1. i < k /\ ~(i < i)
      <4>1. i \in Nat
        OBVIOUS
      <4> QED
        BY <1>3, <4>1
    <3> QED
      BY <2>0, <3>1
  <2>2. IsFiniteSet(B) /\ Cardinality(A) \in Nat /\ Cardinality(B) \in Nat
    BY <1>1
  <2> HIDE DEF A, B
  <2>3. Cardinality(A) <= Cardinality(B) /\ Cardinality(A) # Cardinality(B)
    BY <2>1, <2>2, FS_Subset
  <2>4. Cardinality(A) < Cardinality(B)
    BY <2>2, <2>3
  <2> QED
    BY <2>4 DEF A, B
<1>4. Cardinality(S) \in Nat
  BY FS_CardinalityType
<1> QED
  BY <1>1, <1>2, <1>3, <1>4

(* InOrder numbers all of a finite set, and nothing else.                  *)
LEMMA OrderCovers ==
  ASSUME NEW S, S \subseteq Nat, IsFiniteSet(S)
  PROVE  /\ DOMAIN InOrder(S) = 1..Cardinality(S) /\ Cardinality(S) \in Nat
         /\ \A k \in 1..Cardinality(S) : InOrder(S)[k] \in S
         /\ \A i \in S : \E k \in 1..Cardinality(S) : InOrder(S)[k] = i
<1> DEFINE Place(i) == Cardinality({j \in S : j < i})
           n == Cardinality(S)
<1>1. n \in Nat
  BY FS_CardinalityType
<1>2. \A i \in S : Place(i) \in 0..(n - 1)
  BY RankGrows
<1>3. \A i, k \in S : i < k => Place(i) < Place(k)
  BY RankGrows
<1>4. \A i, k \in S : Place(i) = Place(k) => i = k
  BY <1>2, <1>3, SMT
<1> DEFINE f == [i \in S |-> Place(i)]
<1>5. f \in Injection(S, 0..(n - 1))
  <2>1. f \in [S -> 0..(n - 1)]
    BY <1>2
  <2>2. IsInjective(f)
    BY <1>4 DEF IsInjective
  <2> QED
    BY <2>1, <2>2 DEF Injection
<1>6. IsFiniteSet(0..(n - 1)) /\ Cardinality(0..(n - 1)) = n
  <2>1. n - 1 \in Int
    BY <1>1
  <2>2. IsFiniteSet(0..(n - 1)) /\ Cardinality(0..(n - 1)) = IF 0 > n - 1 THEN 0 ELSE (n - 1) - 0 + 1
    BY <2>1, FS_Interval
  <2> QED
    BY <1>1, <2>2
<1>7. f \in Surjection(S, 0..(n - 1))
  BY <1>5, <1>6, FS_Injection
<1>8. \A k \in 1..n : \E i \in S : Place(i) = k - 1
  <2>1. \A k \in 0..(n - 1) : \E i \in S : f[i] = k
    BY <1>7 DEF Surjection
  <2>2. \A k \in 1..n : k - 1 \in 0..(n - 1)
    BY <1>1
  <2> QED
    BY <2>1, <2>2
<1>9. \A k \in 1..n : InOrder(S)[k] \in S /\ Place(InOrder(S)[k]) = k - 1
  BY <1>8 DEF InOrder
<1>10. ASSUME NEW i \in S
       PROVE  \E k \in 1..n : InOrder(S)[k] = i
  <2>1. Place(i) + 1 \in 1..n /\ (Place(i) + 1) - 1 = Place(i)
    BY <1>1, <1>2
  <2>2. InOrder(S)[Place(i) + 1] \in S /\ Place(InOrder(S)[Place(i) + 1]) = Place(i)
    BY <1>9, <2>1
  <2> QED
    BY <1>4, <2>1, <2>2
<1>11. DOMAIN InOrder(S) = 1..n
  BY DEF InOrder
<1> QED
  BY <1>1, <1>9, <1>10, <1>11

(* The step of From, and what it satisfies.                                *)
Began(a, k) == IF TooLong(a, k) THEN Least(Suffix(a, k)) ELSE a
BeganUpTo(n) == {f \in [1..n -> Nat] :
  \A k \in 1..n : f[k] \in 1..k /\ f[k] = IF k = 1 THEN 1 ELSE Began(f[k - 1], k)}

(* A chunk begins at the last segment that is added to it, or earlier.     *)
LEMMA BeganInChunk ==
  ASSUME NEW k \in Nat, NEW a \in 1..k
  PROVE  Began(a, k) \in a..k
<1>1. Suffix(a, k) \subseteq Nat /\ Suffix(a, k) # {} /\ Suffix(a, k) \subseteq a..k
  BY DEF Suffix
<1>2. Least(Suffix(a, k)) \in a..k
  BY <1>1, LeastThereIs
<1> QED
  BY <1>2 DEF Began

(* A recursive function is defined when there is one that fulfils its      *)
(* equation: one for every number of segments.                             *)
LEMMA ChunksBegin ==
  ASSUME NEW n \in Nat
  PROVE  BeganUpTo(n) # {}
<1> DEFINE C == {m \in Nat : BeganUpTo(m) = {}}
<1> SUFFICES ASSUME C # {}
             PROVE  FALSE
  OBVIOUS
<1>1. Least(C) \in C /\ \A j \in C : Least(C) <= j
  BY LeastThereIs
<1>2. PICK m \in Nat : BeganUpTo(m) = {} /\ \A j \in Nat : j < m => BeganUpTo(j) # {}
  <2> DEFINE m == Least(C)
  <2>1. m \in Nat /\ BeganUpTo(m) = {}
    BY <1>1
  <2>2. \A j \in Nat : j < m => j \notin C
    <3> HIDE DEF C
    <3> m \in Nat
      BY <2>1
    <3> QED
      BY <1>1
  <2> QED
    BY <2>1, <2>2
<1>3. CASE m = 0
  <2>1. [x \in 1..0 |-> 0] \in BeganUpTo(0)
    BY DEF BeganUpTo
  <2> QED
    BY <1>2, <1>3, <2>1
<1>4. CASE m # 0
  <2>1. m - 1 \in Nat /\ m - 1 < m
    BY <1>2, <1>4
  <2>2. PICK f \in [1..(m - 1) -> Nat] :
          \A k \in 1..(m - 1) : f[k] \in 1..k /\ f[k] = IF k = 1 THEN 1 ELSE Began(f[k - 1], k)
    <3>1. BeganUpTo(m - 1) # {}
      BY <1>2, <2>1
    <3>2. PICK f \in BeganUpTo(m - 1) : TRUE
      BY <3>1
    <3> QED
      BY <3>2 DEF BeganUpTo
  <2> DEFINE b == IF m = 1 THEN 1 ELSE Began(f[m - 1], m)
             g == [k \in 1..m |-> IF k = m THEN b ELSE f[k]]
  <2>3. b \in 1..m
    <3>1. CASE m = 1
      BY <3>1
    <3>2. CASE m # 1
      <4>1. m - 1 \in 1..(m - 1) /\ f[m - 1] \in 1..m
        BY <1>4, <2>1, <2>2, <3>2
      <4>2. Began(f[m - 1], m) \in f[m - 1]..m
        BY <4>1, BeganInChunk
      <4> QED
        BY <3>2, <4>1, <4>2
    <3> QED
      BY <3>1, <3>2
  <2> HIDE DEF b
  <2>4. ASSUME NEW k \in 1..m
        PROVE  g[k] \in 1..k /\ g[k] = IF k = 1 THEN 1 ELSE Began(g[k - 1], k)
    <3>1. CASE k = m
      <4>1. g[k] = b
        BY <3>1
      <4>2. k # 1 => k - 1 \in 1..m /\ k - 1 # m /\ g[k - 1] = f[m - 1]
        BY <3>1
      <4> QED
        BY <2>3, <3>1, <4>1, <4>2 DEF b
    <3>2. CASE k # m
      <4>1. k \in 1..(m - 1) /\ g[k] = f[k]
        BY <3>2, <1>2
      <4>2. k # 1 => g[k - 1] = f[k - 1]
        BY <3>2, <4>1
      <4> QED
        BY <2>2, <4>1, <4>2
    <3> QED
      BY <3>1, <3>2
  <2>5. g \in [1..m -> Nat]
    <3>1. \A k \in 1..m : g[k] \in 1..k
      BY <2>4
    <3> QED
      BY <3>1
  <2>6. g \in BeganUpTo(m)
    <3> HIDE DEF g
    <3> QED
      BY <2>4, <2>5 DEF BeganUpTo
  <2> QED
    BY <1>2, <2>6
<1> QED
  BY <1>3, <1>4

(* From is defined: a chunk begins with a segment up to its last one.      *)
LEMMA FromIsDefined ==
  ASSUME NEW n \in Nat, Len(transcript) = n
  PROVE  \A k \in 1..n : From[k] \in 1..k
<1>1. PICK f \in [1..n -> Nat] :
        \A k \in 1..n : f[k] \in 1..k /\ f[k] = IF k = 1 THEN 1 ELSE Began(f[k - 1], k)
  BY ChunksBegin DEF BeganUpTo
<1> DEFINE D(g) == [k \in 1..Len(transcript) |->
             IF k = 1 THEN 1
             ELSE LET a == g[k - 1] IN IF TooLong(a, k) THEN Least(Suffix(a, k)) ELSE a]
<1>2. f = D(f)
  <2>1. \A k \in 1..n : f[k] = D(f)[k]
    BY <1>1 DEF Began
  <2> QED
    BY <1>1, <2>1
<1>3. From = D(From)
  <2> HIDE DEF D
  <2>1. \E g : g = D(g)
    BY <1>2
  <2>2. From = CHOOSE g : g = D(g)
    BY DEF From, D
  <2> QED
    BY <2>1, <2>2
<1>4. \A k \in 1..n : From[k] = IF k = 1 THEN 1 ELSE Began(From[k - 1], k)
  <2>1. \A k \in 1..n : D(From)[k] = IF k = 1 THEN 1 ELSE Began(From[k - 1], k)
    BY DEF Began
  <2> QED
    BY <1>3, <2>1
<1> DEFINE C == {k \in 1..n : From[k] \notin 1..k}
<1> SUFFICES ASSUME C # {}
             PROVE  FALSE
  OBVIOUS
<1>5. PICK k \in 1..n : From[k] \notin 1..k /\ \A j \in 1..n : j < k => From[j] \in 1..j
  <2> DEFINE m == Least(C)
  <2>0. C \subseteq Nat
    OBVIOUS
  <2>1. m \in C /\ \A j \in C : m <= j
    BY <2>0, LeastThereIs
  <2>2. \A j \in 1..n : j < m => j \notin C
    <3> m \in Nat
      BY <2>0, <2>1
    <3> HIDE DEF C
    <3> QED
      BY <2>1
  <2> QED
    BY <2>1, <2>2
<1>6. CASE k = 1
  BY <1>4, <1>5, <1>6
<1>7. CASE k # 1
  <2>1. k \in Nat /\ k - 1 \in 1..n /\ From[k - 1] \in 1..k
    BY <1>5, <1>7
  <2>2. Began(From[k - 1], k) \in From[k - 1]..k
    BY <2>1, BeganInChunk
  <2> QED
    BY <1>4, <1>5, <1>7, <2>1, <2>2
<1> QED
  BY <1>6, <1>7

(* Of windows that are not empty there is a first one.                     *)
LEMMA EarliestThereIs ==
  ASSUME NEW S, S \subseteq Nat \X Nat, S # {}
  PROVE  \E w \in S : \A v \in S : ~Earlier(v, w)
<1> DEFINE A == {i \in Nat : \E j \in Nat : <<i, j>> \in S}
           a == Least(A)
           B == {j \in Nat : <<a, j>> \in S}
           b == Least(B)
<1>1. A # {}
  <2>1. PICK w \in S : TRUE
    OBVIOUS
  <2>2. w[1] \in Nat /\ w[2] \in Nat /\ w = <<w[1], w[2]>>
    OBVIOUS
  <2> QED
    BY <2>1, <2>2
<1>2. a \in A /\ \A i \in A : a <= i
  BY <1>1, LeastThereIs
<1>3. B # {}
  BY <1>2
<1>4. b \in B /\ \A j \in B : b <= j
  BY <1>3, LeastThereIs
<1>5. <<a, b>> \in S /\ a \in Nat /\ b \in Nat
  BY <1>2, <1>4
<1>6. ASSUME NEW v \in S
      PROVE  ~Earlier(v, <<a, b>>)
  <2>1. v[1] \in Nat /\ v[2] \in Nat /\ v = <<v[1], v[2]>>
    OBVIOUS
  <2>2. v[1] \in A
    BY <2>1
  <2>3. a <= v[1]
    BY <1>2, <2>2
  <2>4. v[1] = a => v[2] \in B
    BY <2>1
  <2>5. v[1] = a => b <= v[2]
    BY <1>4, <2>4
  <2> HIDE DEF a, b
  <2> QED
    BY <1>5, <2>1, <2>3, <2>5 DEF Earlier
<1> QED
  BY <1>5, <1>6

(* Which of the windows in T stay, in the order of their starts and ends.  *)
StayIn(K, T) == \A w \in T : w \in K <=> \A v \in K : Earlier(v, w) => ~Duplicate(w, v)
Downward(T, S) == \A w \in T, v \in S : Earlier(v, w) => v \in T

(* Of two windows one is earlier, and no window is earlier than itself.    *)
LEMMA EarlierIsStrict ==
  ASSUME NEW v \in Nat \X Nat, NEW w \in Nat \X Nat
  PROVE  /\ ~Earlier(w, w) /\ (v # w => Earlier(v, w) \/ Earlier(w, v))
         /\ ~(Earlier(v, w) /\ Earlier(w, v))
<1>1. v[1] \in Nat /\ v[2] \in Nat /\ v = <<v[1], v[2]>>
  OBVIOUS
<1>2. w[1] \in Nat /\ w[2] \in Nat /\ w = <<w[1], w[2]>>
  OBVIOUS
<1> QED
  BY <1>1, <1>2 DEF Earlier

(* The recursive function of Filtered is defined: some windows stay.       *)
LEMMA SomeStay ==
  ASSUME NEW S, S \subseteq Nat \X Nat, IsFiniteSet(S)
  PROVE  \E K \in SUBSET S : StayIn(K, S)
<1> DEFINE C == {U \in SUBSET S : Downward(S \ U, S) /\ \E K \in SUBSET (S \ U) : StayIn(K, S \ U)}
           R == StrictSubsetOrdering(S)
<1>1. S \in C
  <2>1. {} \in SUBSET (S \ S) /\ StayIn({}, S \ S) /\ Downward(S \ S, S)
    BY DEF StayIn, Downward
  <2> QED
    BY <2>1
<1>2. PICK U \in C : \A V \in C : ~(<<V, U>> \in R)
  <2>1. IsWellFoundedOn(R, SUBSET S)
    BY FS_StrictSubsetOrderingWellFounded, FS_FiniteSubsetsOfFinite
  <2>2. C \subseteq SUBSET S /\ C # {}
    BY <1>1
  <2> HIDE DEF C, R
  <2> QED
    BY <2>1, <2>2, WFMin
<1>3. PICK K \in SUBSET (S \ U) : StayIn(K, S \ U)
  OBVIOUS
<1>4. CASE U = {}
  <2>1. S \ U = S
    BY <1>4
  <2> QED
    BY <1>3, <2>1
<1>5. CASE U # {}
  <2>1. U \subseteq S /\ U \subseteq Nat \X Nat
    OBVIOUS
  <2>2. PICK x \in U : \A v \in U : ~Earlier(v, x)
    BY <1>5, <2>1, EarliestThereIs
  <2> DEFINE V == U \ {x}
             stays == \A v \in K : Earlier(v, x) => ~Duplicate(x, v)
             L == IF stays THEN K \cup {x} ELSE K
  <2>3. S \ V = (S \ U) \cup {x} /\ x \in S /\ V \in SUBSET S /\ x \notin K
    BY <2>1
  <2>4. Downward(S \ U, S)
    OBVIOUS
  <2>5. Downward(S \ V, S)
    BY <2>2, <2>3, <2>4 DEF Downward
  <2>6. \A w \in S \ U : ~Earlier(x, w)
    BY <2>3, <2>4 DEF Downward
  <2>7. ~Earlier(x, x)
    BY <2>1, EarlierIsStrict
  <2>8. ASSUME NEW w \in S \ V
        PROVE  w \in L <=> \A v \in L : Earlier(v, w) => ~Duplicate(w, v)
    <3>1. CASE w = x
      <4>1. x \in L <=> stays
        BY <2>3
      <4>2. (\A v \in L : Earlier(v, x) => ~Duplicate(x, v)) <=> stays
        BY <2>7
      <4> QED
        BY <3>1, <4>1, <4>2
    <3>2. CASE w # x
      <4>1. w \in S \ U /\ ~Earlier(x, w)
        BY <2>3, <2>6, <3>2
      <4>2. w \in L <=> w \in K
        BY <3>2
      <4>3. (\A v \in L : Earlier(v, w) => ~Duplicate(w, v)) <=> (\A v \in K : Earlier(v, w) => ~Duplicate(w, v))
        BY <4>1
      <4> QED
        BY <1>3, <4>1, <4>2, <4>3 DEF StayIn
    <3> QED
      BY <3>1, <3>2
  <2>9. L \in SUBSET (S \ V) /\ StayIn(L, S \ V)
    <3>1. L \in SUBSET (S \ V)
      BY <2>3
    <3> HIDE DEF L, V
    <3> QED
      BY <2>8, <3>1 DEF StayIn
  <2>10. V \in C
    <3> HIDE DEF L, V
    <3> QED
      BY <2>3, <2>5, <2>9
  <2>11. <<V, U>> \in R
    BY <2>1, <2>2 DEF StrictSubsetOrdering
  <2> QED
    BY <1>2, <2>10, <2>11
<1> QED
  BY <1>4, <1>5

(* deduplicate_candidates keeps windows of which no two are duplicates.    *)
LEMMA FilteredApart ==
  ASSUME NEW S, S \subseteq Nat \X Nat, IsFiniteSet(S)
  PROVE  /\ Filtered(S) \subseteq S
         /\ \A v, w \in Filtered(S) : v # w => ~Duplicate(v, w) \/ ~Duplicate(w, v)
<1> DEFINE D(g) == [w \in S |-> \A v \in S : Earlier(v, w) /\ Duplicate(w, v) => ~g[v]]
           h == CHOOSE g : g = D(g)
<1>1. Filtered(S) = {w \in S : h[w]}
  BY DEF Filtered
<1>2. \E g : g = D(g)
  <2>1. PICK K \in SUBSET S : StayIn(K, S)
    BY SomeStay
  <2> DEFINE f == [w \in S |-> w \in K]
  <2>2. ASSUME NEW w \in S
        PROVE  f[w] = D(f)[w]
    <3>1. f[w] <=> w \in K
      OBVIOUS
    <3>2. D(f)[w] <=> \A v \in S : Earlier(v, w) /\ Duplicate(w, v) => ~(v \in K)
      OBVIOUS
    <3>3. (w \in K) <=> \A v \in S : Earlier(v, w) /\ Duplicate(w, v) => ~(v \in K)
      BY <2>1 DEF StayIn
    <3>4. f[w] \in BOOLEAN /\ D(f)[w] \in BOOLEAN
      OBVIOUS
    <3> QED
      BY <3>1, <3>2, <3>3, <3>4
  <2>3. f = D(f)
    <3>1. D(f) = [w \in S |-> D(f)[w]] /\ f = [w \in S |-> f[w]]
      OBVIOUS
    <3> QED
      BY <2>2, <3>1
  <2> QED
    BY <2>3
<1>3. h = D(h)
  <2> HIDE DEF D
  <2> QED
    BY <1>2
<1>4. ASSUME NEW v \in Filtered(S), NEW w \in Filtered(S), Earlier(v, w)
      PROVE  ~Duplicate(w, v)
  <2>1. v \in S /\ w \in S /\ h[v] /\ h[w]
    BY <1>1
  <2> HIDE DEF h
  <2>2. h[w] = \A u \in S : Earlier(u, w) /\ Duplicate(w, u) => ~h[u]
    BY <1>3, <2>1
  <2> QED
    BY <1>4, <2>1, <2>2
<1>5. Filtered(S) \subseteq S
  BY <1>1
<1> QED
  BY <1>4, <1>5, EarlierIsStrict

(* A window has a start, an end, and a duration that is not zero.          *)
LEMMA WindowTimes ==
  ASSUME transcript \in Seq(Segment), NEW w \in Window
  PROVE  /\ w[1] \in Nat /\ w[2] \in Nat /\ w \in Nat \X Nat /\ w[1] <= w[2]
         /\ Start(w) \in Nat /\ End(w) \in Nat /\ Duration(w) \in Nat \ {0} /\ End(w) = Start(w) + Duration(w)
<1> DEFINE D == 1..Len(transcript)
<1>1. w \in D \X D /\ w[1] <= w[2] /\ Duration(w) > 0
  BY DEF Window
<1>2. Len(transcript) \in Nat /\ w[1] \in D /\ w[2] \in D
  <2>1. Len(transcript) \in Nat
    BY LenProperties
  <2> HIDE DEF D
  <2>2. w[1] \in D /\ w[2] \in D
    BY <1>1
  <2> QED
    BY <2>1, <2>2
<1>3. transcript[w[1]] \in Segment /\ transcript[w[2]] \in Segment
  BY <1>2, ElementOfSeq
<1>4. Start(w) \in Nat /\ End(w) \in Nat
  BY <1>3 DEF Start, End, Segment
<1>5. Duration(w) = End(w) - Start(w)
  BY DEF Duration
<1>6. w[1] \in Nat /\ w[2] \in Nat
  BY <1>2
<1>7. w \in Nat \X Nat
  BY <1>1, <1>2
<1> QED
  BY <1>1, <1>4, <1>5, <1>6, <1>7

(* What two windows have in common is common to both, and all of the       *)
(* shorter one if they start together.                                     *)
LEMMA CommonTime ==
  ASSUME transcript \in Seq(Segment), NEW v \in Window, NEW w \in Window
  PROVE  /\ Common(v, w) \in Nat /\ Common(v, w) = Common(w, v)
         /\ Shorter(v, w) \in Nat \ {0} /\ Shorter(v, w) = Shorter(w, v)
         /\ (Start(v) = Start(w) => Common(v, w) = Shorter(v, w))
<1>1. PICK s \in Nat, t \in Nat, d \in Nat \ {0}, e \in Nat \ {0} :
        Start(v) = s /\ Start(w) = t /\ Duration(v) = d /\ Duration(w) = e
  BY WindowTimes
<1>2. End(v) = s + d /\ End(w) = t + e
  BY <1>1, WindowTimes
<1>3. /\ Common(v, w) = Larger(0, Smaller(s + d, t + e) - Larger(s, t))
      /\ Common(w, v) = Larger(0, Smaller(t + e, s + d) - Larger(t, s))
  BY <1>1, <1>2 DEF Common
<1>4. Shorter(v, w) = Smaller(d, e) /\ Shorter(w, v) = Smaller(e, d)
  BY <1>1 DEF Shorter
<1>5. /\ Common(v, w) \in Nat /\ Common(v, w) = Common(w, v)
      /\ (s = t => Common(v, w) = Smaller(d, e))
  BY <1>3 DEF Larger, Smaller
<1>6. Smaller(d, e) \in Nat \ {0} /\ Smaller(d, e) = Smaller(e, d)
  BY DEF Smaller
<1> QED
  BY <1>1, <1>4, <1>5, <1>6

(* A window is alike another if this one is alike it.                      *)
LEMMA AlikeIsSymmetric ==
  ASSUME transcript \in Seq(Segment), NEW v \in Window, NEW w \in Window, NEW t, NEW r
  PROVE  Alike(v, w, t, r) <=> Alike(w, v, t, r)
<1>0. \A x, y \in Nat : Distance(x, y) = Distance(y, x)
  BY DEF Distance, Larger
<1>1. Distance(Start(v), Start(w)) = Distance(Start(w), Start(v))
  BY <1>0, WindowTimes
<1>2. Distance(End(v), End(w)) = Distance(End(w), End(v))
  BY <1>0, WindowTimes
<1> QED
  BY <1>1, <1>2, CommonTime DEF Alike, Near, Nested

(* The thresholds that are relaxed are reached by fewer windows.           *)
LEMMA RelaxedIsDuplicate ==
  ASSUME transcript \in Seq(Segment), NEW v \in Window, NEW w \in Window, RelaxedDuplicate(v, w)
  PROVE  Duplicate(v, w)
<1>1. CASE Near(v, w, RelaxedTolerance)
  <2>0. \A x, y \in Nat : Distance(x, y) \in Nat
    BY DEF Distance, Larger
  <2>1. Distance(Start(v), Start(w)) \in Nat /\ Distance(End(v), End(w)) \in Nat
    BY <2>0, WindowTimes
  <2>2. Tolerance \in Nat /\ RelaxedTolerance \in Nat /\ RelaxedTolerance <= Tolerance
    BY SelectionAssumption
  <2> QED
    BY <1>1, <2>1, <2>2 DEF Duplicate, Alike, Near
<1>2. CASE Nested(v, w, RelaxedRatio)
  <2> DEFINE s == Shorter(v, w)
             c == Common(v, w)
  <2>1. s \in Nat /\ c \in Nat
    BY CommonTime
  <2>2. Ratio \in Nat /\ RelaxedRatio \in Nat /\ Ratio <= RelaxedRatio
    BY SelectionAssumption
  <2>3. 100 * c >= RelaxedRatio * s
    BY <1>2 DEF Nested
  <2> HIDE DEF s, c
  <2>4. PICK d \in Nat : RelaxedRatio = Ratio + d
    <3>1. RelaxedRatio - Ratio \in Nat /\ RelaxedRatio = Ratio + (RelaxedRatio - Ratio)
      BY <2>2
    <3> QED
      BY <3>1
  <2>5. RelaxedRatio * s = Ratio * s + d * s /\ d * s \in Nat /\ Ratio * s \in Nat
    BY <2>1, <2>2, <2>4
  <2>6. 100 * c >= Ratio * s
    <3>1. 100 * c \in Nat
      BY <2>1
    <3> HIDE <2>4
    <3> QED
      BY <2>3, <2>5, <3>1
  <2> QED
    BY <2>6 DEF Duplicate, Alike, Nested, s, c
<1> QED
  BY <1>1, <1>2 DEF RelaxedDuplicate, Alike

(* Windows that start together are duplicates.                             *)
LEMMA SameStartIsDuplicate ==
  ASSUME Ratio <= 100, transcript \in Seq(Segment), NEW v \in Window, NEW w \in Window, Start(v) = Start(w)
  PROVE  Duplicate(v, w)
<1> DEFINE s == Shorter(v, w)
<1>1. Common(v, w) = s /\ s \in Nat
  BY CommonTime
<1>2. Ratio \in Nat
  BY SelectionAssumption
<1>3. PICK d \in Nat : 100 = Ratio + d
  <2>1. 100 - Ratio \in Nat /\ 100 = Ratio + (100 - Ratio)
    BY <1>2
  <2> QED
    BY <2>1
<1> HIDE DEF s
<1>4. (Ratio + d) * s = Ratio * s + d * s /\ d * s \in Nat /\ Ratio * s \in Nat
  BY <1>1, <1>2, <1>3
<1>5. 100 * s = Ratio * s + d * s
  BY <1>3, <1>4
<1>6. 100 * s >= Ratio * s
  <2> HIDE <1>3
  <2> QED
    BY <1>4, <1>5
<1> QED
  BY <1>1, <1>6 DEF Duplicate, Alike, Nested, s

(* Of the windows of a chunk no two start together.                        *)
LEMMA WindowsOfChunk ==
  ASSUME transcript \in Seq(Segment), NEW c \in Ends
  PROVE  /\ Windows(c) \subseteq Window /\ IsFiniteSet(Windows(c))
         /\ (Ratio <= 100 => \A v, w \in Windows(c) : Start(v) = Start(w) => v = w)
<1> DEFINE n == Len(transcript)
<1>1. n \in Nat
  BY LenProperties
<1>2. c \in 1..n
  BY DEF Ends
<1>3. From[c] \in 1..c
  BY <1>1, <1>2, FromIsDefined
<1>4. Chunk(c) \subseteq 1..n /\ IsFiniteSet(Chunk(c))
  <2>1. From[c] \in Int /\ c \in Int
    BY <1>1, <1>2, <1>3
  <2>2. IsFiniteSet(From[c]..c)
    BY <2>1, FS_Interval
  <2>3. From[c]..c \subseteq 1..n
    BY <1>1, <1>2, <1>3
  <2> QED
    BY <2>2, <2>3 DEF Chunk
<1>5. Enumerated(c) \subseteq Window
  <2>1. ASSUME NEW w \in Enumerated(c)
        PROVE  w \in Window
    <3>1. w \in Chunk(c) \X Chunk(c) /\ w[1] <= w[2] /\ Duration(w) \in Shortest..Longest
      BY DEF Enumerated
    <3>2. w \in (1..n) \X (1..n)
      BY <1>4, <3>1
    <3>3. Shortest \in Nat \ {0} /\ Longest \in Nat
      BY SelectionAssumption
    <3>4. Duration(w) > 0
      BY <3>1, <3>3
    <3> QED
      BY <3>1, <3>2, <3>4 DEF Window
  <2> QED
    BY <2>1
<1>6. IsFiniteSet(Enumerated(c))
  <2>1. IsFiniteSet(Chunk(c) \X Chunk(c))
    BY <1>4, FS_Product
  <2>2. Enumerated(c) \in SUBSET (Chunk(c) \X Chunk(c))
    BY DEF Enumerated
  <2> QED
    BY <2>1, <2>2, FS_Subset
<1>7. Enumerated(c) \subseteq Nat \X Nat
  BY <1>5, WindowTimes
<1>8. /\ Windows(c) \subseteq Enumerated(c)
      /\ \A v, w \in Windows(c) : v # w => ~Duplicate(v, w) \/ ~Duplicate(w, v)
  BY <1>6, <1>7, FilteredApart DEF Windows
<1>9. IsFiniteSet(Windows(c))
  BY <1>6, <1>8, FS_Subset
<1>10. ASSUME Ratio <= 100, NEW v \in Windows(c), NEW w \in Windows(c), Start(v) = Start(w)
       PROVE  v = w
  <2>1. v \in Window /\ w \in Window
    BY <1>5, <1>8
  <2>2. Duplicate(v, w) /\ Duplicate(w, v)
    BY <1>10, <2>1, SameStartIsDuplicate
  <2> QED
    BY <1>8, <2>2
<1> QED
  BY <1>5, <1>8, <1>9, <1>10

(* More numbers have no smaller greatest one.                              *)
LEMMA GreatestGrows ==
  ASSUME NEW S, NEW T, T \subseteq Int, IsFiniteSet(T), S \subseteq T
  PROVE  /\ Greatest(S) \in Int /\ Greatest(T) \in Int
         /\ Greatest(S) <= Greatest(T)
<1>1. ASSUME NEW U, U \subseteq T
      PROVE  Greatest(U) \in U \cup {0} /\ \A y \in U \cup {0} : y <= Greatest(U)
  <2>1. IsFiniteSet(U)
    BY <1>1, FS_Subset
  <2>2. IsFiniteSet(U \cup {0}) /\ U \cup {0} \subseteq Int /\ U \cup {0} # {}
    BY <1>1, <2>1, FS_AddElement
  <2>3. \E x \in U \cup {0} : \A y \in U \cup {0} : y <= x
    BY <2>2, GreatestThereIs
  <2> QED
    BY <2>3 DEF Greatest
<1>2. Greatest(S) \in S \cup {0}
  BY <1>1
<1>3. Greatest(T) \in T \cup {0} /\ \A y \in T \cup {0} : y <= Greatest(T)
  BY <1>1
<1>4. Greatest(S) \in T \cup {0}
  BY <1>2
<1>5. Greatest(S) \in Int /\ Greatest(T) \in Int
  <2>1. \A x \in T \cup {0} : x \in Int
    <3>1. \A x \in T : x \in Int
      OBVIOUS
    <3> QED
      BY <3>1
  <2> QED
    BY <1>3, <1>4, <2>1
<1> QED
  BY <1>3, <1>4, <1>5

(* The similarity of two texts is a number.                                *)
LEMMA TextOverlap ==
  ASSUME NEW S, NEW T, IsFiniteSet(S), IsFiniteSet(T), S # {}
  PROVE  Similarity(S, T) \in Int
<1>1. IsFiniteSet(S \cap T) /\ IsFiniteSet(S \cup T)
  BY FS_Intersection, FS_Union
<1>2. Cardinality(S \cap T) \in Nat /\ Cardinality(S \cup T) \in Nat
  BY <1>1, FS_CardinalityType
<1>3. Cardinality(S \cup T) # 0
  <2>1. S \cup T # {}
    OBVIOUS
  <2> QED
    BY <1>1, <2>1, FS_EmptySet
<1>4. \A x \in Nat, y \in Nat \ {0} : (100 * x) \div y \in Int
  OBVIOUS
<1> QED
  BY <1>2, <1>3, <1>4 DEF Similarity

(* A window has a text, and an opening.                                    *)
LEMMA WindowTexts ==
  ASSUME transcript \in Seq(Segment), NEW w \in Window
  PROVE  IsFiniteSet(Text(w)) /\ Text(w) # {} /\ IsFiniteSet(Opening(w)) /\ Opening(w) # {}
<1>1. w[1] \in Nat /\ w[2] \in Nat /\ w[1] <= w[2]
  BY WindowTimes
<1>2. IsFiniteSet(w[1]..w[2])
  <2>1. w[1] \in Int /\ w[2] \in Int
    BY <1>1
  <2> QED
    BY <2>1, FS_Interval
<1>3. w[1] \in Text(w) /\ w[1] \in Opening(w)
  BY <1>1 DEF Text, Opening
<1>4. IsFiniteSet(Opening(w))
  <2>1. Opening(w) \in SUBSET Text(w)
    BY DEF Opening
  <2> QED
    BY <1>2, <2>1, FS_Subset DEF Text
<1> QED
  BY <1>2, <1>3, <1>4 DEF Text

(* The more windows are ranked, the more a window loses.                   *)
LEMMA PenaltyGrows ==
  ASSUME transcript \in Seq(Segment), NEW w \in Window, NEW T, T \subseteq Window, IsFiniteSet(T),
         NEW S, S \subseteq T
  PROVE  Penalty(w, S) \in Int /\ Penalty(w, T) \in Int /\ Penalty(w, S) <= Penalty(w, T)
<1> DEFINE O(U) == {Overlap(w, v) : v \in U}
           X(U) == {Similarity(Text(w), Text(v)) : v \in U}
           Y(U) == {Similarity(Opening(w), Opening(v)) : v \in U}
<1>1. ASSUME NEW v \in T
      PROVE  /\ Overlap(w, v) \in Int /\ Similarity(Text(w), Text(v)) \in Int
             /\ Similarity(Opening(w), Opening(v)) \in Int
  <2>1. v \in Window
    BY <1>1
  <2>2. \A x \in Nat, y \in Nat \ {0} : (100 * x) \div y \in Int
    OBVIOUS
  <2>3. Overlap(w, v) \in Int
    BY <2>1, <2>2, CommonTime DEF Overlap
  <2> QED
    BY <2>1, <2>3, WindowTexts, TextOverlap
<1>2. O(S) \subseteq O(T) /\ O(T) \subseteq Int /\ IsFiniteSet(O(T))
  <2>1. [v \in T |-> Overlap(w, v)] \in Surjection(T, O(T))
    BY DEF Surjection
  <2>2. IsFiniteSet(O(T))
    BY <2>1, FS_Surjection
  <2> QED
    BY <1>1, <2>2
<1>3. X(S) \subseteq X(T) /\ X(T) \subseteq Int /\ IsFiniteSet(X(T))
  <2>1. [v \in T |-> Similarity(Text(w), Text(v))] \in Surjection(T, X(T))
    BY DEF Surjection
  <2>2. IsFiniteSet(X(T))
    BY <2>1, FS_Surjection
  <2> QED
    BY <1>1, <2>2
<1>4. Y(S) \subseteq Y(T) /\ Y(T) \subseteq Int /\ IsFiniteSet(Y(T))
  <2>1. [v \in T |-> Similarity(Opening(w), Opening(v))] \in Surjection(T, Y(T))
    BY DEF Surjection
  <2>2. IsFiniteSet(Y(T))
    BY <2>1, FS_Surjection
  <2> QED
    BY <1>1, <2>2
<1> HIDE DEF O, X, Y
<1>5. PICK o1 \in Int, o2 \in Int, x1 \in Int, x2 \in Int, y1 \in Int, y2 \in Int :
        /\ Greatest(O(S)) = o1 /\ Greatest(O(T)) = o2 /\ o1 <= o2
        /\ Greatest(X(S)) = x1 /\ Greatest(X(T)) = x2 /\ x1 <= x2
        /\ Greatest(Y(S)) = y1 /\ Greatest(Y(T)) = y2 /\ y1 <= y2
  BY <1>2, <1>3, <1>4, GreatestGrows
<1> DEFINE Total(o, x, y) == 28 * o + 15 * x + 12 * y
             + (IF o >= 70 /\ x >= 72 THEN 1200 ELSE 0)
             + (IF y >= 75 THEN 1600 ELSE 0)
             + (IF o >= 70 /\ y >= 75 THEN 1600 ELSE 0)
<1>6. Penalty(w, S) = Total(o1, x1, y1) /\ Penalty(w, T) = Total(o2, x2, y2)
  BY <1>5 DEF Penalty, O, X, Y
<1>7. Total(o1, x1, y1) \in Int /\ Total(o2, x2, y2) \in Int /\ Total(o1, x1, y1) <= Total(o2, x2, y2)
  <2>1. o1 <= o2 /\ x1 <= x2 /\ y1 <= y2
    BY <1>5
  <2> QED
    BY <2>1, SMTT(60)
<1> QED
  BY <1>6, <1>7

(* The more windows are ranked, the less a window scores.                  *)
LEMMA EffectiveFalls ==
  ASSUME transcript \in Seq(Segment), NEW w \in Window, base[w] \in Int, NEW T, T \subseteq Window, IsFiniteSet(T),
         NEW S, S \subseteq T
  PROVE  Effective(w, S) \in Int /\ Effective(w, T) \in Int /\ Effective(w, T) <= Effective(w, S)
<1>1. PICK b \in Int, p \in Int, q \in Int : base[w] = b /\ Penalty(w, S) = p /\ Penalty(w, T) = q /\ p <= q
  BY PenaltyGrows
<1>2. PICK k \in Nat : Weight = k
  BY SelectionAssumption
<1>3. PICK d \in Nat : q = p + d
  <2>1. q - p \in Nat /\ q = p + (q - p)
    BY <1>1
  <2> QED
    BY <2>1
<1>4. k * (p + d) = k * p + k * d /\ k * p \in Int /\ k * d \in Nat
  OBVIOUS
<1>5. Effective(w, S) = b - k * p /\ Effective(w, T) = b - (k * p + k * d)
  BY <1>1, <1>2, <1>3, <1>4 DEF Effective
<1>6. \A x \in Int, y \in Nat : b - x \in Int /\ b - (x + y) \in Int /\ b - (x + y) <= b - x
  OBVIOUS
<1> QED
  BY <1>4, <1>5, <1>6

(* A sequence that is joined of two has the elements of both.              *)
LEMMA ElementsJoined ==
  ASSUME NEW S, NEW s \in Seq(S), NEW t \in Seq(S)
  PROVE  s \o t \in Seq(S) /\ Elements(s \o t) = Elements(s) \cup Elements(t)
<1>1. PICK m \in Nat, n \in Nat : Len(s) = m /\ Len(t) = n
  BY LenProperties
<1>2. /\ s \o t \in Seq(S) /\ Len(s \o t) = m + n
      /\ \A i \in 1..(m + n) : (s \o t)[i] = IF i <= m THEN s[i] ELSE t[i - m]
  BY <1>1, ConcatProperties
<1>3. DOMAIN s = 1..m /\ DOMAIN t = 1..n /\ DOMAIN (s \o t) = 1..(m + n)
  BY <1>1, <1>2, LenProperties
<1>4. ASSUME NEW x \in Elements(s \o t)
      PROVE  x \in Elements(s) \cup Elements(t)
  <2>1. PICK i \in 1..(m + n) : x = (s \o t)[i]
    BY <1>3 DEF Elements
  <2>2. CASE i <= m
    BY <1>2, <1>3, <2>1, <2>2 DEF Elements
  <2>3. CASE ~(i <= m)
    <3>1. i - m \in 1..n
      BY <2>1, <2>3
    <3> QED
      BY <1>2, <1>3, <2>1, <2>3, <3>1 DEF Elements
  <2> QED
    BY <2>2, <2>3
<1>5. ASSUME NEW x \in Elements(s)
      PROVE  x \in Elements(s \o t)
  <2>1. PICK i \in 1..m : x = s[i]
    BY <1>3 DEF Elements
  <2>2. i \in 1..(m + n) /\ i <= m
    BY <2>1
  <2> QED
    BY <1>2, <1>3, <2>1, <2>2 DEF Elements
<1>6. ASSUME NEW x \in Elements(t)
      PROVE  x \in Elements(s \o t)
  <2>1. PICK i \in 1..n : x = t[i]
    BY <1>3 DEF Elements
  <2>2. m + i \in 1..(m + n) /\ ~(m + i <= m) /\ (m + i) - m = i
    BY <2>1
  <2>3. (s \o t)[m + i] = x
    BY <1>2, <2>1, <2>2
  <2> QED
    BY <1>3, <2>2, <2>3 DEF Elements
<1> QED
  BY <1>2, <1>4, <1>5, <1>6

(* What Merged is joined of: every ranked window is judged, or starts with *)
(* one that is, or is left as it was.                                      *)
LEMMA MergedParts ==
  ASSUME ranked \in Seq(Entry), NEW a \in Answers
  PROVE  /\ Judged(a) \in Seq(Entry) /\ Unjudged(a) \in Seq(Entry)
         /\ SubSeq(ranked, TopN + 1, Len(ranked)) \in Seq(Entry)
         /\ \A r \in Elements(Judged(a)) : \E k \in Ranks : r.window = ranked[k].window
         /\ Elements(Unjudged(a)) \subseteq Elements(ranked)
         /\ Elements(SubSeq(ranked, TopN + 1, Len(ranked))) \subseteq Elements(ranked)
         /\ \A k \in Ranks :
              \/ ranked[k] \in Elements(Unjudged(a))
              \/ ranked[k] \in Elements(SubSeq(ranked, TopN + 1, Len(ranked)))
              \/ \E r \in Elements(Judged(a)) : Start(r.window) = Start(ranked[k].window)
<1>1. PICK l \in Nat : Len(ranked) = l /\ Ranks = 1..l /\ DOMAIN ranked = 1..l /\ \A k \in 1..l : ranked[k] \in Entry
  <2>1. Len(ranked) \in Nat /\ DOMAIN ranked = 1..Len(ranked)
    BY LenProperties
  <2>2. \A k \in 1..Len(ranked) : ranked[k] \in Entry
    BY ElementOfSeq
  <2> QED
    BY <2>1, <2>2 DEF Ranks
<1>2. PICK t \in Nat \ {0} : TopN = t
  BY SelectionAssumption
<1> DEFINE m == Smaller(t, l)
<1>3. m \in 0..l /\ m <= t /\ (m = t \/ m = l)
  BY DEF Smaller
<1> HIDE DEF m
<1>4. DOMAIN First(TopN) = 1..m
  <2>1. First(TopN) = SubSeq(ranked, 1, m)
    BY <1>1, <1>2 DEF First, m
  <2>2. \A i \in 1..m : ranked[i] \in Entry
    BY <1>1, <1>3
  <2>3. 1 \in Int /\ m \in Int
    BY <1>3
  <2>4. SubSeq(ranked, 1, m) \in Seq(Entry) /\ Len(SubSeq(ranked, 1, m)) = IF 1 <= m THEN m - 1 + 1 ELSE 0
    BY <2>2, <2>3, SubSeqProperties
  <2>5. Len(SubSeq(ranked, 1, m)) = m
    BY <1>3, <2>4
  <2> QED
    BY <2>1, <2>4, <2>5, LenProperties
<1>5. PICK n \in Nat : a \in [1..n -> (1..m) \X Scores]
  BY <1>4 DEF Answers
<1>6. ASSUME NEW i \in 1..n
      PROVE  a[i][1] \in 1..l /\ a[i][1] \in 1..m /\ a[i][2] \in Int
  <2>1. a[i] \in (1..m) \X Scores
    BY <1>5
  <2>2. Scores \subseteq Int
    BY SelectionAssumption
  <2>3. a[i][1] \in 1..m /\ a[i][2] \in Scores
    BY <2>1
  <2>4. \A k \in 1..m : k \in 1..l
    BY <1>3
  <2> QED
    BY <2>2, <2>3, <2>4
<1>7. DOMAIN Judged(a) = 1..n /\ \A i \in 1..n : Judged(a)[i] = [window |-> ranked[a[i][1]].window, score |-> a[i][2]]
  BY <1>5 DEF Judged
<1>8. Judged(a) \in Seq(Entry)
  <2>1. \A i \in 1..n : ranked[a[i][1]].window \in Window /\ a[i][2] \in Int
    BY <1>1, <1>6 DEF Entry
  <2>2. \A i \in 1..n : Judged(a)[i] \in Entry
    <3>1. \A x \in Window, y \in Int : [window |-> x, score |-> y] \in Entry
      BY DEF Entry
    <3> QED
      BY <1>7, <2>1, <3>1
  <2>3. Judged(a) \in [1..n -> Entry]
    BY <1>7, <2>2 DEF Judged
  <2> QED
    BY <2>3, SeqDef
<1>9. ASSUME NEW r \in Elements(Judged(a))
      PROVE  \E k \in Ranks : r.window = ranked[k].window
  <2>1. PICK i \in 1..n : r = Judged(a)[i]
    BY <1>7, <1>9 DEF Elements
  <2>2. r.window = ranked[a[i][1]].window
    BY <1>7, <2>1
  <2>3. a[i][1] \in Ranks
    BY <1>1, <1>6
  <2> QED
    BY <2>2, <2>3
<1> DEFINE rest == {i \in 1..m : \A j \in 1..n : Start(ranked[i].window) # Start(ranked[a[j][1]].window)}
           c == Cardinality(rest)
<1>10. rest \subseteq Nat /\ IsFiniteSet(rest) /\ rest \subseteq 1..l
  <2>1. IsFiniteSet(1..m)
    <3>1. 1 \in Int /\ m \in Int
      BY <1>3
    <3> QED
      BY <3>1, FS_Interval
  <2>2. rest \in SUBSET (1..m) /\ 1..m \subseteq Nat /\ 1..m \subseteq 1..l
    BY <1>3
  <2> QED
    BY <2>1, <2>2, FS_Subset
<1>11. Unjudged(a) = [k \in DOMAIN InOrder(rest) |-> ranked[InOrder(rest)[k]]]
  BY <1>4, <1>5 DEF Unjudged
<1>12. /\ DOMAIN InOrder(rest) = 1..c /\ c \in Nat
       /\ \A k \in 1..c : InOrder(rest)[k] \in rest
       /\ \A i \in rest : \E k \in 1..c : InOrder(rest)[k] = i
  <2> HIDE DEF rest
  <2> QED
    BY <1>10, OrderCovers
<1> HIDE DEF rest, c
<1>13. DOMAIN Unjudged(a) = 1..c /\ \A k \in 1..c : Unjudged(a)[k] = ranked[InOrder(rest)[k]]
  BY <1>11, <1>12
<1>14. Unjudged(a) \in Seq(Entry)
  <2>1. \A k \in 1..c : Unjudged(a)[k] \in Entry
    BY <1>1, <1>10, <1>12, <1>13
  <2>2. Unjudged(a) \in [1..c -> Entry]
    BY <1>11, <1>12, <1>13, <2>1
  <2> QED
    BY <1>12, <2>2, SeqDef
<1>15. Elements(Unjudged(a)) \subseteq Elements(ranked)
  <2>1. ASSUME NEW k \in 1..c
        PROVE  Unjudged(a)[k] \in Elements(ranked)
    <3>1. InOrder(rest)[k] \in 1..l
      BY <1>10, <1>12
    <3> QED
      BY <1>1, <1>13, <3>1 DEF Elements
  <2> QED
    BY <1>13, <2>1 DEF Elements
<1> DEFINE tl == SubSeq(ranked, t + 1, l)
<1>16. /\ tl \in Seq(Entry) /\ Len(tl) = IF t + 1 <= l THEN l - (t + 1) + 1 ELSE 0
       /\ \A i \in 1..(l - (t + 1) + 1) : tl[i] = ranked[(t + 1) + i - 1]
  <2>1. t + 1 \in Int /\ l \in Int /\ \A i \in (t + 1)..l : ranked[i] \in Entry
    BY <1>1
  <2> QED
    BY <2>1, SubSeqProperties
<1> HIDE DEF tl
<1>17. DOMAIN tl = 1..Len(tl)
  BY <1>16, LenProperties
<1>18. Elements(tl) \subseteq Elements(ranked)
  <2>1. ASSUME NEW i \in 1..Len(tl)
        PROVE  tl[i] \in Elements(ranked)
    <3>1. i \in 1..(l - (t + 1) + 1) /\ (t + 1) + i - 1 \in 1..l
      BY <1>16
    <3> QED
      BY <1>1, <1>16, <3>1 DEF Elements
  <2> QED
    BY <1>17, <2>1 DEF Elements
<1>19. ASSUME NEW k \in 1..l, ~(k \in 1..m)
       PROVE  ranked[k] \in Elements(tl)
  <2>1. m = t /\ t + 1 <= l /\ k - t \in 1..(l - (t + 1) + 1) /\ (t + 1) + (k - t) - 1 = k
    BY <1>3, <1>19
  <2>2. k - t \in 1..Len(tl) /\ tl[k - t] = ranked[k]
    BY <1>16, <2>1
  <2> QED
    BY <1>17, <2>2 DEF Elements
<1>20. ASSUME NEW k \in 1..m
       PROVE  \/ ranked[k] \in Elements(Unjudged(a))
              \/ \E r \in Elements(Judged(a)) : Start(r.window) = Start(ranked[k].window)
  <2>1. CASE k \in rest
    <3>1. PICK i \in 1..c : InOrder(rest)[i] = k
      BY <1>12, <2>1
    <3> QED
      BY <1>13, <3>1 DEF Elements
  <2>2. CASE k \notin rest
    <3>1. PICK j \in 1..n : Start(ranked[k].window) = Start(ranked[a[j][1]].window)
      BY <2>2 DEF rest
    <3>2. Judged(a)[j] \in Elements(Judged(a)) /\ Judged(a)[j].window = ranked[a[j][1]].window
      BY <1>7 DEF Elements
    <3> QED
      BY <3>1, <3>2
  <2> QED
    BY <2>1, <2>2
<1> QED
  BY <1>1, <1>2, <1>8, <1>9, <1>14, <1>15, <1>16, <1>18, <1>19, <1>20 DEF tl

(* The merge of the answers of the LLM adds no window, and loses none if   *)
(* no two start together (llm_analysis.py 79-135).                         *)
LEMMA MergedKeepsAll ==
  ASSUME ranked \in Seq(Entry), NEW a \in Answers
  PROVE  /\ Merged(a) \in Seq(Entry)
         /\ \A r \in Elements(Merged(a)) : r.window \in Ranked
         /\ (\A v, w \in Ranked : Start(v) = Start(w) => v = w) =>
              \A w \in Ranked : \E r \in Elements(Merged(a)) : r.window = w
<1> DEFINE J == Judged(a)
           U == Unjudged(a)
           tl == SubSeq(ranked, TopN + 1, Len(ranked))
<1>1. /\ J \in Seq(Entry) /\ U \in Seq(Entry) /\ tl \in Seq(Entry)
      /\ \A r \in Elements(J) : \E k \in Ranks : r.window = ranked[k].window
      /\ Elements(U) \subseteq Elements(ranked) /\ Elements(tl) \subseteq Elements(ranked)
      /\ \A k \in Ranks :
           \/ ranked[k] \in Elements(U) \/ ranked[k] \in Elements(tl)
           \/ \E r \in Elements(J) : Start(r.window) = Start(ranked[k].window)
  BY MergedParts
<1>2. Merged(a) = (J \o U) \o tl
  BY DEF Merged
<1> HIDE DEF J, U, tl
<1>3. J \o U \in Seq(Entry) /\ Elements(J \o U) = Elements(J) \cup Elements(U)
  BY <1>1, ElementsJoined
<1>4. Merged(a) \in Seq(Entry) /\ Elements(Merged(a)) = (Elements(J) \cup Elements(U)) \cup Elements(tl)
  <2>1. PICK head \in Seq(Entry) : head = J \o U
    BY <1>3
  <2>2. head \o tl \in Seq(Entry) /\ Elements(head \o tl) = Elements(head) \cup Elements(tl)
    BY <1>1, ElementsJoined
  <2>3. Elements(head) = Elements(J) \cup Elements(U)
    BY <1>3, <2>1
  <2> QED
    BY <1>2, <2>1, <2>2, <2>3
<1>5. ASSUME NEW r \in Elements(ranked)
      PROVE  r.window \in Ranked
  BY DEF Elements, Ranked, Ranks
<1>6. ASSUME NEW r \in Elements(J)
      PROVE  r.window \in Ranked
  BY <1>1 DEF Ranked
<1>7. ASSUME \A v, w \in Ranked : Start(v) = Start(w) => v = w, NEW w \in Ranked
      PROVE  \E r \in Elements(Merged(a)) : r.window = w
  <2>1. PICK k \in Ranks : ranked[k].window = w
    BY DEF Ranked
  <2>2. CASE \E r \in Elements(J) : Start(r.window) = Start(ranked[k].window)
    BY <1>4, <1>6, <1>7, <2>1, <2>2
  <2> QED
    BY <1>1, <1>4, <2>1, <2>2
<1> QED
  BY <1>1, <1>4, <1>5, <1>6, <1>7

(* While the transcript stays, what is defined from it stays.              *)
LEMMA SameTranscript ==
  ASSUME transcript' = transcript
  PROVE  /\ Window' = Window /\ Entry' = Entry /\ Ends' = Ends
         /\ \A c : Windows(c)' = Windows(c)
         /\ \A v, w : RelaxedDuplicate(v, w)' <=> RelaxedDuplicate(v, w)
<1>1. \A w : Start(w)' = Start(w) /\ End(w)' = End(w)
  BY DEF Start, End
<1>2. \A w : Duration(w)' = Duration(w)
  BY <1>1 DEF Duration
<1>3. Window' = Window
  BY <1>2 DEF Window
<1>4. \A v, w : Common(v, w)' = Common(v, w) /\ Shorter(v, w)' = Shorter(v, w)
  BY <1>1, <1>2 DEF Common, Shorter
<1>5. \A v, w, t, r : Alike(v, w, t, r)' <=> Alike(v, w, t, r)
  BY <1>1, <1>4 DEF Alike, Near, Nested
<1>6. \A v, w : (RelaxedDuplicate(v, w)' <=> RelaxedDuplicate(v, w)) /\ (Duplicate(v, w)' <=> Duplicate(v, w))
  BY <1>5 DEF RelaxedDuplicate, Duplicate
<1>7. \A a, k : TooLong(a, k)' = TooLong(a, k) /\ Suffix(a, k)' = Suffix(a, k)
  BY DEF TooLong, Suffix
<1>8. From' = From
  BY DEF From, TooLong, Suffix
<1>9. Ends' = Ends
  BY <1>7, <1>8 DEF Ends
<1>10. \A c : Enumerated(c)' = Enumerated(c)
  BY <1>2, <1>8 DEF Enumerated, Chunk
<1>11. ASSUME NEW S
       PROVE  Filtered(S)' = Filtered(S)
  BY DEF Filtered, Duplicate, Alike, Near, Nested, Common, Shorter, Start, End, Duration
<1>12. ASSUME NEW c
       PROVE  Windows(c)' = Windows(c)
  BY <1>10, <1>11 DEF Windows
<1> QED
  BY <1>3, <1>6, <1>9, <1>12 DEF Entry

(* What is known of the elements of a sequence, a longer and a shorter     *)
(* one.                                                                    *)
LEMMA ElementsOfSequence ==
  ASSUME NEW S, NEW s \in Seq(S)
  PROVE  /\ Len(s) \in Nat /\ DOMAIN s = 1..Len(s) /\ Elements(s) \subseteq S /\ \A k \in 1..Len(s) : s[k] \in S
         /\ \A e \in S : Append(s, e) \in Seq(S) /\ Elements(Append(s, e)) = Elements(s) \cup {e}
         /\ s # <<>> => Tail(s) \in Seq(S) /\ s[1] \in S /\ Elements(s) = Elements(Tail(s)) \cup {s[1]}
<1>1. Len(s) \in Nat /\ DOMAIN s = 1..Len(s) /\ \A k \in 1..Len(s) : s[k] \in S
  BY LenProperties, ElementOfSeq
<1>2. ASSUME NEW e \in S
      PROVE  Append(s, e) \in Seq(S) /\ Elements(Append(s, e)) = Elements(s) \cup {e}
  <2>1. PICK t \in Seq(S) : t = <<e>> /\ Elements(t) = {e}
    <3>1. <<e>> \in Seq(S)
      OBVIOUS
    <3>2. DOMAIN <<e>> = {1} /\ <<e>>[1] = e
      OBVIOUS
    <3>3. Elements(<<e>>) = {e}
      BY <3>2 DEF Elements
    <3> QED
      BY <3>1, <3>3
  <2>2. Append(s, e) = s \o t
    BY <2>1, AppendIsConcat
  <2>3. s \o t \in Seq(S) /\ Elements(s \o t) = Elements(s) \cup Elements(t)
    BY ElementsJoined
  <2> QED
    BY <2>1, <2>2, <2>3
<1>3. ASSUME s # <<>>
      PROVE  Tail(s) \in Seq(S) /\ s[1] \in S /\ Elements(s) = Elements(Tail(s)) \cup {s[1]}
  <2>1. Len(s) # 0 /\ 1 \in 1..Len(s)
    BY <1>1, <1>3, EmptySeq
  <2>2. <<s[1]>> \in Seq(S) /\ Elements(<<s[1]>>) = {s[1]}
    BY <1>1, <2>1 DEF Elements
  <2>3. Tail(s) \in Seq(S)
    BY <1>3, HeadTailProperties
  <2>4. s = <<s[1]>> \o Tail(s)
    <3>1. Head(s) = s[1] /\ Len(Tail(s)) = Len(s) - 1 /\ \A i \in 1..Len(Tail(s)) : Tail(s)[i] = s[i + 1]
      BY <1>3, HeadTailProperties
    <3>2. /\ <<s[1]>> \o Tail(s) \in Seq(S)
          /\ Len(<<s[1]>> \o Tail(s)) = 1 + Len(Tail(s))
          /\ \A i \in 1..(1 + Len(Tail(s))) : (<<s[1]>> \o Tail(s))[i] = IF i <= 1 THEN <<s[1]>>[i] ELSE Tail(s)[i - 1]
      BY <2>2, <2>3, ConcatProperties
    <3>3. Len(<<s[1]>> \o Tail(s)) = Len(s)
      BY <1>1, <3>1, <3>2
    <3>4. ASSUME NEW i \in 1..Len(s)
          PROVE  s[i] = (<<s[1]>> \o Tail(s))[i]
      <4>1. i \in 1..(1 + Len(Tail(s)))
        BY <1>1, <3>1
      <4>2. CASE i = 1
        BY <3>2, <4>1, <4>2
      <4>3. CASE i # 1
        <5>1. i - 1 \in 1..Len(Tail(s)) /\ (i - 1) + 1 = i /\ ~(i <= 1)
          BY <1>1, <3>1, <4>3
        <5> QED
          BY <3>1, <3>2, <4>1, <5>1
      <4> QED
        BY <4>2, <4>3
    <3> QED
      BY <3>2, <3>3, <3>4, SeqEqual
  <2>5. PICK h \in Seq(S) : h = <<s[1]>> /\ Elements(h) = {s[1]}
    BY <2>2
  <2>6. Elements(h \o Tail(s)) = Elements(h) \cup Elements(Tail(s))
    <3>1. PICK t \in Seq(S) : t = Tail(s)
      BY <2>3
    <3>2. Elements(h \o t) = Elements(h) \cup Elements(t)
      BY ElementsJoined
    <3> QED
      BY <3>1, <3>2
  <2>7. Elements(s) = Elements(Tail(s)) \cup {s[1]}
    BY <2>4, <2>5, <2>6
  <2> QED
    BY <1>1, <2>1, <2>3, <2>7
<1>4. Elements(s) \subseteq S
  BY <1>1 DEF Elements
<1> QED
  BY <1>1, <1>2, <1>3, <1>4

(* The ranked windows are those of the entries, and finitely many.         *)
LEMMA RankedWindows ==
  ASSUME ranked \in Seq(Entry)
  PROVE  Ranked = {r.window : r \in Elements(ranked)} /\ Ranked \subseteq Window /\ IsFiniteSet(Ranked)
<1>1. Ranked = {r.window : r \in Elements(ranked)}
  BY DEF Ranked, Ranks, Elements
<1>2. Ranked \subseteq Window
  <2>1. \A k \in DOMAIN ranked : ranked[k] \in Entry
    BY ElementsOfSequence
  <2>2. \A k \in DOMAIN ranked : ranked[k].window \in Window
    BY <2>1 DEF Entry
  <2> QED
    BY <2>2 DEF Ranked, Ranks
<1>3. IsFiniteSet(DOMAIN ranked)
  <2>1. DOMAIN ranked = 1..Len(ranked) /\ 1 \in Int /\ Len(ranked) \in Int
    BY ElementsOfSequence
  <2> QED
    BY <2>1, FS_Interval
<1>4. [k \in DOMAIN ranked |-> ranked[k].window] \in Surjection(DOMAIN ranked, Ranked)
  BY DEF Surjection, Ranked, Ranks
<1>5. IsFiniteSet(Ranked)
  BY <1>3, <1>4, FS_Surjection
<1> QED
  BY <1>1, <1>2, <1>5

(* A chunk is named by a number.                                           *)
LEMMA EndsAreNumbers ==
  ASSUME transcript \in Seq(Segment)
  PROVE  Ends \subseteq Nat \ {0}
<1>1. Len(transcript) \in Nat
  BY ElementsOfSequence
<1> QED
  BY <1>1 DEF Ends

(* The next chunk is the first of those that follow.                       *)
LEMMA NextChunk ==
  ASSUME transcript \in Seq(Segment), Following # {}
  PROVE  /\ Least(Following) \in Ends /\ Least(Following) > chunk
         /\ \A c \in Ends : c > chunk => c >= Least(Following)
<1>1. Following \subseteq Nat /\ Following \subseteq Ends
  BY EndsAreNumbers DEF Following
<1>2. Least(Following) \in Following /\ \A c \in Following : Least(Following) <= c
  BY <1>1, LeastThereIs
<1>3. \A c \in Ends : c > chunk => c \in Following
  BY DEF Following
<1>4. Least(Following) > chunk
  BY <1>2 DEF Following
<1>5. \A c \in Following : c \in Nat
  BY <1>1
<1> QED
  BY <1>1, <1>2, <1>3, <1>4, <1>5

(* What is committed with the next commit: the rest of what was created.   *)
LEMMA SavedRows ==
  ASSUME created \in Seq(Window), saved \in 0..Len(created), rows \in Seq(Window), Save
  PROVE  /\ rows' \in Seq(Window) /\ saved' = Len(created)
         /\ Len(rows) = saved /\ (\A k \in 1..saved : rows[k] = created[k]) =>
              Len(rows') = Len(created) /\ \A k \in 1..Len(created) : rows'[k] = created[k]
<1>1. PICK n \in Nat, m \in Nat : n = Len(created) /\ m = saved /\ m <= n
  BY LenProperties
<1>2. PICK s \in Seq(Window) : /\ s = SubSeq(created, m + 1, n) /\ Len(s) = n - m
                               /\ \A i \in 1..(n - m) : s[i] = created[m + i]
  <2>1. CASE m = n
    <3>1. m + 1 > n /\ n - m = 0 /\ 1..(n - m) = {}
      BY <1>1, <2>1
    <3>2. SubSeq(created, m + 1, n) = <<>>
      BY <1>1, <3>1, SubSeqEmpty
    <3>3. PICK e \in Seq(Window) : e = <<>> /\ Len(e) = 0
      BY EmptySeq
    <3> QED
      BY <3>1, <3>2, <3>3
  <2>2. CASE m # n
    <3>1. m + 1 \in 1..(n + 1) /\ n \in m..n /\ n - (m + 1) + 1 = n - m /\ m + 1 <= n
      BY <1>1, <2>2
    <3>2. /\ SubSeq(created, m + 1, n) \in Seq(Window)
          /\ Len(SubSeq(created, m + 1, n)) = IF m + 1 <= n THEN n - (m + 1) + 1 ELSE 0
          /\ \A i \in 1..(n - (m + 1) + 1) : SubSeq(created, m + 1, n)[i] = created[(m + 1) + i - 1]
      BY <1>1, <3>1, SubSeqProperties
    <3>3. PICK t \in Seq(Window) : t = SubSeq(created, m + 1, n)
      BY <3>2
    <3>4. Len(t) = n - m
      BY <3>1, <3>2, <3>3
    <3>5. ASSUME NEW i \in 1..(n - m)
          PROVE  t[i] = created[m + i]
      <4>1. i \in 1..(n - (m + 1) + 1) /\ (m + 1) + i - 1 = m + i
        BY <1>1, <3>1
      <4> QED
        BY <3>2, <3>3, <4>1
    <3> QED
      BY <3>3, <3>4, <3>5
  <2> QED
    BY <2>1, <2>2
<1>3. /\ rows \o s \in Seq(Window) /\ Len(rows \o s) = Len(rows) + Len(s)
      /\ \A i \in 1..(Len(rows) + Len(s)) : (rows \o s)[i] = IF i <= Len(rows) THEN rows[i] ELSE s[i - Len(rows)]
  BY ConcatProperties
<1>4. rows' = rows \o s /\ saved' = n
  BY <1>1, <1>2 DEF Save
<1>5. ASSUME Len(rows) = saved, \A k \in 1..saved : rows[k] = created[k]
      PROVE  Len(rows') = Len(created) /\ \A k \in 1..Len(created) : rows'[k] = created[k]
  <2>1. Len(rows) = m /\ Len(s) = n - m /\ m + (n - m) = n
    BY <1>1, <1>2, <1>5
  <2>2. Len(rows') = n /\ \A i \in 1..n : rows'[i] = IF i <= m THEN rows[i] ELSE s[i - m]
    BY <1>3, <1>4, <2>1
  <2>3. ASSUME NEW k \in 1..n
        PROVE  rows'[k] = created[k]
    <3>1. CASE k <= m
      <4>1. k \in 1..saved
        BY <1>1, <3>1
      <4> QED
        BY <1>5, <2>2, <3>1, <4>1
    <3>2. CASE ~(k <= m)
      <4>1. k - m \in 1..(n - m) /\ m + (k - m) = k
        BY <1>1, <3>2
      <4>2. s[k - m] = created[k]
        BY <1>2, <4>1
      <4> QED
        BY <2>2, <3>2, <4>2
    <3> QED
      BY <3>1, <3>2
  <2> QED
    BY <1>1, <2>2, <2>3
<1> QED
  BY <1>1, <1>3, <1>4, <1>5

(* No step changes the transcript or the limits.                           *)
LEMMA StepsKeepTranscript ==
  ASSUME [Next]_vars
  PROVE  transcript' = transcript /\ limits' = limits
BY DEF Next, vars, Clear, Load, Rank, Judge, Keep, EndChunk, Relax, Finish, Interfere

(* The variables hold what they should.                                    *)
THEOREM TypesHold == Spec => []Typed
<1>1. Init => Typed
  <2> SUFFICES ASSUME Init
               PROVE  Typed
    OBVIOUS
  <2>1. transcript \in Seq(Segment) /\ limits \in Nat \X Nat
    BY SelectionAssumption DEF Init, Segment
  <2>2. <<>> \in Seq(Entry) /\ <<>> \in Seq(Window) /\ Len(<<>>) = 0
    BY EmptySeq
  <2>3. IsFiniteSet({})
    BY FS_EmptySet
  <2> QED
    BY <2>1, <2>2, <2>3 DEF Init, Typed
<1>2. Typed /\ [Next]_vars => Typed'
  <2> SUFFICES ASSUME Typed, [Next]_vars
               PROVE  Typed'
    OBVIOUS
  <2>1. transcript' = transcript /\ limits' = limits
    BY StepsKeepTranscript
  <2>2. Window' = Window /\ Entry' = Entry /\ Ends' = Ends
    BY <2>1, SameTranscript
  <2>3. /\ transcript \in Seq(Segment) /\ ranked \in Seq(Entry) /\ created \in Seq(Window) /\ rows \in Seq(Window)
        /\ remaining \subseteq Window /\ IsFiniteSet(remaining) /\ existing \subseteq Window /\ deferred \subseteq Entry
        /\ saved \in 0..Len(created) /\ chunk \in Ends \cup {0}
    BY DEF Typed
  <2>4. Ranked \subseteq Window /\ IsFiniteSet(Ranked)
    BY <2>3, RankedWindows
  <2>5. \A w \in Window : Append(created, w) \in Seq(Window) /\ Len(Append(created, w)) = Len(created) + 1
    BY <2>3, AppendProperties
  <2>6. CASE Clear
    BY <2>1, <2>2, <2>6, EmptySeq DEF Clear, Typed
  <2>7. CASE Load
    <3>1. chunk' \in Ends
      BY <2>3, <2>7, NextChunk DEF Load
    <3>2. remaining' \subseteq Window /\ IsFiniteSet(remaining')
      BY <2>3, <2>7, <3>1, WindowsOfChunk DEF Load
    <3>3. Ranked' = {} /\ ranked' \in Seq(Entry)
      <4>1. ranked' = <<>> /\ DOMAIN <<>> = {} /\ <<>> \in Seq(Entry)
        BY <2>7 DEF Load
      <4> QED
        BY <4>1 DEF Ranked, Ranks
    <3>4. \A w \in remaining' : base'[w] \in Int
      BY <2>7, SelectionAssumption DEF Load
    <3> QED
      BY <2>1, <2>2, <2>7, <3>1, <3>2, <3>3, <3>4 DEF Load, Typed
  <2>8. CASE Rank
    <3>1. PICK w \in remaining : /\ ranked' = Append(ranked, [window |-> w, score |-> Effective(w, Ranked)])
                                 /\ remaining' = remaining \ {w}
      BY <2>8 DEF Rank
    <3>2. w \in Window /\ base[w] \in Int
      BY <2>3, <2>8 DEF Rank, Typed
    <3>3. PICK e \in Entry : e = [window |-> w, score |-> Effective(w, Ranked)]
      <4>1. Effective(w, Ranked) \in Int
        BY <2>3, <2>4, <3>2, EffectiveFalls
      <4> QED
        BY <3>2, <4>1 DEF Entry
    <3>4. ranked' \in Seq(Entry) /\ Elements(ranked)' = Elements(ranked) \cup {e}
      <4>1. Append(ranked, e) \in Seq(Entry) /\ Elements(Append(ranked, e)) = Elements(ranked) \cup {e}
        BY <2>3, ElementsOfSequence
      <4> QED
        BY <3>1, <3>3, <4>1 DEF Elements
    <3>5. Ranked' = Ranked \cup {w}
      <4>1. Ranked = {r.window : r \in Elements(ranked)}
        BY <2>3, RankedWindows
      <4>2. Ranked' = {r.window : r \in Elements(ranked)'}
        BY DEF Ranked, Ranks, Elements
      <4>3. e.window = w
        BY <3>3
      <4> QED
        BY <3>4, <4>1, <4>2, <4>3
    <3>6. remaining' \cup Ranked' = remaining \cup Ranked /\ IsFiniteSet(remaining')
      BY <2>3, <3>1, <3>5, FS_Subset
    <3>7. \A v \in remaining' \cup Ranked' : base'[v] \in Int
      BY <2>8, <3>6 DEF Rank, Typed
    <3> QED
      BY <2>1, <2>2, <2>3, <2>8, <3>1, <3>4, <3>6, <3>7 DEF Rank, Typed
  <2>9. CASE Judge
    <3>1. ranked' \in Seq(Entry)
      BY <2>3, <2>9, MergedKeepsAll DEF Judge
    <3>2. existing' \subseteq Window
      <4>1. existing' = Elements(rows)
        BY <2>9 DEF Judge, Stored, Elements
      <4> QED
        BY <2>3, <4>1, ElementsOfSequence
    <3> QED
      BY <2>1, <2>2, <2>9, <3>1, <3>2 DEF Judge, Typed
  <2>10. CASE Keep
    <3>1. Tail(ranked) \in Seq(Entry) /\ ranked[1] \in Entry /\ ranked[1].window \in Window
      <4>1. Tail(ranked) \in Seq(Entry) /\ ranked[1] \in Entry
        BY <2>3, <2>10, ElementsOfSequence DEF Keep
      <4> QED
        BY <4>1 DEF Entry
    <3> DEFINE w == ranked[1].window
    <3>2. /\ ranked' = Tail(ranked) /\ pc' = pc /\ pc = "keep" /\ chunk' = chunk /\ remaining' = remaining
          /\ saved' = saved /\ rows' = rows
          /\ \/ created' = Append(created, w) /\ existing' = existing \cup {w} /\ deferred' = deferred
             \/ deferred' = deferred \cup {ranked[1]} /\ created' = created /\ existing' = existing
      BY <2>10 DEF Keep, Create
    <3>3. created' \in Seq(Window) /\ saved' \in 0..Len(created')
      <4>1. PICK n \in Nat, m \in Nat : n = Len(created) /\ m = saved /\ m <= n
        BY <2>3, LenProperties
      <4>2. CASE created' = created
        BY <2>3, <3>2, <4>2
      <4>3. CASE created' = Append(created, w)
        <5>1. created' \in Seq(Window) /\ Len(created') = n + 1 /\ saved' = m
          BY <2>5, <3>1, <3>2, <4>1, <4>3
        <5>2. m \in 0..(n + 1)
          BY <4>1
        <5> QED
          BY <5>1, <5>2
      <4> QED
        BY <3>2, <4>2, <4>3
    <3>4. existing' \subseteq Window /\ deferred' \subseteq Entry
      BY <2>3, <3>1, <3>2
    <3> QED
      BY <2>1, <2>2, <3>1, <3>2, <3>3, <3>4 DEF Typed
  <2>11. CASE EndChunk
    <3>1. rows' \in Seq(Window) /\ saved' = Len(created) /\ Len(created) \in Nat
      BY <2>3, <2>11, SavedRows, LenProperties DEF EndChunk
    <3> QED
      BY <2>1, <2>2, <2>11, <3>1 DEF EndChunk, Typed
  <2>12. CASE Relax
    <3>1. PICK r \in deferred : deferred' = deferred \ {r} /\ Tried(r.window)
      BY <2>12 DEF Relax
    <3>2. r.window \in Window
      BY <2>3, <3>1 DEF Entry
    <3>3. \/ created' = Append(created, r.window) /\ existing' = existing \cup {r.window}
          \/ created' = created /\ existing' = existing
      BY <3>1 DEF Tried, Create
    <3>4. saved' = saved /\ pc' = pc /\ pc = "relax" /\ UNCHANGED <<chunk, remaining, ranked, rows>>
      BY <2>12 DEF Relax
    <3>5. created' \in Seq(Window) /\ saved' \in 0..Len(created')
      <4>1. PICK n \in Nat, m \in Nat : n = Len(created) /\ m = saved /\ m <= n
        BY <2>3, LenProperties
      <4>2. CASE created' = created
        BY <2>3, <3>2, <3>4, <4>2
      <4>3. CASE created' = Append(created, r.window)
        <5>1. created' \in Seq(Window) /\ Len(created') = n + 1 /\ saved' = m
          BY <2>5, <3>1, <3>2, <3>4, <4>1, <4>3
        <5>2. m \in 0..(n + 1)
          BY <4>1
        <5> QED
          BY <5>1, <5>2
      <4> QED
        BY <3>2, <3>3, <4>2, <4>3
    <3>6. existing' \subseteq Window /\ deferred' \subseteq Entry
      BY <2>3, <3>1, <3>2, <3>3
    <3> QED
      BY <2>1, <2>2, <3>4, <3>5, <3>6 DEF Typed
  <2>13. CASE Finish
    <3>1. rows' \in Seq(Window) /\ saved' = Len(created) /\ Len(created) \in Nat
      BY <2>3, <2>13, SavedRows, LenProperties DEF Finish
    <3> QED
      BY <2>1, <2>2, <2>13, <3>1 DEF Finish, Typed
  <2>14. CASE Interfere
    <3>1. rows' \in Seq(Window)
      <4>1. CASE rows' = <<>>
        BY <4>1, EmptySeq
      <4>2. CASE \E c \in Ends : \E w \in Windows(c) : rows' = Append(rows, w)
        <5>1. PICK w \in Window : rows' = Append(rows, w)
          BY <2>3, <4>2, WindowsOfChunk
        <5> QED
          BY <2>3, <5>1, AppendProperties
      <4> QED
        BY <2>14, <4>1, <4>2 DEF Interfere
    <3>2. Ranked' = Ranked
      BY <2>14 DEF Interfere, Ranked, Ranks
    <3> QED
      BY <2>1, <2>2, <2>14, <3>1, <3>2 DEF Interfere, Typed
  <2>15. CASE UNCHANGED vars
    <3>1. Ranked' = Ranked
      BY <2>15 DEF vars, Ranked, Ranks
    <3> QED
      BY <2>1, <2>2, <2>15, <3>1 DEF vars, Typed
  <2> QED
    BY <2>6, <2>7, <2>8, <2>9, <2>10, <2>11, <2>12, <2>13, <2>14, <2>15 DEF Next
<1> QED
  BY <1>1, <1>2, PTL DEF Spec

(* What a window scores, given those that are ranked, does not change      *)
(* while a chunk is ranked.                                                *)
LEMMA SameScores ==
  ASSUME transcript' = transcript, base' = base
  PROVE  \A v : Effective(v, Ranked)' = Effective(v, Ranked')
<1> SUFFICES ASSUME NEW v
             PROVE  Effective(v, Ranked)' = Effective(v, Ranked')
  OBVIOUS
<1> QED
  BY DEF Effective, Penalty, Overlap, Common, Shorter, Start, End, Duration

(* A window never scores more than one that was ranked before it: it could *)
(* have been ranked then, and has only lost since (scoring.py 883-934).    *)
THEOREM RankingIsOrdered == Spec => []BestFirst
<1> DEFINE Inv == BestFirst /\ RankedAbove
<1>1. Init => Inv
  BY DEF Init, BestFirst, RankedAbove
<1>2. Typed /\ Inv /\ [Next]_vars => Inv'
  <2> SUFFICES ASSUME Typed, Inv, [Next]_vars
               PROVE  Inv'
    OBVIOUS
  <2>1. transcript' = transcript
    BY StepsKeepTranscript
  <2>2. transcript \in Seq(Segment) /\ ranked \in Seq(Entry) /\ remaining \subseteq Window
    BY DEF Typed
  <2>3. CASE pc' # "rank"
    BY <2>3 DEF BestFirst, RankedAbove
  <2>4. CASE Load
    <3>1. Ranks' = {}
      <4>1. ranked' = <<>> /\ DOMAIN <<>> = {}
        BY <2>4 DEF Load
      <4> QED
        BY <4>1 DEF Ranks
    <3> QED
      BY <3>1 DEF BestFirst, RankedAbove
  <2>5. CASE Rank
    <3>1. PICK w \in remaining : /\ Best(w) /\ remaining' = remaining \ {w}
                                 /\ ranked' = Append(ranked, [window |-> w, score |-> Effective(w, Ranked)])
      BY <2>5 DEF Rank
    <3>2. base' = base /\ pc = "rank"
      BY <2>5 DEF Rank
    <3>3. \A v \in remaining : v \in Window /\ base[v] \in Int
      BY <2>2, <3>2 DEF Typed
    <3>4. Ranked \subseteq Window /\ IsFiniteSet(Ranked)
      BY <2>2, RankedWindows
    <3>5. PICK n \in Nat : n = Len(ranked) /\ Ranks = 1..n
      BY <2>2, ElementsOfSequence DEF Ranks
    <3>6. PICK b \in Int : b = Effective(w, Ranked)
      BY <2>2, <3>3, <3>4, EffectiveFalls
    <3>7. PICK e \in Entry : e = [window |-> w, score |-> b]
      BY <3>3 DEF Entry
    <3>8. /\ Len(ranked') = n + 1 /\ ranked' \in Seq(Entry)
          /\ ranked'[n + 1] = e /\ \A k \in 1..n : ranked'[k] = ranked[k]
      BY <2>2, <3>1, <3>5, <3>6, <3>7, AppendProperties
    <3>9. Ranks' = 1..(n + 1) /\ 1..(n + 1) = (1..n) \cup {n + 1}
      <4>1. DOMAIN ranked' = 1..Len(ranked')
        BY <3>8, ElementsOfSequence
      <4> QED
        BY <3>8, <4>1 DEF Ranks
    <3>10. Ranked' = Ranked \cup {w}
      <4>1. Ranked' = {ranked'[k].window : k \in Ranks'}
        BY DEF Ranked
      <4>2. Ranked' = {ranked'[k].window : k \in 1..n} \cup {ranked'[n + 1].window}
        BY <3>9, <4>1
      <4>3. {ranked'[k].window : k \in 1..n} = {ranked[k].window : k \in 1..n}
        BY <3>8
      <4>4. ranked'[n + 1].window = w
        BY <3>7, <3>8
      <4> QED
        BY <3>5, <4>2, <4>3, <4>4 DEF Ranked
    <3>11. Ranked' \subseteq Window /\ IsFiniteSet(Ranked') /\ Ranked \subseteq Ranked'
      BY <3>3, <3>4, <3>10, FS_AddElement
    <3>12. \A k \in 1..n : ranked[k].score \in Int /\ b <= ranked[k].score
      <4>1. \A k \in 1..n : ranked[k] \in Entry
        BY <2>2, <3>5, ElementsOfSequence
      <4>2. \A k \in 1..n : ranked[k].score \in Int
        BY <4>1 DEF Entry
      <4>3. \A k \in 1..n : Effective(w, Ranked) <= ranked[k].score
        BY <3>2, <3>5 DEF RankedAbove
      <4> QED
        BY <3>6, <4>2, <4>3
    <3>13. ASSUME NEW v \in remaining'
           PROVE  Effective(v, Ranked') \in Int /\ Effective(v, Ranked') <= b
      <4>1. v \in remaining /\ v # w
        BY <3>1, <3>13
      <4>2. /\ Effective(v, Ranked) \in Int /\ Effective(v, Ranked') \in Int
            /\ Effective(v, Ranked') <= Effective(v, Ranked)
        BY <2>2, <3>3, <3>11, <4>1, EffectiveFalls
      <4>3. b > Effective(v, Ranked) \/ b = Effective(v, Ranked)
        BY <3>1, <3>6, <4>1 DEF Best
      <4>4. PICK x \in Int, y \in Int : x = Effective(v, Ranked) /\ y = Effective(v, Ranked')
        BY <4>2
      <4>5. y <= x /\ (b > x \/ b = x)
        BY <4>2, <4>3, <4>4
      <4>6. y <= b
        BY <4>5
      <4> QED
        BY <4>2, <4>4, <4>6
    <3>14. ranked'[n + 1].score = b
      BY <3>7, <3>8
    <3>15. BestFirst'
      <4> SUFFICES ASSUME NEW i \in 1..(n + 1), NEW j \in 1..(n + 1), i < j
                   PROVE  ranked'[i].score >= ranked'[j].score
        BY <3>9 DEF BestFirst
      <4>1. CASE j = n + 1
        <5>1. i \in 1..n
          BY <4>1
        <5> QED
          BY <3>8, <3>12, <3>14, <4>1, <5>1
      <4>2. CASE j # n + 1
        <5>1. i \in 1..n /\ j \in 1..n
          BY <4>2
        <5>2. ranked[i].score >= ranked[j].score
          BY <3>2, <3>5, <5>1 DEF BestFirst
        <5> QED
          BY <3>8, <5>1, <5>2
      <4> QED
        BY <4>1, <4>2
    <3>16. RankedAbove'
      <4>1. \A v : Effective(v, Ranked)' = Effective(v, Ranked')
        BY <2>1, <3>2, SameScores
      <4>2. ASSUME NEW v \in remaining', NEW k \in 1..(n + 1)
            PROVE  Effective(v, Ranked') <= ranked'[k].score
        <5>1. PICK y \in Int : y = Effective(v, Ranked') /\ y <= b
          BY <3>13
        <5>2. CASE k = n + 1
          BY <3>14, <5>1, <5>2
        <5>3. CASE k # n + 1
          <6>1. k \in 1..n
            BY <5>3
          <6>2. PICK z \in Int : z = ranked[k].score /\ b <= z
            BY <3>12, <6>1
          <6>3. y <= z
            BY <5>1, <6>2
          <6> QED
            BY <3>8, <5>1, <6>1, <6>2, <6>3
        <5> QED
          BY <5>2, <5>3
      <4> QED
        BY <3>9, <4>1, <4>2 DEF RankedAbove
    <3> QED
      BY <3>15, <3>16
  <2>6. CASE Interfere \/ UNCHANGED vars
    <3>1. UNCHANGED <<transcript, base, ranked, remaining, pc>>
      BY <2>6 DEF Interfere, vars
    <3>2. Ranked' = Ranked /\ Ranks' = Ranks
      BY <3>1 DEF Ranked, Ranks
    <3>3. \A v : Effective(v, Ranked)' = Effective(v, Ranked)
      BY <3>1, <3>2, SameScores
    <3>4. BestFirst'
      BY <3>1, <3>2 DEF BestFirst
    <3>5. RankedAbove'
      BY <3>1, <3>2, <3>3 DEF RankedAbove
    <3> QED
      BY <3>4, <3>5
  <2> QED
    <3>1. Clear \/ Judge \/ Keep \/ EndChunk \/ Relax \/ Finish => pc' # "rank"
      BY DEF Clear, Judge, Keep, EndChunk, Relax, Finish
    <3> QED
      BY <2>3, <2>4, <2>5, <2>6, <3>1 DEF Next
<1>3. Inv => BestFirst
  OBVIOUS
<1> QED
  BY <1>1, <1>2, <1>3, TypesHold, PTL DEF Spec

(* Without a request that interferes, what is committed and what the next  *)
(* windows are compared with are the candidates that were created.         *)
THEOREM BooksAreKept ==
  ASSUME ~Concurrent
  PROVE  Spec => []Booked
<1>1. Init => Booked
  <2> SUFFICES ASSUME Init
               PROVE  Booked
    OBVIOUS
  <2>1. rows = <<>> /\ Len(rows) = 0 /\ created = <<>> /\ Len(created) = 0
    BY EmptySeq DEF Init
  <2> QED
    BY <2>1 DEF Init, Booked
<1>2. Typed /\ Booked /\ [Next]_vars => Booked'
  <2> SUFFICES ASSUME Typed, Booked, [Next]_vars
               PROVE  Booked'
    OBVIOUS
  <2>1. /\ created \in Seq(Window) /\ rows \in Seq(Window) /\ saved \in 0..Len(created)
        /\ ranked \in Seq(Entry) /\ deferred \subseteq Entry
    BY DEF Typed
  <2>2. Len(rows) = saved /\ \A k \in 1..saved : rows[k] = created[k]
    BY DEF Booked
  <2>3. PICK n \in Nat : n = Len(created) /\ DOMAIN created = 1..n
    BY <2>1, ElementsOfSequence
  <2>4. saved \in Nat /\ saved <= n
    BY <2>1, <2>3
  <2>5. ASSUME NEW w \in Window, created' = Append(created, w), rows' = rows, saved' = saved,
               existing = Kept, existing' = existing \cup {w}
        PROVE  /\ Len(rows') = saved' /\ \A k \in 1..saved' : rows'[k] = created'[k]
               /\ existing' = Kept'
    <3>1. \A k \in 1..n : created'[k] = created[k]
      BY <2>1, <2>3, <2>5, AppendProperties
    <3>2. \A k \in 1..saved : k \in 1..n
      BY <2>3, <2>4
    <3>3. Kept' = Kept \cup {w}
      <4>1. Elements(Append(created, w)) = Elements(created) \cup {w}
        BY <2>1, ElementsOfSequence
      <4> QED
        BY <2>5, <4>1 DEF Kept, Elements
    <3> QED
      BY <2>2, <2>5, <3>1, <3>2, <3>3
  <2>6. ASSUME Save, created' = created
        PROVE  Len(rows') = saved' /\ saved' = Len(created') /\ \A k \in 1..saved' : rows'[k] = created'[k]
    BY <2>1, <2>2, <2>6, SavedRows
  <2>7. CASE Clear
    <3>1. created = <<>> /\ existing = {} /\ created' = created /\ existing' = existing /\ rows' = <<>> /\ saved' = saved
      BY <2>7 DEF Clear, Booked
    <3>2. Len(created) = 0 /\ DOMAIN created = {} /\ Len(rows') = 0
      BY <3>1, EmptySeq
    <3>3. saved = 0 /\ 1..saved = {}
      BY <2>3, <2>4, <3>2
    <3>4. Kept' = {}
      BY <3>1, <3>2 DEF Kept, Elements
    <3> QED
      BY <2>7, <3>1, <3>2, <3>3, <3>4 DEF Clear, Booked
  <2>8. CASE Load \/ Rank
    <3>1. UNCHANGED <<created, rows, saved, existing>> /\ pc \in {"load", "rank"} /\ pc' = "rank"
      BY <2>8 DEF Load, Rank
    <3> QED
      BY <3>1 DEF Booked
  <2>9. CASE Judge
    <3>1. UNCHANGED <<created, rows, saved>> /\ pc = "rank" /\ pc' = "keep" /\ existing' = Elements(rows)
      BY <2>9 DEF Judge, Stored, Elements
    <3>2. saved = Len(created)
      BY <3>1 DEF Booked
    <3>3. rows = created
      BY <2>1, <2>2, <3>2, SeqEqual
    <3>4. existing' = Kept'
      BY <3>1, <3>3 DEF Kept, Elements
    <3> QED
      BY <3>1, <3>4 DEF Booked
  <2>10. CASE Keep
    <3>1. pc = "keep" /\ pc' = pc /\ UNCHANGED <<saved, rows>> /\ existing = Kept /\ ranked # <<>>
      BY <2>10 DEF Keep, Booked
    <3>2. ranked[1].window \in Window
      <4>1. ranked[1] \in Entry
        BY <2>1, <3>1, ElementsOfSequence
      <4> QED
        BY <4>1 DEF Entry
    <3>3. CASE Create(ranked[1].window)
      BY <2>5, <3>1, <3>2, <3>3 DEF Create, Booked
    <3>4. CASE UNCHANGED <<created, existing>>
      BY <3>1, <3>4 DEF Kept, Elements, Booked
    <3> QED
      BY <2>10, <3>3, <3>4 DEF Keep
  <2>11. CASE EndChunk
    <3>1. /\ pc = "keep" /\ existing = Kept /\ UNCHANGED <<created, existing>> /\ Save
          /\ pc' \in {"load", "relax"}
      BY <2>11 DEF EndChunk, Booked
    <3>2. existing' = Kept'
      BY <3>1 DEF Kept, Elements
    <3> QED
      BY <2>6, <3>1, <3>2 DEF Booked
  <2>12. CASE Relax
    <3>1. pc = "relax" /\ pc' = pc /\ UNCHANGED <<saved, rows>> /\ existing = Kept
      BY <2>12 DEF Relax, Booked
    <3>2. PICK r \in deferred : Tried(r.window)
      BY <2>12 DEF Relax
    <3>3. r.window \in Window
      BY <2>1 DEF Entry
    <3>4. CASE Create(r.window)
      BY <2>5, <3>1, <3>3, <3>4 DEF Create, Booked
    <3>5. CASE UNCHANGED <<created, existing>>
      BY <3>1, <3>5 DEF Kept, Elements, Booked
    <3> QED
      BY <3>2, <3>4, <3>5 DEF Tried
  <2>13. CASE Finish
    <3>1. Save /\ created' = created /\ pc' = "done"
      BY <2>13 DEF Finish
    <3> QED
      BY <2>6, <3>1 DEF Booked
  <2>14. CASE UNCHANGED vars
    BY <2>14 DEF vars, Booked, Kept, Elements
  <2>15. ~Interfere
    BY DEF Interfere
  <2> QED
    BY <2>7, <2>8, <2>9, <2>10, <2>11, <2>12, <2>13, <2>14, <2>15 DEF Next
<1> QED
  BY <1>1, <1>2, TypesHold, PTL DEF Spec

(* A candidate more, that is not alike any that were created, leaves them  *)
(* distinct.                                                               *)
LEMMA OneMoreIsDistinct ==
  ASSUME transcript \in Seq(Segment), transcript' = transcript, created \in Seq(Window), Distinct,
         NEW w \in Window, created' = Append(created, w), \A v \in Kept : ~RelaxedDuplicate(w, v)
  PROVE  Distinct'
<1>1. PICK n \in Nat : n = Len(created) /\ DOMAIN created = 1..n /\ \A k \in 1..n : created[k] \in Window
  BY ElementsOfSequence
<1>2. /\ created' \in Seq(Window) /\ Len(created') = n + 1
      /\ \A k \in 1..n : created'[k] = created[k]
      /\ created'[n + 1] = w
  BY <1>1, AppendProperties
<1>3. DOMAIN created' = 1..(n + 1)
  BY <1>2, ElementsOfSequence
<1>4. ASSUME NEW k \in 1..n
      PROVE  ~RelaxedDuplicate(w, created[k]) /\ ~RelaxedDuplicate(created[k], w)
  <2>1. created[k] \in Window /\ created[k] \in Kept
    BY <1>1 DEF Kept, Elements
  <2>2. ~RelaxedDuplicate(w, created[k])
    BY <2>1
  <2> QED
    BY <2>1, <2>2, AlikeIsSymmetric DEF RelaxedDuplicate
<1>5. ASSUME NEW i \in 1..(n + 1), NEW j \in 1..(n + 1), i # j
      PROVE  ~RelaxedDuplicate(created'[i], created'[j])
  <2>1. CASE i = n + 1
    <3>1. j \in 1..n
      BY <1>5, <2>1
    <3> QED
      BY <1>2, <1>4, <2>1, <3>1
  <2>2. CASE j = n + 1
    <3>1. i \in 1..n
      BY <1>5, <2>2
    <3> QED
      BY <1>2, <1>4, <2>2, <3>1
  <2>3. CASE i # n + 1 /\ j # n + 1
    <3>1. i \in 1..n /\ j \in 1..n
      BY <2>3
    <3> QED
      BY <1>1, <1>2, <1>5, <3>1 DEF Distinct
  <2> QED
    BY <2>1, <2>2, <2>3
<1>6. \A v, u : RelaxedDuplicate(v, u)' <=> RelaxedDuplicate(v, u)
  BY SameTranscript
<1> QED
  BY <1>3, <1>5, <1>6 DEF Distinct

(* No two candidates are alike, by the thresholds that are relaxed: what   *)
(* reaches these reaches the others, and a window is compared with all     *)
(* that were created, in whichever chunk (candidates.py 144-252).          *)
THEOREM CandidatesAreDistinct ==
  ASSUME ~Concurrent
  PROVE  Spec => []Distinct
<1>1. Init => Distinct
  BY DEF Init, Distinct
<1>2. Typed /\ Booked /\ Distinct /\ [Next]_vars => Distinct'
  <2> SUFFICES ASSUME Typed, Booked, Distinct, [Next]_vars
               PROVE  Distinct'
    OBVIOUS
  <2>1. transcript' = transcript
    BY StepsKeepTranscript
  <2>2. /\ transcript \in Seq(Segment) /\ created \in Seq(Window) /\ ranked \in Seq(Entry)
        /\ deferred \subseteq Entry
    BY DEF Typed
  <2>3. CASE created' = created
    <3>1. \A v, w : RelaxedDuplicate(v, w)' <=> RelaxedDuplicate(v, w)
      BY <2>1, SameTranscript
    <3> QED
      BY <2>3, <3>1 DEF Distinct
  <2>4. CASE Keep
    <3> DEFINE w == ranked[1].window
    <3>1. existing = Kept /\ ranked # <<>>
      BY <2>4 DEF Keep, Booked
    <3>2. w \in Window
      <4>1. ranked[1] \in Entry
        BY <2>2, <3>1, ElementsOfSequence
      <4> QED
        BY <4>1 DEF Entry
    <3>3. CASE (\A v \in existing : ~Duplicate(w, v)) /\ created' = Append(created, w)
      <4>1. \A v \in Kept : v \in Window
        BY <2>2, ElementsOfSequence DEF Kept
      <4>2. \A v \in Kept : ~RelaxedDuplicate(w, v)
        BY <2>2, <3>1, <3>2, <3>3, <4>1, RelaxedIsDuplicate
      <4> QED
        BY <2>1, <2>2, <3>2, <3>3, <4>2, OneMoreIsDistinct
    <3> QED
      BY <2>3, <2>4, <3>3 DEF Keep, Create
  <2>5. CASE Relax
    <3>1. PICK r \in deferred : Tried(r.window)
      BY <2>5 DEF Relax
    <3>2. existing = Kept /\ r.window \in Window
      BY <2>2, <2>5 DEF Relax, Booked, Entry
    <3>3. CASE (\A v \in existing : ~RelaxedDuplicate(r.window, v)) /\ created' = Append(created, r.window)
      BY <2>1, <2>2, <3>2, <3>3, OneMoreIsDistinct
    <3> QED
      BY <2>3, <3>1, <3>3 DEF Tried, Create
  <2>6. Clear \/ Load \/ Rank \/ Judge \/ EndChunk \/ Finish \/ Interfere \/ UNCHANGED vars => created' = created
    BY DEF Clear, Load, Rank, Judge, EndChunk, Finish, Interfere, vars
  <2> QED
    BY <2>3, <2>4, <2>5, <2>6 DEF Next
<1> QED
  BY <1>1, <1>2, TypesHold, BooksAreKept, PTL DEF Spec

(* What is settled stays settled, as candidates and duplicates only come.  *)
LEMMA SettledForGood ==
  ASSUME transcript' = transcript, Kept \subseteq Kept', NEW w, Settled(w),
         \A d \in deferred : d \in deferred' \/ \E v \in Kept' : v = d.window \/ RelaxedDuplicate(d.window, v)
  PROVE  Settled(w)'
<1>1. \A v, u : RelaxedDuplicate(v, u)' <=> RelaxedDuplicate(v, u)
  BY SameTranscript
<1>2. CASE \E d \in deferred : d.window = w
  BY <1>1, <1>2 DEF Settled
<1>3. CASE \E v \in Kept : v = w \/ RelaxedDuplicate(w, v)
  BY <1>1, <1>3 DEF Settled
<1> QED
  BY <1>2, <1>3 DEF Settled

(* Every window of the chunks that were treated is kept, alike one that    *)
(* is, or deferred, unless enough are kept.                                *)
THEOREM WindowsAreAccounted ==
  ASSUME ~Concurrent, Ratio <= 100
  PROVE  Spec => []Accounted
<1>1. Init => Accounted
  <2> SUFFICES ASSUME Init
               PROVE  Accounted
    OBVIOUS
  <2>1. transcript \in Seq(Segment)
    BY SelectionAssumption DEF Init, Segment
  <2>2. \A c \in Ends : c > 0
    BY <2>1, EndsAreNumbers
  <2> QED
    BY <2>2 DEF Init, Accounted
<1>2. Typed /\ Booked /\ Accounted /\ [Next]_vars => Accounted'
  <2> SUFFICES ASSUME Typed, Booked, Accounted, [Next]_vars
               PROVE  Accounted'
    OBVIOUS
  <2>1. transcript' = transcript /\ limits' = limits
    BY StepsKeepTranscript
  <2>2. /\ transcript \in Seq(Segment) /\ created \in Seq(Window) /\ ranked \in Seq(Entry)
        /\ deferred \subseteq Entry /\ limits[2] \in Nat /\ chunk \in Ends \cup {0}
    BY DEF Typed
  <2>3. /\ Ends' = Ends /\ \A c : Windows(c)' = Windows(c)
        /\ \A v, u : RelaxedDuplicate(v, u)' <=> RelaxedDuplicate(v, u)
    BY <2>1, SameTranscript
  <2>4. Ends \subseteq Nat
    BY <2>2, EndsAreNumbers
  <2>5. chunk' = chunk => Following' = Following
    BY <2>3 DEF Following
  <2>6. PICK n \in Nat : n = Len(created) /\ DOMAIN created = 1..n
    BY <2>2, ElementsOfSequence
  <2>7. created' = created => Kept' = Kept /\ (Enough' <=> Enough) /\ (Few' <=> Few)
    BY <2>1 DEF Kept, Elements, Enough, Few, Smaller
  <2>8. ASSUME NEW w \in Window, created' = Append(created, w)
        PROVE  Kept' = Kept \cup {w} /\ (~Enough' => ~Enough)
    <3>1. Elements(Append(created, w)) = Elements(created) \cup {w} /\ Len(Append(created, w)) = n + 1
      BY <2>2, <2>6, ElementsOfSequence, AppendProperties
    <3>2. Kept' = Kept \cup {w}
      BY <2>8, <3>1 DEF Kept, Elements
    <3>3. n >= limits[2] => n + 1 >= limits[2]
      BY <2>2
    <3> QED
      BY <2>1, <2>6, <2>8, <3>1, <3>2, <3>3 DEF Enough
  <2>9. CASE Clear
    <3>1. /\ pc = "clear" /\ pc' \in {"load", "relax"} /\ UNCHANGED <<chunk, created, deferred>>
          /\ (pc' = "relax" => transcript = <<>>)
      BY <2>9 DEF Clear
    <3>2. transcript = <<>> => Following = {}
      <4>1. transcript = <<>> => 1..Len(transcript) = {}
        BY EmptySeq
      <4> QED
        BY <4>1 DEF Following, Ends
    <3>3. ASSUME NEW c \in Ends, NEW w \in Windows(c), ~Enough
          PROVE  c > chunk \/ Settled(w)'
      <4>1. c > chunk \/ Settled(w)
        BY <3>1, <3>3 DEF Accounted, OnItsWay
      <4> QED
        BY <2>1, <2>7, <3>1, <4>1, SettledForGood
    <3> QED
      BY <2>3, <2>5, <2>7, <3>1, <3>2, <3>3 DEF Accounted
  <2>10. CASE Load
    <3>1. /\ pc = "load" /\ pc' = "rank" /\ UNCHANGED <<created, deferred>>
          /\ chunk' = Least(Following) /\ remaining' = Windows(chunk') /\ ranked' = <<>> /\ Following # {}
      BY <2>10 DEF Load
    <3>2. chunk' \in Ends /\ chunk' > chunk /\ \A c \in Ends : c > chunk => c >= chunk'
      BY <2>2, <3>1, NextChunk
    <3>3. Ranked' = {}
      <4>1. DOMAIN <<>> = {}
        OBVIOUS
      <4> QED
        BY <3>1, <4>1 DEF Ranked, Ranks
    <3>4. ASSUME NEW c \in Ends, NEW w \in Windows(c), ~Enough
          PROVE  c > chunk' \/ Settled(w)' \/ OnItsWay(w, c)'
      <4>1. CASE c = chunk'
        BY <3>1, <4>1 DEF OnItsWay
      <4>2. CASE ~(c > chunk)
        <5>1. Settled(w)
          BY <3>1, <3>4, <4>2 DEF Accounted, OnItsWay
        <5> QED
          BY <2>1, <2>7, <3>1, <5>1, SettledForGood
      <4>3. CASE c > chunk /\ c # chunk'
        <5>1. c \in Nat /\ chunk' \in Nat /\ c >= chunk'
          BY <2>4, <3>2, <4>3
        <5> QED
          BY <4>3, <5>1
      <4> QED
        BY <4>1, <4>2, <4>3
    <3>5. remaining' \cup Ranked' \subseteq Windows(chunk)'
      <4>1. Windows(chunk)' = Windows(chunk')
        BY <2>1 DEF Windows, Filtered, Enumerated, Chunk, From, Duplicate, Alike, Near, Nested, Common, Shorter,
                    Start, End, Duration, TooLong, Suffix
      <4> QED
        BY <3>1, <3>3, <4>1
    <3> QED
      BY <2>3, <2>7, <3>1, <3>2, <3>4, <3>5 DEF Accounted
  <2>11. CASE Rank
    <3>1. PICK w \in remaining : /\ ranked' = Append(ranked, [window |-> w, score |-> Effective(w, Ranked)])
                                 /\ remaining' = remaining \ {w}
      BY <2>11 DEF Rank
    <3>2. pc = "rank" /\ pc' = "rank" /\ UNCHANGED <<chunk, created, deferred, base>>
      BY <2>11 DEF Rank
    <3>3. Ranked' = Ranked \cup {w}
      <4>1. w \in Window /\ base[w] \in Int /\ Ranked \subseteq Window /\ IsFiniteSet(Ranked)
        BY <2>2, <3>2, RankedWindows DEF Typed
      <4>2. Effective(w, Ranked) \in Int
        BY <2>2, <4>1, EffectiveFalls
      <4>3. PICK e \in Entry : e = [window |-> w, score |-> Effective(w, Ranked)]
        BY <4>1, <4>2 DEF Entry
      <4>4. Elements(Append(ranked, e)) = Elements(ranked) \cup {e}
        BY <2>2, ElementsOfSequence
      <4>5. Ranked = {r.window : r \in Elements(ranked)}
        BY <2>2, RankedWindows
      <4>6. Ranked' = {r.window : r \in Elements(ranked)'}
        BY DEF Ranked, Ranks, Elements
      <4>7. Elements(ranked)' = Elements(ranked) \cup {e}
        BY <3>1, <4>3, <4>4 DEF Elements
      <4>8. e.window = w
        BY <4>3
      <4> QED
        BY <4>5, <4>6, <4>7, <4>8
    <3>4. remaining' \cup Ranked' = remaining \cup Ranked
      BY <3>1, <3>3
    <3>5. ASSUME NEW c \in Ends, NEW u \in Windows(c), ~Enough
          PROVE  c > chunk \/ Settled(u)' \/ OnItsWay(u, c)'
      <4>1. CASE Settled(u)
        BY <2>1, <2>7, <3>2, <4>1, SettledForGood
      <4>2. CASE OnItsWay(u, c)
        BY <3>2, <3>4, <4>2 DEF OnItsWay
      <4> QED
        BY <3>5, <4>1, <4>2 DEF Accounted
    <3>6. Windows(chunk)' = Windows(chunk)
      BY <2>3, <3>2
    <3>7. chunk \in Ends /\ remaining \cup Ranked \subseteq Windows(chunk)
      BY <3>2 DEF Accounted
    <3> QED
      BY <2>3, <2>5, <2>7, <3>2, <3>4, <3>5, <3>6, <3>7 DEF Accounted
  <2>12. CASE Judge
    <3>1. pc = "rank" /\ pc' = "keep" /\ remaining = {} /\ UNCHANGED <<chunk, created, deferred>>
      BY <2>12 DEF Judge
    <3>2. \A v \in Ranked : v \in Ranked'
      <4>1. CASE ranked' = ranked
        BY <4>1 DEF Ranked, Ranks
      <4>2. CASE \E a \in Answers : ranked' = Merged(a)
        <5>1. PICK a \in Answers : ranked' = Merged(a)
          BY <4>2
        <5>2. \A v, w \in Ranked : Start(v) = Start(w) => v = w
          <6>1. chunk \in Ends /\ Ranked \subseteq Windows(chunk)
            BY <3>1 DEF Accounted
          <6> QED
            BY <2>2, <6>1, WindowsOfChunk
        <5>3. \A w \in Ranked : \E r \in Elements(Merged(a)) : r.window = w
          BY <2>2, <5>2, MergedKeepsAll
        <5>4. Ranked' = {r.window : r \in Elements(ranked)'}
          BY DEF Ranked, Ranks, Elements
        <5>5. Elements(ranked)' = Elements(Merged(a))
          BY <5>1 DEF Elements
        <5> QED
          BY <5>3, <5>4, <5>5
      <4> QED
        BY <2>12, <4>1, <4>2 DEF Judge
    <3>3. ASSUME NEW c \in Ends, NEW u \in Windows(c), ~Enough
          PROVE  c > chunk \/ Settled(u)' \/ OnItsWay(u, c)'
      <4>1. CASE Settled(u)
        BY <2>1, <2>7, <3>1, <4>1, SettledForGood
      <4>2. CASE OnItsWay(u, c)
        BY <3>1, <3>2, <4>2 DEF OnItsWay
      <4> QED
        BY <3>3, <4>1, <4>2 DEF Accounted
    <3> QED
      BY <2>3, <2>7, <3>1, <3>3 DEF Accounted
  <2>13. CASE Keep
    <3>1. /\ pc = "keep" /\ pc' = "keep" /\ ranked # <<>> /\ ranked' = Tail(ranked) /\ ~Enough /\ chunk' = chunk
          /\ existing = Kept
      BY <2>13 DEF Keep, Booked
    <3>2. Tail(ranked) \in Seq(Entry) /\ ranked[1] \in Entry /\ Elements(ranked) = Elements(Tail(ranked)) \cup {ranked[1]}
      BY <2>2, <3>1, ElementsOfSequence
    <3>3. PICK w \in Window : w = ranked[1].window
      BY <3>2 DEF Entry
    <3>4. Ranked = Ranked' \cup {w}
      <4>1. Ranked = {r.window : r \in Elements(ranked)}
        BY <2>2, RankedWindows
      <4>2. Ranked' = {r.window : r \in Elements(ranked)'}
        BY DEF Ranked, Ranks, Elements
      <4>3. Elements(ranked)' = Elements(Tail(ranked))
        BY <3>1 DEF Elements
      <4> QED
        BY <3>2, <3>3, <4>1, <4>2, <4>3
    <3>5. Kept \subseteq Kept' /\ deferred \subseteq deferred' /\ Settled(w)'
      <4>1. CASE created' = Append(created, w) /\ deferred' = deferred
        BY <2>8, <4>1 DEF Settled
      <4>2. CASE created' = created /\ deferred' = deferred \cup {ranked[1]}
        BY <2>7, <3>3, <4>2 DEF Settled
      <4> QED
        BY <2>13, <3>3, <4>1, <4>2 DEF Keep, Create
    <3>6. ASSUME NEW c \in Ends, NEW u \in Windows(c)
          PROVE  c > chunk \/ Settled(u)' \/ OnItsWay(u, c)'
      <4>1. CASE Settled(u)
        BY <2>1, <3>5, <4>1, SettledForGood
      <4>2. CASE OnItsWay(u, c)
        BY <3>1, <3>4, <3>5, <4>2 DEF OnItsWay
      <4> QED
        BY <3>1, <3>6, <4>1, <4>2 DEF Accounted
    <3> QED
      BY <2>3, <3>1, <3>6 DEF Accounted
  <2>14. CASE EndChunk
    <3>1. /\ pc = "keep" /\ UNCHANGED <<created, deferred, chunk>> /\ (ranked = <<>> \/ Enough)
          /\ pc' = IF Enough \/ Following = {} THEN "relax" ELSE "load"
      BY <2>14 DEF EndChunk
    <3>2. ranked = <<>> => Ranked = {}
      <4>1. DOMAIN <<>> = {}
        OBVIOUS
      <4> QED
        BY <4>1 DEF Ranked, Ranks
    <3>3. ASSUME NEW c \in Ends, NEW u \in Windows(c), ~Enough
          PROVE  c > chunk \/ Settled(u)'
      <4>1. c > chunk \/ Settled(u)
        BY <3>1, <3>2, <3>3 DEF Accounted, OnItsWay
      <4> QED
        BY <2>1, <2>7, <3>1, <4>1, SettledForGood
    <3> QED
      BY <2>3, <2>5, <2>7, <3>1, <3>3 DEF Accounted
  <2>15. CASE Relax
    <3>1. pc = "relax" /\ pc' = "relax" /\ chunk' = chunk /\ existing = Kept
      BY <2>15 DEF Relax, Booked
    <3>2. PICK r \in deferred : deferred' = deferred \ {r} /\ Tried(r.window)
      BY <2>15 DEF Relax
    <3>3. r.window \in Window
      BY <2>2 DEF Entry
    <3>4. Kept \subseteq Kept' /\ (~Enough' => ~Enough) /\ \E v \in Kept' : v = r.window \/ RelaxedDuplicate(r.window, v)
      <4>1. CASE created' = Append(created, r.window)
        BY <2>8, <3>3, <4>1
      <4>2. CASE created' = created /\ \E v \in existing : RelaxedDuplicate(r.window, v)
        BY <2>7, <3>1, <4>2
      <4> QED
        BY <3>2, <4>1, <4>2 DEF Tried, Create
    <3>5. ASSUME NEW c \in Ends, NEW u \in Windows(c), ~Enough
          PROVE  c > chunk \/ Settled(u)'
      <4>1. c > chunk \/ Settled(u)
        BY <3>1, <3>5 DEF Accounted, OnItsWay
      <4> QED
        BY <2>1, <3>2, <3>4, <4>1, SettledForGood
    <3> QED
      BY <2>3, <2>5, <3>1, <3>4, <3>5 DEF Accounted
  <2>16. CASE Finish
    <3>1. pc = "relax" /\ pc' = "done" /\ UNCHANGED <<created, deferred, chunk>> /\ (~Few \/ deferred = {})
      BY <2>16 DEF Finish
    <3>2. ASSUME NEW c \in Ends, NEW u \in Windows(c), ~Enough
          PROVE  c > chunk \/ Settled(u)'
      <4>1. c > chunk \/ Settled(u)
        BY <3>1, <3>2 DEF Accounted, OnItsWay
      <4> QED
        BY <2>1, <2>7, <3>1, <4>1, SettledForGood
    <3> QED
      BY <2>3, <2>5, <2>7, <3>1, <3>2 DEF Accounted
  <2>17. CASE UNCHANGED vars
    <3>1. UNCHANGED <<created, deferred, chunk, pc, remaining, ranked>> /\ Ranked' = Ranked
      BY <2>17 DEF vars, Ranked, Ranks
    <3>2. ASSUME NEW c \in Ends, NEW u \in Windows(c), ~Enough
          PROVE  c > chunk \/ Settled(u)' \/ OnItsWay(u, c)'
      <4>1. CASE Settled(u)
        BY <2>1, <2>7, <3>1, <4>1, SettledForGood
      <4>2. CASE OnItsWay(u, c)
        BY <3>1, <4>2 DEF OnItsWay
      <4> QED
        BY <3>2, <4>1, <4>2 DEF Accounted
    <3>3. Windows(chunk)' = Windows(chunk)
      BY <2>3, <3>1
    <3> QED
      BY <2>3, <2>5, <2>7, <3>1, <3>2, <3>3 DEF Accounted
  <2>18. ~Interfere
    BY DEF Interfere
  <2> QED
    BY <2>9, <2>10, <2>11, <2>12, <2>13, <2>14, <2>15, <2>16, <2>17, <2>18 DEF Next
<1> QED
  BY <1>1, <1>2, TypesHold, BooksAreKept, PTL DEF Spec

(* Fewer than the least number are kept only if every window of every      *)
(* chunk is kept, or alike one that is (candidates.py 98-262,              *)
(* llm_analysis.py 79-135).                                                *)
THEOREM NoWindowIsLost ==
  ASSUME ~Concurrent, Ratio <= 100
  PROVE  Spec => []FewOnlyIfAlike
<1>1. Typed /\ Accounted => FewOnlyIfAlike
  <2> SUFFICES ASSUME Typed, Accounted, pc = "done", Few, NEW c \in Ends, NEW w \in Windows(c)
               PROVE  \E k \in DOMAIN created : created[k] = w \/ RelaxedDuplicate(w, created[k])
    BY DEF FewOnlyIfAlike
  <2>1. PICK n \in Nat : n = Len(created)
    BY LenProperties DEF Typed
  <2>2. PICK l \in Nat, m \in Nat : l = limits[1] /\ m = limits[2]
    BY DEF Typed
  <2>3. ~Enough
    <3>1. n < Smaller(l, m)
      BY <2>1, <2>2 DEF Few
    <3>2. ~(n >= m)
      BY <3>1 DEF Smaller
    <3> QED
      BY <2>1, <2>2, <3>2 DEF Enough
  <2>4. deferred = {} /\ Following = {}
    BY <2>3 DEF Accounted
  <2>5. Settled(w)
    BY <2>3, <2>4 DEF Accounted, OnItsWay, Following
  <2>6. \E v \in Kept : v = w \/ RelaxedDuplicate(w, v)
    BY <2>4, <2>5 DEF Settled
  <2> QED
    BY <2>6 DEF Kept, Elements
<1> QED
  BY <1>1, TypesHold, WindowsAreAccounted, PTL

(* What holds of 0, and of each number if of the one before, holds of all. *)
LEMMA CountUp ==
  ASSUME NEW n \in Nat, NEW P, 0 \in P, \A k \in 1..n : k - 1 \in P => k \in P
  PROVE  \A k \in 0..n : k \in P
<1> DEFINE C == {k \in 0..n : k \notin P}
<1> SUFFICES ASSUME C # {}
             PROVE  FALSE
  OBVIOUS
<1>1. C \subseteq Nat
  OBVIOUS
<1>2. PICK k \in C : \A j \in C : k <= j
  <2> HIDE DEF C
  <2> QED
    BY <1>1, LeastThereIs
<1>3. k # 0 /\ k \in 0..n
  OBVIOUS
<1>4. k \in 1..n /\ k - 1 \in 0..n /\ ~(k <= k - 1)
  BY <1>3
<1>5. k - 1 \notin C
  BY <1>2, <1>4
<1> QED
  BY <1>4, <1>5

(* A function is defined that begins with z, and whose value for a number  *)
(* is counted from the value for the one before.                           *)
Rules(n, S) == [1..n -> [S -> S]]
Follows(f, n, S, z, h) == f \in [0..n -> S] /\ f[0] = z /\ \A k \in 1..n : f[k] = h[k][f[k - 1]]
LEMMA Recursion ==
  ASSUME NEW n \in Nat, NEW S, NEW z \in S, NEW h, h \in Rules(n, S)
  PROVE  \E f : Follows(f, n, S, z, h)
<1> DEFINE Upto(m) == {f \in [0..m -> S] : f[0] = z /\ \A k \in 1..m : f[k] = h[k][f[k - 1]]}
           P == {m \in 0..n : Upto(m) # {}}
<1>1. 0 \in P
  <2>1. [k \in 0..0 |-> z] \in Upto(0)
    OBVIOUS
  <2> QED
    BY <2>1
<1>2. ASSUME NEW m \in 1..n, m - 1 \in P
      PROVE  m \in P
  <2>1. PICK f \in [0..(m - 1) -> S] : f[0] = z /\ \A k \in 1..(m - 1) : f[k] = h[k][f[k - 1]]
    BY <1>2
  <2> DEFINE g == [k \in 0..m |-> IF k = m THEN h[m][f[m - 1]] ELSE f[k]]
  <2>2. m - 1 \in 0..(m - 1) /\ 0 \in 0..(m - 1) /\ m # 0
    OBVIOUS
  <2>3. \A k \in 0..m : k # m => k \in 0..(m - 1)
    OBVIOUS
  <2>4. h[m][f[m - 1]] \in S
    BY <2>1, <2>2 DEF Rules
  <2>5. g \in [0..m -> S]
    BY <2>1, <2>3, <2>4
  <2>6. g[0] = z
    BY <2>1, <2>2
  <2>7. ASSUME NEW k \in 1..m
        PROVE  g[k] = h[k][g[k - 1]]
    <3>1. k - 1 \in 0..(m - 1) /\ k - 1 # m /\ k \in 0..m
      OBVIOUS
    <3>2. g[k - 1] = f[k - 1]
      BY <3>1
    <3>3. CASE k = m
      BY <3>1, <3>2, <3>3
    <3>4. CASE k # m
      <4>1. k \in 1..(m - 1)
        BY <3>4
      <4> QED
        BY <2>1, <3>1, <3>2, <3>4, <4>1
    <3> QED
      BY <3>3, <3>4
  <2>8. g \in Upto(m)
    <3> HIDE DEF g
    <3> QED
      BY <2>5, <2>6, <2>7
  <2> QED
    BY <2>8
<1>3. n \in P
  <2> HIDE DEF P
  <2>1. \A k \in 0..n : k \in P
    BY <1>1, <1>2, CountUp
  <2> QED
    BY <2>1
<1>4. PICK f \in Upto(n) : TRUE
  BY <1>3
<1> QED
  BY <1>4 DEF Follows

(* What is counted the same way is the same.                               *)
Counts(f, n) == f = [k \in 0..n |-> f[k]]
LEMMA Counted ==
  ASSUME NEW n \in Nat, NEW f, NEW c, Counts(f, n), Counts(c, n),
         c[0] = f[0], \A k \in 1..n : c[k - 1] = f[k - 1] => c[k] = f[k]
  PROVE  c = f
<1> DEFINE P == {k \in 0..n : c[k] = f[k]}
<1>1. 0 \in P
  <2>1. 0 \in 0..n
    OBVIOUS
  <2> QED
    BY <2>1
<1>2. ASSUME NEW k \in 1..n, k - 1 \in P
      PROVE  k \in P
  <2>1. k \in 0..n
    OBVIOUS
  <2>2. c[k - 1] = f[k - 1]
    BY <1>2
  <2> QED
    BY <2>1, <2>2
<1> HIDE DEF P
<1>3. \A k \in 0..n : k \in P
  BY <1>1, <1>2, CountUp
<1>4. \A k \in 0..n : c[k] = f[k]
  BY <1>3 DEF P
<1> QED
  BY <1>4 DEF Counts

(* The text of a caption, in words and in lines.                           *)
Line == Seq(Word)

(* Chars is defined: it sums the words, with a space between two.          *)
CharsOf(words, c) ==
  /\ c \in [0..Len(words) -> Int] /\ c[0] = -1
  /\ \A k \in 1..Len(words) : c[k] = c[k - 1] + 1 + words[k].length
LEMMA CharsAre ==
  ASSUME NEW words \in Line
  PROVE  \E c : CharsOf(words, c) /\ Chars(words) = c[Len(words)]
<1>1. PICK n \in Nat : n = Len(words) /\ \A k \in 1..n : words[k].length \in Nat
  <2>1. Len(words) \in Nat /\ \A k \in 1..Len(words) : words[k] \in Word
    BY ElementsOfSequence DEF Line
  <2> QED
    BY <2>1 DEF Word
<1> DEFINE h == [k \in 1..n |-> [c \in Int |-> c + 1 + words[k].length]]
           D(g) == [k \in 0..n |-> IF k = 0 THEN -1 ELSE g[k - 1] + 1 + words[k].length]
           c == CHOOSE g : g = D(g)
<1>2. h \in [1..n -> [Int -> Int]]
  BY <1>1
<1>3. PICK f \in [0..n -> Int] : f[0] = -1 /\ \A k \in 1..n : f[k] = h[k][f[k - 1]]
  <2> DEFINE S == Int
             z == -1
  <2>1. h \in Rules(n, S) /\ z \in S
    BY <1>2 DEF Rules
  <2> HIDE DEF h, S, z
  <2>2. \E f : Follows(f, n, S, z, h)
    BY <2>1, Recursion
  <2> QED
    BY <2>2 DEF S, z, Follows
<1>4. f = D(f)
  <2>1. ASSUME NEW k \in 1..n
        PROVE  f[k] = f[k - 1] + 1 + words[k].length
    <3>1. k - 1 \in 0..n
      OBVIOUS
    <3>2. f[k - 1] \in Int
      BY <3>1
    <3> QED
      BY <1>3, <3>2
  <2>2. \A k \in 0..n : f[k] = D(f)[k]
    BY <1>3, <2>1
  <2> QED
    BY <1>3, <2>2
<1>5. c = D(c)
  <2> HIDE DEF D
  <2> QED
    BY <1>4
<1>6. Chars(words) = c[n]
  BY <1>1 DEF Chars
<1>7. DOMAIN c = 0..n /\ c[0] = -1 /\ \A k \in 1..n : c[k] = c[k - 1] + 1 + words[k].length
  <2> HIDE DEF c
  <2>1. \A k \in 0..n : c[k] = IF k = 0 THEN -1 ELSE c[k - 1] + 1 + words[k].length
    BY <1>5
  <2>2. DOMAIN c = 0..n
    BY <1>5
  <2> QED
    BY <2>1, <2>2
<1>8. c \in [0..n -> Int]
  <2> HIDE DEF c
  <2> DEFINE P == {k \in 0..n : c[k] \in Int}
  <2>1. 0 \in P
    BY <1>7
  <2>2. \A k \in 1..n : k - 1 \in P => k \in P
    BY <1>1, <1>7
  <2>3. \A k \in 0..n : k \in P
    <3> HIDE DEF P
    <3> QED
      BY <2>1, <2>2, CountUp
  <2>4. c = [k \in 0..n |-> c[k]]
    BY <1>5
  <2> QED
    BY <2>3, <2>4
<1> QED
  <2> HIDE DEF c
  <2> QED
    BY <1>1, <1>6, <1>7, <1>8 DEF CharsOf

(* A sequence that is not empty is its front and its last element.         *)
LEMMA EndsOf ==
  ASSUME NEW S, NEW s \in Seq(S), s # <<>>
  PROVE  /\ Len(s) \in Nat \ {0} /\ Front(s) \in Seq(S) /\ Last(s) \in S /\ Last(s) = s[Len(s)]
         /\ Len(Front(s)) = Len(s) - 1 /\ \A i \in 1..(Len(s) - 1) : Front(s)[i] = s[i]
         /\ s = Append(Front(s), Last(s))
<1>1. PICK n \in Nat \ {0} : n = Len(s) /\ s \in [1..n -> S]
  <2>1. Len(s) \in Nat \ {0} /\ s \in [1..Len(s) -> S]
    BY EmptySeq, LenProperties
  <2> QED
    BY <2>1
<1>2. PICK t \in Seq(S), e \in S : s = Append(t, e)
  BY SequenceEmptyOrAppend
<1>3. PICK m \in Nat : m = Len(t) /\ n = m + 1 /\ e = s[n] /\ \A i \in 1..m : s[i] = t[i]
  <2>1. Len(t) \in Nat /\ Len(s) = Len(t) + 1 /\ s[Len(t) + 1] = e /\ \A i \in 1..Len(t) : s[i] = t[i]
    BY <1>2, AppendProperties, LenProperties
  <2> QED
    BY <1>1, <2>1
<1>4. PICK u : u = Front(s)
  OBVIOUS
<1>5. u = SubSeq(s, 1, m) /\ Last(s) = e
  <2>1. n - 1 = m
    BY <1>3
  <2> QED
    BY <1>1, <1>3, <1>4, <2>1 DEF Front, Last
<1>6. u \in Seq(S) /\ Len(u) = m /\ \A i \in 1..m : u[i] = s[i]
  <2>1. 1 \in Int /\ m \in Int /\ \A i \in 1..m : s[i] \in S
    BY <1>1, <1>3
  <2>2. /\ SubSeq(s, 1, m) \in Seq(S) /\ Len(SubSeq(s, 1, m)) = IF 1 <= m THEN m - 1 + 1 ELSE 0
        /\ \A i \in 1..(m - 1 + 1) : SubSeq(s, 1, m)[i] = s[1 + i - 1]
    BY ONLY <2>1, SubSeqProperties
  <2>3. (IF 1 <= m THEN m - 1 + 1 ELSE 0) = m /\ m - 1 + 1 = m /\ \A i \in 1..m : 1 + i - 1 = i
    OBVIOUS
  <2> QED
    BY <1>5, <2>2, <2>3
<1>7. u = t
  BY <1>3, <1>6, SeqEqual
<1>8. m = n - 1
  BY <1>3
<1> QED
  BY <1>1, <1>2, <1>3, <1>4, <1>5, <1>6, <1>7, <1>8

(* A word joins the last part, or begins one.                              *)
LEMMA WordAdded ==
  ASSUME NEW S, NEW chunks \in Seq(S), NEW word, NEW fits, <<word>> \in S,
         chunks # <<>> /\ fits => Append(Last(chunks), word) \in S
  PROVE  AddWord(chunks, word, fits) \in Seq(S)
<1>1. CASE chunks # <<>> /\ fits
  <2>1. PICK front, e : front = Front(chunks) /\ e = Append(Last(chunks), word)
    OBVIOUS
  <2>2. front \in Seq(S) /\ e \in S
    BY <1>1, <2>1, EndsOf
  <2> QED
    BY <1>1, <2>1, <2>2, AppendProperties DEF AddWord
<1>2. CASE ~(chunks # <<>> /\ fits)
  <2>1. PICK e \in S : e = <<word>>
    OBVIOUS
  <2>2. AddWord(chunks, word, fits) = Append(chunks, e)
    BY <1>2, <2>1 DEF AddWord
  <2> QED
    BY <2>2, AppendProperties
<1> QED
  BY <1>1, <1>2

(* A line of words that fits, or is one word.                              *)
Fine == {w \in Line : /\ w # <<>> /\ Len(w) <= MaxWordsPerLine
                      /\ Len(w) = 1 \/ Chars(w) <= MaxCharsPerLine}
(* A word alone is a line.                                                 *)
LEMMA OneWord ==
  ASSUME NEW w \in Word
  PROVE  <<w>> \in Line /\ Len(<<w>>) = 1 /\ <<w>> # <<>> /\ <<w>> \in Fine
<1>1. PICK s : s = <<w>>
  OBVIOUS
<1>2. s \in Seq(Word) /\ Len(s) = 1 /\ s # <<>>
  BY <1>1
<1>3. s \in Line
  BY <1>2 DEF Line
<1>4. Len(s) <= MaxWordsPerLine
  BY <1>2, CaptionsAssumption
<1> QED
  BY <1>1, <1>2, <1>3, <1>4 DEF Fine
(* A word is added to a line where it fits, or begins one.                 *)
LEMMA ChunkWordFits ==
  ASSUME NEW chunks \in Seq(Fine), NEW word \in Word
  PROVE  ChunkWord(chunks, word) \in Seq(Fine)
<1>1. PICK e : e = Append(Last(chunks), word)
  OBVIOUS
<1>2. ASSUME chunks # <<>>, Fits(e)
      PROVE  e \in Fine
  <2>1. PICK l \in Fine : l = Last(chunks)
    BY <1>2, EndsOf
  <2>2. e \in Line /\ e # <<>>
    BY <1>1, <2>1, AppendProperties DEF Fine, Line
  <2> QED
    BY <1>2, <2>2 DEF Fits, Fine
<1>3. <<word>> \in Fine
  BY OneWord
<1>4. AddWord(chunks, word, Fits(e)) \in Seq(Fine)
  BY <1>1, <1>2, <1>3, WordAdded
<1> QED
  BY <1>1, <1>4 DEF ChunkWord

(* Chunked is defined: it adds the words one by one.                       *)
ChunksOf(words, c) ==
  /\ c \in [0..Len(words) -> Seq(Fine)] /\ c[0] = <<>>
  /\ \A k \in 1..Len(words) : c[k] = ChunkWord(c[k - 1], words[k])
LEMMA ChunksAre ==
  ASSUME NEW words \in Line
  PROVE  \E c : ChunksOf(words, c) /\ Chunked(words) = c[Len(words)]
<1>1. PICK n \in Nat : n = Len(words) /\ \A k \in 1..n : words[k] \in Word
  <2>1. Len(words) \in Nat /\ \A k \in 1..Len(words) : words[k] \in Word
    BY ElementsOfSequence DEF Line
  <2> QED
    BY <2>1
<1> DEFINE S == Seq(Fine)
           h == [k \in 1..n |-> [s \in S |-> ChunkWord(s, words[k])]]
           D(g) == [k \in 0..n |-> IF k = 0 THEN <<>> ELSE ChunkWord(g[k - 1], words[k])]
           c == CHOOSE g : g = D(g)
<1>2. PICK f : Follows(f, n, S, <<>>, h)
  <2>1. <<>> \in S
    BY EmptySeq
  <2>2. \A k \in 1..n, s \in S : ChunkWord(s, words[k]) \in S
    BY <1>1, ChunkWordFits
  <2> HIDE DEF S
  <2>3. h \in Rules(n, S)
    BY <2>2 DEF Rules
  <2> HIDE DEF h
  <2> QED
    BY <2>1, <2>3, Recursion
<1> HIDE DEF S
<1>3. /\ f \in [0..n -> S] /\ f[0] = <<>>
      /\ \A k \in 1..n : f[k - 1] \in S /\ f[k] = ChunkWord(f[k - 1], words[k])
  <2>1. f \in [0..n -> S] /\ f[0] = <<>> /\ \A k \in 1..n : f[k] = h[k][f[k - 1]]
    BY <1>2 DEF Follows
  <2>2. \A k \in 1..n : k - 1 \in 0..n
    OBVIOUS
  <2> QED
    BY <2>1, <2>2
<1>4. f = D(f)
  <2>1. \A k \in 0..n : f[k] = IF k = 0 THEN <<>> ELSE ChunkWord(f[k - 1], words[k])
    BY <1>3
  <2> QED
    BY <1>3, <2>1
<1>5. c = D(c)
  <2> HIDE DEF D
  <2> QED
    BY <1>4
<1>6. Chunked(words) = c[n]
  BY <1>1 DEF Chunked
<1> HIDE DEF c
<1>7. /\ c = [k \in 0..n |-> c[k]] /\ c[0] = <<>>
      /\ \A k \in 1..n : c[k] = ChunkWord(c[k - 1], words[k])
  <2>1. \A k \in 0..n : c[k] = IF k = 0 THEN <<>> ELSE ChunkWord(c[k - 1], words[k])
    BY <1>5
  <2>2. 0 \in 0..n /\ \A k \in 1..n : k \in 0..n /\ k # 0
    OBVIOUS
  <2>3. c = [k \in 0..n |-> c[k]]
    BY <1>5
  <2> QED
    BY <2>1, <2>2, <2>3
<1>8. c = f
  <2>1. c[0] = f[0] /\ Counts(c, n) /\ Counts(f, n)
    BY <1>3, <1>7 DEF Counts
  <2>2. \A k \in 1..n : c[k - 1] = f[k - 1] => c[k] = f[k]
    BY <1>3, <1>7
  <2> QED
    BY <2>1, <2>2, Counted
<1> QED
  BY <1>1, <1>3, <1>6, <1>8 DEF ChunksOf, S

(* A word is added to a phrase, or begins one.                             *)
LEMMA PhraseWordTyped ==
  ASSUME NEW parts \in Seq(Line), NEW word \in Word
  PROVE  PhraseWord(parts, word) \in Seq(Line)
<1>1. PICK fits : fits = ~Last(Last(parts)).stop
  OBVIOUS
<1>2. ASSUME parts # <<>>
      PROVE  Append(Last(parts), word) \in Line
  <2>1. PICK l \in Line : l = Last(parts)
    BY <1>2, EndsOf
  <2> QED
    BY <2>1, AppendProperties DEF Line
<1>3. <<word>> \in Line
  BY OneWord
<1>4. AddWord(parts, word, fits) \in Seq(Line)
  BY <1>2, <1>3, WordAdded
<1> QED
  BY <1>1, <1>4 DEF PhraseWord

(* Phrases is defined: it adds the words one by one.                       *)
PhrasesOf(text, c) ==
  /\ c \in [0..Len(text) -> Seq(Line)] /\ c[0] = <<>>
  /\ \A k \in 1..Len(text) : c[k] = PhraseWord(c[k - 1], text[k])
LEMMA PhrasesAre ==
  ASSUME NEW text \in Line
  PROVE  \E c : PhrasesOf(text, c) /\ Phrases(text) = c[Len(text)]
<1>1. PICK n \in Nat : n = Len(text) /\ \A k \in 1..n : text[k] \in Word
  <2>1. Len(text) \in Nat /\ \A k \in 1..Len(text) : text[k] \in Word
    BY ElementsOfSequence DEF Line
  <2> QED
    BY <2>1
<1> DEFINE S == Seq(Line)
           h == [k \in 1..n |-> [s \in S |-> PhraseWord(s, text[k])]]
           D(g) == [k \in 0..n |-> IF k = 0 THEN <<>> ELSE PhraseWord(g[k - 1], text[k])]
           c == CHOOSE g : g = D(g)
<1>2. PICK f : Follows(f, n, S, <<>>, h)
  <2>1. <<>> \in S
    BY EmptySeq
  <2>2. \A k \in 1..n, s \in S : PhraseWord(s, text[k]) \in S
    BY <1>1, PhraseWordTyped
  <2> HIDE DEF S
  <2>3. h \in Rules(n, S)
    BY <2>2 DEF Rules
  <2> HIDE DEF h
  <2> QED
    BY <2>1, <2>3, Recursion
<1> HIDE DEF S
<1>3. /\ f \in [0..n -> S] /\ f[0] = <<>>
      /\ \A k \in 1..n : f[k - 1] \in S /\ f[k] = PhraseWord(f[k - 1], text[k])
  <2>1. f \in [0..n -> S] /\ f[0] = <<>> /\ \A k \in 1..n : f[k] = h[k][f[k - 1]]
    BY <1>2 DEF Follows
  <2>2. \A k \in 1..n : k - 1 \in 0..n
    OBVIOUS
  <2> QED
    BY <2>1, <2>2
<1>4. f = D(f)
  <2>1. \A k \in 0..n : f[k] = IF k = 0 THEN <<>> ELSE PhraseWord(f[k - 1], text[k])
    BY <1>3
  <2> QED
    BY <1>3, <2>1
<1>5. c = D(c)
  <2> HIDE DEF D
  <2> QED
    BY <1>4
<1>6. Phrases(text) = c[n]
  BY <1>1 DEF Phrases
<1> HIDE DEF c
<1>7. /\ c = [k \in 0..n |-> c[k]] /\ c[0] = <<>>
      /\ \A k \in 1..n : c[k] = PhraseWord(c[k - 1], text[k])
  <2>1. \A k \in 0..n : c[k] = IF k = 0 THEN <<>> ELSE PhraseWord(c[k - 1], text[k])
    BY <1>5
  <2>2. 0 \in 0..n /\ \A k \in 1..n : k \in 0..n /\ k # 0
    OBVIOUS
  <2>3. c = [k \in 0..n |-> c[k]]
    BY <1>5
  <2> QED
    BY <2>1, <2>2, <2>3
<1>8. c = f
  <2>1. c[0] = f[0] /\ Counts(c, n) /\ Counts(f, n)
    BY <1>3, <1>7 DEF Counts
  <2>2. \A k \in 1..n : c[k - 1] = f[k - 1] => c[k] = f[k]
    BY <1>3, <1>7
  <2> QED
    BY <2>1, <2>2, Counted
<1> QED
  BY <1>1, <1>3, <1>6, <1>8 DEF PhrasesOf, S

(* Of two numbers, Max is the greater and Min the less.                    *)
LEMMA MaxMin ==
  ASSUME NEW a \in Int, NEW b \in Int
  PROVE  /\ Max({a, b}) = (IF a >= b THEN a ELSE b) /\ Min({a, b}) = (IF a <= b THEN a ELSE b)
<1>1. PICK x \in {a, b} : \A y \in {a, b} : x >= y
  OBVIOUS
<1>2. PICK z \in {a, b} : \A y \in {a, b} : z <= y
  OBVIOUS
<1>3. Max({a, b}) \in {a, b} /\ \A y \in {a, b} : Max({a, b}) >= y
  BY <1>1 DEF Max
<1>4. Min({a, b}) \in {a, b} /\ \A y \in {a, b} : Min({a, b}) <= y
  BY <1>2 DEF Min
<1>5. Max({a, b}) = IF a >= b THEN a ELSE b
  BY <1>3
<1>6. Min({a, b}) = IF a <= b THEN a ELSE b
  BY <1>4
<1> QED
  BY <1>5, <1>6

(* A cue joins the one before, or is kept.                                 *)
LEMMA CueMerged ==
  ASSUME NEW kept \in Seq(Cue), NEW cue \in Cue
  PROVE  MergeCue(kept, cue) \in Seq(Cue)
<1>1. CASE kept # <<>> /\ Repeats(Last(kept), cue)
  <2>1. PICK front, last : front = Front(kept) /\ last = Last(kept)
    OBVIOUS
  <2>2. front \in Seq(Cue) /\ last \in Cue
    BY <1>1, <2>1, EndsOf
  <2>3. PICK e : e = [last EXCEPT !.end = Max({last.end, cue.end})]
    OBVIOUS
  <2>4. Max({last.end, cue.end}) \in Nat
    <3>1. last.end \in Nat /\ cue.end \in Nat
      BY <2>2 DEF Cue
    <3> QED
      BY <3>1, MaxMin
  <2>5. e \in Cue
    BY <2>2, <2>3, <2>4 DEF Cue
  <2>6. MergeCue(kept, cue) = Append(front, e)
    BY <1>1, <2>1, <2>3 DEF MergeCue
  <2> QED
    BY <2>2, <2>5, <2>6, AppendProperties
<1>2. CASE ~(kept # <<>> /\ Repeats(Last(kept), cue))
  <2>1. MergeCue(kept, cue) = Append(kept, cue)
    BY <1>2 DEF MergeCue
  <2> QED
    BY <2>1, AppendProperties
<1> QED
  BY <1>1, <1>2

(* MergedCues is defined: it merges the cues one by one.                   *)
MergedOf(cues, c) ==
  /\ c \in [0..Len(cues) -> Seq(Cue)] /\ c[0] = <<>>
  /\ \A k \in 1..Len(cues) : c[k] = MergeCue(c[k - 1], cues[k])
LEMMA MergedAre ==
  ASSUME NEW cues \in Seq(Cue)
  PROVE  \E c : MergedOf(cues, c) /\ MergedCues(cues) = c[Len(cues)]
<1>1. PICK n \in Nat : n = Len(cues) /\ \A k \in 1..n : cues[k] \in Cue
  <2>1. Len(cues) \in Nat /\ \A k \in 1..Len(cues) : cues[k] \in Cue
    BY ElementsOfSequence
  <2> QED
    BY <2>1
<1> DEFINE S == Seq(Cue)
           h == [k \in 1..n |-> [s \in S |-> MergeCue(s, cues[k])]]
           D(g) == [k \in 0..n |-> IF k = 0 THEN <<>> ELSE MergeCue(g[k - 1], cues[k])]
           c == CHOOSE g : g = D(g)
<1>2. PICK f : Follows(f, n, S, <<>>, h)
  <2>1. <<>> \in S
    BY EmptySeq
  <2>2. \A k \in 1..n, s \in S : MergeCue(s, cues[k]) \in S
    BY <1>1, CueMerged
  <2> HIDE DEF S
  <2>3. h \in Rules(n, S)
    BY <2>2 DEF Rules
  <2> HIDE DEF h
  <2> QED
    BY <2>1, <2>3, Recursion
<1> HIDE DEF S
<1>3. /\ f \in [0..n -> S] /\ f[0] = <<>>
      /\ \A k \in 1..n : f[k - 1] \in S /\ f[k] = MergeCue(f[k - 1], cues[k])
  <2>1. f \in [0..n -> S] /\ f[0] = <<>> /\ \A k \in 1..n : f[k] = h[k][f[k - 1]]
    BY <1>2 DEF Follows
  <2>2. \A k \in 1..n : k - 1 \in 0..n
    OBVIOUS
  <2> QED
    BY <2>1, <2>2
<1>4. f = D(f)
  <2>1. \A k \in 0..n : f[k] = IF k = 0 THEN <<>> ELSE MergeCue(f[k - 1], cues[k])
    BY <1>3
  <2> QED
    BY <1>3, <2>1
<1>5. c = D(c)
  <2> HIDE DEF D
  <2> QED
    BY <1>4
<1>6. MergedCues(cues) = c[n]
  BY <1>1 DEF MergedCues
<1> HIDE DEF c
<1>7. /\ c = [k \in 0..n |-> c[k]] /\ c[0] = <<>>
      /\ \A k \in 1..n : c[k] = MergeCue(c[k - 1], cues[k])
  <2>1. \A k \in 0..n : c[k] = IF k = 0 THEN <<>> ELSE MergeCue(c[k - 1], cues[k])
    BY <1>5
  <2>2. 0 \in 0..n /\ \A k \in 1..n : k \in 0..n /\ k # 0
    OBVIOUS
  <2>3. c = [k \in 0..n |-> c[k]]
    BY <1>5
  <2> QED
    BY <2>1, <2>2, <2>3
<1>8. c = f
  <2>1. c[0] = f[0] /\ Counts(c, n) /\ Counts(f, n)
    BY <1>3, <1>7 DEF Counts
  <2>2. \A k \in 1..n : c[k - 1] = f[k - 1] => c[k] = f[k]
    BY <1>3, <1>7
  <2> QED
    BY <2>1, <2>2, Counted
<1> QED
  BY <1>1, <1>3, <1>6, <1>8 DEF MergedOf, S

(* A sequence that gets one element more is one of the same elements.      *)
LEMMA AddedIf ==
  ASSUME NEW T, NEW t \in Seq(T), NEW e \in T, NEW condition
  PROVE  AddIf(condition, t, e) \in Seq(T)
<1>1. Append(t, e) \in Seq(T)
  BY AppendProperties
<1> QED
  BY <1>1 DEF AddIf

(* Chosen is defined: it takes the elements one by one.                    *)
ChosenOf(t, places, T, c) ==
  /\ c \in [0..Len(t) -> Seq(T)] /\ c[0] = <<>>
  /\ \A k \in 1..Len(t) : c[k] = AddIf(k \in places, c[k - 1], t[k])
LEMMA ChosenAre ==
  ASSUME NEW T, NEW t \in Seq(T), NEW places
  PROVE  \E c : ChosenOf(t, places, T, c) /\ Chosen(t, places) = c[Len(t)]
<1>1. PICK n \in Nat : n = Len(t) /\ \A k \in 1..n : t[k] \in T
  <2>1. Len(t) \in Nat /\ \A k \in 1..Len(t) : t[k] \in T
    BY ElementsOfSequence
  <2> QED
    BY <2>1
<1> DEFINE S == Seq(T)
           h == [k \in 1..n |-> [s \in S |-> AddIf(k \in places, s, t[k])]]
           D(g) == [k \in 0..n |-> IF k = 0 THEN <<>> ELSE AddIf(k \in places, g[k - 1], t[k])]
           c == CHOOSE g : g = D(g)
<1>2. PICK f : Follows(f, n, S, <<>>, h)
  <2>1. <<>> \in S
    BY EmptySeq
  <2>2. \A k \in 1..n, s \in S : AddIf(k \in places, s, t[k]) \in S
    BY <1>1, AddedIf
  <2> HIDE DEF S
  <2>3. h \in Rules(n, S)
    BY <2>2 DEF Rules
  <2> HIDE DEF h
  <2> QED
    BY <2>1, <2>3, Recursion
<1> HIDE DEF S
<1>3. /\ f \in [0..n -> S] /\ f[0] = <<>>
      /\ \A k \in 1..n : f[k - 1] \in S /\ f[k] = AddIf(k \in places, f[k - 1], t[k])
  <2>1. f \in [0..n -> S] /\ f[0] = <<>> /\ \A k \in 1..n : f[k] = h[k][f[k - 1]]
    BY <1>2 DEF Follows
  <2>2. \A k \in 1..n : k - 1 \in 0..n
    OBVIOUS
  <2> QED
    BY <2>1, <2>2
<1>4. f = D(f)
  <2>1. \A k \in 0..n : f[k] = IF k = 0 THEN <<>> ELSE AddIf(k \in places, f[k - 1], t[k])
    BY <1>3
  <2> QED
    BY <1>3, <2>1
<1>5. c = D(c)
  <2> HIDE DEF D
  <2> QED
    BY <1>4
<1>6. Chosen(t, places) = c[n]
  BY <1>1 DEF Chosen
<1> HIDE DEF c
<1>7. /\ c = [k \in 0..n |-> c[k]] /\ c[0] = <<>>
      /\ \A k \in 1..n : c[k] = AddIf(k \in places, c[k - 1], t[k])
  <2>1. \A k \in 0..n : c[k] = IF k = 0 THEN <<>> ELSE AddIf(k \in places, c[k - 1], t[k])
    BY <1>5
  <2>2. 0 \in 0..n /\ \A k \in 1..n : k \in 0..n /\ k # 0
    OBVIOUS
  <2>3. c = [k \in 0..n |-> c[k]]
    BY <1>5
  <2> QED
    BY <2>1, <2>2, <2>3
<1>8. c = f
  <2>1. c[0] = f[0] /\ Counts(c, n) /\ Counts(f, n)
    BY <1>3, <1>7 DEF Counts
  <2>2. \A k \in 1..n : c[k - 1] = f[k - 1] => c[k] = f[k]
    BY <1>3, <1>7
  <2> QED
    BY <2>1, <2>2, Counted
<1> QED
  BY <1>1, <1>3, <1>6, <1>8 DEF ChosenOf, S

(* Chars is a number.                                                      *)
LEMMA CharsTyped ==
  ASSUME NEW words \in Line
  PROVE  Chars(words) \in Int
<1>1. PICK c : CharsOf(words, c) /\ Chars(words) = c[Len(words)]
  BY CharsAre
<1>2. Len(words) \in 0..Len(words)
  BY LenProperties DEF Line
<1> QED
  BY <1>1, <1>2 DEF CharsOf

(* The greatest place that a set of numbers up to n has.                   *)
LEMMA LastPlace ==
  ASSUME NEW n \in Nat, NEW C, C \subseteq 1..n, 1 \in C
  PROVE  Max(C) \in C /\ \A k \in 1..n : k > Max(C) => k \notin C
<1>1. IsFiniteSet(C) /\ C \subseteq Int /\ C # {}
  <2>1. 1 \in Int /\ n \in Int
    OBVIOUS
  <2>2. IsFiniteSet(1..n)
    BY <2>1, FS_Interval
  <2>3. C \in SUBSET (1..n)
    OBVIOUS
  <2>4. IsFiniteSet(C)
    BY <2>2, <2>3, FS_Subset
  <2> QED
    BY <2>4
<1>2. \E x \in C : \A y \in C : y <= x
  BY <1>1, GreatestThereIs
<1>3. \E x \in C : \A y \in C : x >= y
  BY <1>1, <1>2
<1>4. Max(C) \in C /\ \A y \in C : Max(C) >= y
  BY <1>3 DEF Max
<1>5. PICK m \in Int : m = Max(C)
  BY <1>1, <1>4
<1>6. \A k \in 1..n : k > m => ~(m >= k)
  OBVIOUS
<1> QED
  BY <1>4, <1>5, <1>6

(* The lines of a caption: the last may have more words, if it was short   *)
(* without the one that was moved into it last.                            *)
Spare == {w \in Line : w # <<>> /\ Chars(w) <= MaxCharsPerLine /\ Chars(Tail(w)) < ShortLine}
Laid == {s \in Seq(Line) : \A k \in 1..Len(s) : s[k] \in Fine \/ (k = Len(s) /\ s[k] \in Spare)}
LEMMA FineIsLaid ==
  ASSUME NEW s \in Seq(Fine)
  PROVE  s \in Laid
<1>1. Fine \subseteq Line
  BY DEF Fine
<1>2. s \in Seq(Line)
  BY <1>1, SeqMonotonic
<1>3. \A k \in 1..Len(s) : s[k] \in Fine
  BY ElementsOfSequence
<1> QED
  BY <1>2, <1>3 DEF Laid

(* Two lines are cut where words of the upper one are moved down.          *)
Cut(previous, last, words, cut) ==
  /\ words = previous \o last /\ cut \in 1..Len(previous)
  /\ \/ cut = Len(previous)
     \/ /\ Chars(SubSeq(words, cut + 2, Len(words))) < ShortLine
        /\ Chars(SubSeq(words, 1, cut)) <= MaxCharsPerLine
        /\ Chars(SubSeq(words, cut + 1, Len(words))) <= MaxCharsPerLine
LEMMA CutsFit ==
  ASSUME NEW previous \in Fine, NEW last \in Fine, NEW words, NEW cut, Cut(previous, last, words, cut)
  PROVE  /\ SubSeq(words, 1, cut) \in Fine
         /\ SubSeq(words, cut + 1, Len(words)) \in Fine \cup Spare
         /\ SubSeq(words, 1, cut) \o SubSeq(words, cut + 1, Len(words)) = words
<1>1. previous \in Seq(Word) /\ last \in Seq(Word) /\ previous # <<>> /\ last # <<>>
  BY DEF Fine, Line
<1>2. PICK p \in Nat \ {0}, q \in Nat \ {0} : /\ p = Len(previous) /\ q = Len(last) /\ p <= MaxWordsPerLine
                                                 /\ cut \in 1..p /\ words = previous \o last
  <2>1. Len(last) \in Nat \ {0} /\ Len(previous) \in Nat \ {0}
    BY <1>1, EmptySeq
  <2> QED
    BY <2>1 DEF Fine, Cut
<1>3. words \in Seq(Word) /\ Len(words) = p + q
  BY <1>1, <1>2, ConcatProperties
<1>4. cut \in 1..Len(words) /\ 1 \in 1..Len(words) /\ cut + 1 \in 1..Len(words) /\ Len(words) \in cut + 1..Len(words)
  BY <1>2, <1>3
<1>5. PICK U, L : U = SubSeq(words, 1, cut) /\ L = SubSeq(words, cut + 1, Len(words))
  OBVIOUS
<1>6. U \in Line /\ Len(U) = cut
  <2>1. 1 \in Int /\ cut \in Int /\ \A i \in 1..cut : words[i] \in Word
    BY <1>3, <1>4, ElementsOfSequence
  <2>2. SubSeq(words, 1, cut) \in Seq(Word) /\ Len(SubSeq(words, 1, cut)) = IF 1 <= cut THEN cut - 1 + 1 ELSE 0
    BY ONLY <2>1, SubSeqProperties
  <2>3. cut - 1 + 1 = cut /\ 1 <= cut
    BY <1>2
  <2> QED
    BY <1>5, <2>2, <2>3 DEF Line
<1>7. L \in Line /\ Len(L) = p + q - cut
  <2>1. cut + 1 \in Int /\ Len(words) \in Int /\ \A i \in (cut + 1)..Len(words) : words[i] \in Word
    <3>1. \A i \in 1..Len(words) : words[i] \in Word
      BY <1>3, ElementsOfSequence
    <3>2. \A i \in (cut + 1)..Len(words) : i \in 1..Len(words)
      BY <1>2, <1>3
    <3> QED
      BY <1>2, <1>3, <3>1, <3>2
  <2>2. /\ SubSeq(words, cut + 1, Len(words)) \in Seq(Word)
        /\ Len(SubSeq(words, cut + 1, Len(words))) = IF cut + 1 <= Len(words) THEN Len(words) - (cut + 1) + 1 ELSE 0
    BY ONLY <2>1, SubSeqProperties
  <2>3. cut + 1 <= Len(words) /\ Len(words) - (cut + 1) + 1 = p + q - cut
    BY <1>2, <1>3
  <2> QED
    BY <1>5, <2>2, <2>3 DEF Line
<1>8. U # <<>> /\ L # <<>> /\ Len(U) <= MaxWordsPerLine
  <2>1. Len(U) # 0 /\ Len(L) # 0 /\ Len(U) <= MaxWordsPerLine
    BY <1>2, <1>6, <1>7, CaptionsAssumption
  <2> QED
    BY <2>1, EmptySeq
<1>9. U \o L = words
  <2>1. 1 \in 1..(Len(words) + 1) /\ cut \in 1 - 1..Len(words) /\ Len(words) \in cut..Len(words)
    BY <1>2, <1>3
  <2>2. SubSeq(words, 1, cut) \o SubSeq(words, cut + 1, Len(words)) = SubSeq(words, 1, Len(words))
    BY <1>3, <2>1, ConcatAdjacentSubSeq
  <2> QED
    BY <1>3, <1>5, <2>2, SubSeqFull
<1>10. CASE cut = p
  <2>1. U = previous
    <3>1. 1 \in 1..Len(previous) /\ cut \in 1..Len(previous)
      BY <1>2, <1>10
    <3>2. SubSeq(previous \o last, 1, cut) = SubSeq(previous, 1, cut)
      BY <1>1, <3>1, SubSeqOfConcat1
    <3> QED
      BY <1>1, <1>2, <1>5, <1>10, <3>2, SubSeqFull
  <2>2. L = last
    <3>1. PICK a, b : a = p + 1 /\ b = p + q
      OBVIOUS
    <3>2. /\ a \in (Len(previous) + 1)..(Len(previous) + Len(last))
          /\ b \in (Len(previous) + 1)..(Len(previous) + Len(last))
      BY <1>2, <3>1
    <3>3. SubSeq(previous \o last, a, b) = SubSeq(last, a - Len(previous), b - Len(previous))
      BY <1>1, <3>2, SubSeqOfConcat2
    <3>4. a - Len(previous) = 1 /\ b - Len(previous) = Len(last)
      BY <1>2, <3>1
    <3>5. L = SubSeq(previous \o last, a, b)
      BY <1>2, <1>3, <1>5, <1>10, <3>1
    <3> QED
      BY <1>1, <3>3, <3>4, <3>5, SubSeqFull
  <2> QED
    BY <1>5, <1>9, <2>1, <2>2
<1>11. CASE cut # p
  <2>1. Tail(L) = SubSeq(words, cut + 2, Len(words))
    <3>1. Tail(SubSeq(words, cut + 1, Len(words))) = SubSeq(words, cut + 1 + 1, Len(words))
      BY <1>3, <1>4, HeadTailOfSubSeq
    <3>2. cut + 1 + 1 = cut + 2
      BY <1>2
    <3> QED
      BY <1>5, <3>1, <3>2
  <2>2. Chars(Tail(L)) < ShortLine /\ Chars(U) <= MaxCharsPerLine /\ Chars(L) <= MaxCharsPerLine
    BY <1>2, <1>5, <1>11, <2>1 DEF Cut
  <2> QED
    BY <1>5, <1>6, <1>7, <1>8, <1>9, <2>2 DEF Fine, Spare
<1> QED
  BY <1>10, <1>11

(* Moving words down leaves the lines fit, and the words as they were.     *)
LEMMA RebalancedParts ==
  ASSUME NEW chunks \in Seq(Fine), ~(Len(chunks) < 2)
  PROVE  \E up \in Seq(Fine), previous \in Fine, last \in Fine, U \in Fine, L \in Fine \cup Spare :
           /\ chunks = Append(Append(up, previous), last) /\ U \o L = previous \o last
           /\ Rebalanced(chunks) = up \o <<U, L>>
<1>1. PICK front, last : front = Front(chunks) /\ last = Last(chunks)
  OBVIOUS
<1>2. front \in Seq(Fine) /\ front # <<>> /\ last \in Fine /\ chunks = Append(front, last)
  <2>1. Len(chunks) \in Nat /\ chunks # <<>>
    BY LenProperties, EmptySeq
  <2>2. front \in Seq(Fine) /\ last \in Fine /\ Len(front) = Len(chunks) - 1 /\ chunks = Append(front, last)
    BY <1>1, <2>1, EndsOf
  <2>3. Len(front) # 0
    BY <2>1, <2>2
  <2> QED
    BY <2>2, <2>3, EmptySeq
<1>3. PICK up, previous : up = Front(front) /\ previous = Last(front)
  OBVIOUS
<1>4. up \in Seq(Fine) /\ previous \in Fine /\ front = Append(up, previous)
  BY <1>2, <1>3, EndsOf
<1>5. PICK words : words = previous \o last
  OBVIOUS
<1> DEFINE Upper(k) == SubSeq(words, 1, k)
           Lower(k) == SubSeq(words, k + 1, Len(words))
           TooWide(k) == Chars(Upper(k)) > MaxCharsPerLine \/ Chars(Lower(k)) > MaxCharsPerLine
           Stays(k) == k = 1 \/ Chars(Lower(k)) >= ShortLine \/ TooWide(k - 1)
           C == {k \in DOMAIN previous : Stays(k)}
           cut == Max(C)
<1>6. Rebalanced(chunks) = up \o <<Upper(cut), Lower(cut)>>
  BY <1>1, <1>3, <1>5 DEF Rebalanced
<1>7. PICK p \in Nat \ {0} : p = Len(previous) /\ DOMAIN previous = 1..p
  <2>1. previous \in Seq(Word) /\ previous # <<>>
    BY <1>4 DEF Fine, Line
  <2> QED
    BY <2>1, EmptySeq, LenProperties
<1>8. words \in Seq(Word) /\ Len(words) \in Nat
  <2>1. previous \in Seq(Word) /\ last \in Seq(Word)
    BY <1>2, <1>4 DEF Fine, Line
  <2> QED
    BY <1>5, <2>1, ConcatProperties, LenProperties
<1>9. C \subseteq 1..p /\ 1 \in C
  BY <1>7
<1>10. cut \in 1..p /\ \A k \in 1..p : k > cut => k \notin C
  <2> HIDE DEF C
  <2> QED
    BY <1>7, <1>9, LastPlace
<1>11. PICK c \in 1..p : c = cut
  BY <1>10
<1>12. Cut(previous, last, words, c)
  <2> SUFFICES ASSUME c # p
               PROVE  /\ Chars(SubSeq(words, c + 2, Len(words))) < ShortLine
                      /\ Chars(SubSeq(words, 1, c)) <= MaxCharsPerLine
                      /\ Chars(SubSeq(words, c + 1, Len(words))) <= MaxCharsPerLine
    BY <1>5, <1>7 DEF Cut
  <2>1. c + 1 \in 1..p /\ c + 1 > c /\ c + 1 # 1 /\ (c + 1) - 1 = c /\ c + 1 + 1 = c + 2
    BY <1>7
  <2>2. ~Stays(c + 1)
    BY <1>7, <1>10, <1>11, <2>1
  <2>3. /\ ~(Chars(Lower(c + 1)) >= ShortLine)
        /\ ~(Chars(Upper(c)) > MaxCharsPerLine) /\ ~(Chars(Lower(c)) > MaxCharsPerLine)
    BY <2>1, <2>2
  <2>4. Upper(c) \in Line /\ Lower(c) \in Line /\ Lower(c + 1) \in Line
    <3>1. \A i \in 1..Len(words) : words[i] \in Word
      BY <1>8, ElementsOfSequence
    <3> SUFFICES ASSUME NEW a \in Int, NEW b \in Int, 1 <= a, b <= Len(words)
                 PROVE  SubSeq(words, a, b) \in Line
      <4>1. 1 \in Int /\ c \in Int /\ c + 1 \in Int /\ c + 1 + 1 \in Int /\ Len(words) \in Int
        BY <1>8
      <4>2. 1 <= 1 /\ 1 <= c + 1 /\ 1 <= c + 1 + 1 /\ c <= Len(words) /\ Len(words) <= Len(words)
        <5>1. Len(words) = p + Len(last) /\ Len(last) \in Nat
          <6>1. previous \in Seq(Word) /\ last \in Seq(Word)
            BY <1>2, <1>4 DEF Fine, Line
          <6> QED
            BY <1>5, <1>7, <6>1, ConcatProperties, LenProperties
        <5> QED
          BY <1>7, <5>1
      <4> QED
        BY <4>1, <4>2
    <3>2. \A i \in a..b : words[i] \in Word
      BY <1>8, <3>1
    <3> QED
      BY <3>2, SubSeqProperties DEF Line
  <2>5. Chars(Upper(c)) \in Int /\ Chars(Lower(c)) \in Int /\ Chars(Lower(c + 1)) \in Int /\ MaxCharsPerLine \in Int
    <3> HIDE DEF Upper, Lower
    <3> QED
      BY <2>4, CharsTyped, CaptionsAssumption
  <2>6. ShortLine \in Int
    <3>1. MaxCharsPerLine \div 2 \in Int
      BY CaptionsAssumption
    <3> QED
      BY <3>1, MaxMin DEF ShortLine
  <2>7. Chars(Lower(c + 1)) < ShortLine /\ Chars(Upper(c)) <= MaxCharsPerLine /\ Chars(Lower(c)) <= MaxCharsPerLine
    <3> HIDE DEF Upper, Lower
    <3> QED
      BY <2>3, <2>5, <2>6
  <2> QED
    BY <2>1, <2>7
<1>13. PICK U, L : U = SubSeq(words, 1, c) /\ L = SubSeq(words, c + 1, Len(words))
  OBVIOUS
<1>14. U \in Fine /\ L \in Fine \cup Spare /\ U \o L = words
  <2> HIDE DEF cut, C
  <2>1. /\ SubSeq(words, 1, c) \in Fine
        /\ SubSeq(words, c + 1, Len(words)) \in Fine \cup Spare
        /\ SubSeq(words, 1, c) \o SubSeq(words, c + 1, Len(words)) = words
    BY <1>2, <1>4, <1>12, CutsFit
  <2> QED
    BY <1>13, <2>1
<1>15. Rebalanced(chunks) = up \o <<U, L>>
  BY <1>6, <1>11, <1>13
<1> HIDE DEF cut, C
<1> QED
  BY <1>2, <1>4, <1>5, <1>14, <1>15

(* Moving words down leaves a caption whose lines fit.                     *)
LEMMA RebalancedFits ==
  ASSUME NEW chunks \in Seq(Fine)
  PROVE  Rebalanced(chunks) \in Laid
<1>1. CASE Len(chunks) < 2
  <2>1. Rebalanced(chunks) = chunks
    BY <1>1 DEF Rebalanced
  <2> QED
    BY <2>1, FineIsLaid
<1>2. CASE ~(Len(chunks) < 2)
  <2>1. PICK up \in Seq(Fine), U \in Fine, L \in Fine \cup Spare : Rebalanced(chunks) = up \o <<U, L>>
    BY <1>2, RebalancedParts
  <2>2. PICK t : t = <<U, L>>
    OBVIOUS
  <2>3. U \in Line /\ L \in Line /\ Fine \subseteq Line
    BY DEF Fine, Spare
  <2>4. t \in Seq(Line) /\ Len(t) = 2 /\ t[1] = U /\ t[2] = L
    BY <2>2, <2>3
  <2>5. PICK m \in Nat : m = Len(up) /\ \A i \in 1..m : up[i] \in Fine
    BY ElementsOfSequence
  <2>6. up \in Seq(Line)
    BY <2>3, SeqMonotonic
  <2>7. PICK r \in Seq(Line) : /\ r = up \o t /\ Len(r) = m + 2
                               /\ \A i \in 1..(m + 2) : r[i] = IF i <= m THEN up[i] ELSE t[i - m]
    <3>1. PICK r : r = up \o t
      OBVIOUS
    <3>2. /\ r \in Seq(Line) /\ Len(r) = Len(up) + Len(t)
          /\ \A i \in 1..(Len(up) + Len(t)) : r[i] = IF i <= Len(up) THEN up[i] ELSE t[i - Len(up)]
      BY <2>4, <2>6, <3>1, ConcatProperties
    <3>3. Len(up) = m /\ Len(t) = 2
      BY <2>4, <2>5
    <3> QED
      BY <3>1, <3>2, <3>3
  <2>8. ASSUME NEW k \in 1..Len(r)
        PROVE  r[k] \in Fine \/ (k = Len(r) /\ r[k] \in Spare)
    <3>1. k \in 1..(m + 2)
      BY <2>7
    <3>2. CASE k <= m
      <4>1. k \in 1..m
        BY <3>1, <3>2
      <4> QED
        BY <2>5, <2>7, <3>1, <3>2, <4>1
    <3>3. CASE k = m + 1
      <4>1. ~(k <= m) /\ k - m = 1
        BY <2>5, <3>3
      <4> QED
        BY <2>4, <2>7, <3>1, <4>1
    <3>4. CASE k = m + 2
      <4>1. ~(k <= m) /\ k - m = 2
        BY <2>5, <3>4
      <4> QED
        BY <2>4, <2>7, <3>1, <3>4, <4>1
    <3> QED
      BY <2>5, <3>1, <3>2, <3>3, <3>4
  <2> QED
    BY <2>1, <2>2, <2>7, <2>8 DEF Laid
<1> QED
  BY <1>1, <1>2

(* The pages of a caption file: as many lines as fit, and the rest.        *)
Page == {s \in Laid : Len(s) \in 1..MaxLines}
Pages(n) == (n + MaxLines - 1) \div MaxLines
LEMMA PageEnds ==
  ASSUME NEW n \in Nat
  PROVE  /\ Pages(n) \in Nat /\ (n > 0 => Pages(n) * MaxLines >= n) /\ (n = 0 => Pages(n) = 0)
         /\ \A i \in 1..Pages(n) : /\ (i - 1) * MaxLines \in Nat /\ (i - 1) * MaxLines < n
                                   /\ i * MaxLines = (i - 1) * MaxLines + MaxLines
<1>1. PICK m \in Nat \ {0} : m = MaxLines
  BY CaptionsAssumption
<1>2. PICK q : q = (n + m - 1) \div m
  OBVIOUS
<1>3. q \in Nat
  BY <1>2
<1>4. q * m <= n + m - 1 /\ n + m - 1 < q * m + m
  BY <1>2, <1>3
<1>5. Pages(n) = q
  BY <1>1, <1>2 DEF Pages
<1>6. ASSUME NEW i \in 1..q
      PROVE  /\ (i - 1) * m \in Nat /\ (i - 1) * m < n /\ i * m = (i - 1) * m + m
  <2>1. i * m = (i - 1) * m + m
    OBVIOUS
  <2>2. i * m <= q * m
    BY <1>3
  <2>3. (i - 1) * m \in Nat
    OBVIOUS
  <2>4. i * m \in Nat /\ q * m \in Nat
    BY <1>3
  <2>5. PICK a \in Nat, b \in Nat, e \in Nat : a = i * m /\ b = q * m /\ e = (i - 1) * m
    BY <2>3, <2>4
  <2>6. e < n
    BY <1>4, <2>1, <2>2, <2>5
  <2> QED
    BY <2>1, <2>3, <2>5, <2>6
<1>7. q * m >= n
  <2>1. PICK b \in Nat : b = q * m
    BY <1>3
  <2> QED
    BY <1>4, <2>1
<1>8. n = 0 => q = 0
  <2>1. ASSUME n = 0, q # 0
        PROVE  FALSE
    <3>1. 1 \in 1..q
      BY <1>3, <2>1
    <3>2. (1 - 1) * m < n
      BY <1>6, <3>1
    <3> QED
      BY <2>1, <3>2
  <2> QED
    BY <2>1
<1> QED
  BY <1>1, <1>3, <1>5, <1>6, <1>7, <1>8

(* A page has the lines from its first place on.                           *)
LEMMA PagesAre ==
  ASSUME NEW lines \in Laid
  PROVE  LET n == Len(lines) IN
         /\ n \in Nat /\ Paged(lines) \in Seq(Page) /\ Len(Paged(lines)) = Pages(n)
         /\ \A i \in 1..Pages(n) : Paged(lines)[i] = SubSeq(lines, (i - 1) * MaxLines + 1, Min({i * MaxLines, n}))
<1>1. PICK n \in Nat : n = Len(lines) /\ lines \in Seq(Line) /\ \A k \in 1..n : lines[k] \in Line
  <2>1. lines \in Seq(Line)
    BY DEF Laid
  <2> QED
    BY <2>1, ElementsOfSequence
<1>2. PICK m \in Nat \ {0} : m = MaxLines
  BY CaptionsAssumption
<1>3. PICK q \in Nat : q = Pages(n)
  BY PageEnds
<1> DEFINE Sheet(i) == SubSeq(lines, (i - 1) * MaxLines + 1, Min({i * MaxLines, n}))
<1>4. ASSUME NEW i \in 1..q
      PROVE  Sheet(i) \in Page
  <2>1. PICK e \in Nat : e = (i - 1) * MaxLines /\ e < n /\ i * MaxLines = e + m
    BY <1>2, <1>3, <1>4, PageEnds
  <2>2. PICK z \in Nat : z = Min({i * MaxLines, n}) /\ z = (IF e + m <= n THEN e + m ELSE n)
    <3>1. e + m \in Int /\ n \in Int
      OBVIOUS
    <3>2. Min({e + m, n}) = IF e + m <= n THEN e + m ELSE n
      BY <3>1, MaxMin
    <3> QED
      BY <2>1, <3>2
  <2>3. PICK s : s = SubSeq(lines, e + 1, z)
    OBVIOUS
  <2>4. z - (e + 1) + 1 = z - e /\ e + 1 <= z /\ z <= n /\ z - e \in 1..m
    BY <2>1, <2>2
  <2>5. /\ s \in Seq(Line) /\ Len(s) = z - e
        /\ \A k \in 1..(z - e) : s[k] = lines[e + k]
    <3>1. e + 1 \in Int /\ z \in Int /\ \A k \in (e + 1)..z : lines[k] \in Line
      <4>1. \A k \in (e + 1)..z : k \in 1..n
        BY <2>4
      <4> QED
        BY <1>1, <4>1
    <3>2. PICK f : f = e + 1
      OBVIOUS
    <3>3. f \in Int /\ z \in Int /\ \A k \in f..z : lines[k] \in Line
      BY <3>1, <3>2
    <3>4. /\ SubSeq(lines, f, z) \in Seq(Line)
          /\ Len(SubSeq(lines, f, z)) = IF f <= z THEN z - f + 1 ELSE 0
          /\ \A k \in 1..(z - f + 1) : SubSeq(lines, f, z)[k] = lines[f + k - 1]
      BY <3>3, SubSeqProperties
    <3>5. f <= z /\ z - f + 1 = z - e /\ \A k \in 1..(z - e) : f + k - 1 = e + k
      BY <2>4, <3>2
    <3> QED
      BY <2>3, <3>2, <3>4, <3>5
  <2>6. ASSUME NEW k \in 1..Len(s)
        PROVE  s[k] \in Fine \/ (k = Len(s) /\ s[k] \in Spare)
    <3>1. k \in 1..(z - e) /\ e + k \in 1..n
      BY <2>4, <2>5
    <3>2. s[k] = lines[e + k]
      BY <2>5, <3>1
    <3>3. lines[e + k] \in Fine \/ (e + k = n /\ lines[e + k] \in Spare)
      BY <1>1, <3>1 DEF Laid
    <3>4. e + k = n => k = z - e
      BY <2>4, <3>1
    <3> QED
      BY <2>5, <3>2, <3>3, <3>4
  <2>7. s \in Page
    BY <1>2, <2>4, <2>5, <2>6 DEF Page, Laid
  <2> QED
    BY <2>1, <2>2, <2>3, <2>7
<1>5. Paged(lines) = [i \in 1..q |-> Sheet(i)]
  BY <1>1, <1>3 DEF Paged, Pages
<1> HIDE DEF Sheet
<1>6. [i \in 1..q |-> Sheet(i)] \in Seq(Page) /\ Len([i \in 1..q |-> Sheet(i)]) = q
  <2>1. PICK f : f = [i \in 1..q |-> Sheet(i)]
    OBVIOUS
  <2>2. f \in [1..q -> Page]
    BY <1>4, <2>1
  <2> QED
    BY <2>1, <2>2
<1>7. \A i \in 1..q : Paged(lines)[i] = Sheet(i)
  BY <1>5
<1> QED
  BY <1>1, <1>3, <1>5, <1>6, <1>7 DEF Sheet

(* What is flushed are pages that fit.                                     *)
LEMMA FlushedFits ==
  ASSUME NEW words \in Line
  PROVE  Chunked(words) \in Seq(Fine) /\ Flushed(words) \in Seq(Page)
<1>1. PICK c : ChunksOf(words, c) /\ Chunked(words) = c[Len(words)]
  BY ChunksAre
<1>2. Len(words) \in 0..Len(words)
  BY LenProperties DEF Line
<1>3. PICK s \in Seq(Fine) : s = Chunked(words)
  BY <1>1, <1>2 DEF ChunksOf
<1>4. PICK t \in Laid : t = Rebalanced(s)
  BY RebalancedFits
<1> QED
  BY <1>3, <1>4, PagesAre DEF Flushed

(* What is written of a segment so far: the captions, and the words that   *)
(* are left.                                                               *)
Writing == [words : Line, captions : Seq(Page)]
LEMMA PhraseAdded ==
  ASSUME NEW acc \in Writing, NEW part \in Line
  PROVE  AddPhrase(acc, part) \in Writing
<1>1. PICK w \in Line, s \in Seq(Page) : w = acc.words /\ s = acc.captions /\ acc = [words |-> w, captions |-> s]
  BY DEF Writing
<1>2. PICK t \in Seq(Page) : t = Flushed(w)
  BY FlushedFits
<1>3. PICK u \in Seq(Page), v \in Line : u = s \o t /\ v = w \o part
  BY ConcatProperties DEF Line
<1>4. AddPhrase(acc, part) \in {[words |-> part, captions |-> u], [words |-> v, captions |-> s]}
  BY <1>1, <1>2, <1>3 DEF AddPhrase
<1>5. [words |-> part, captions |-> u] \in Writing /\ [words |-> v, captions |-> s] \in Writing
  BY DEF Writing
<1> QED
  BY <1>4, <1>5

(* Split is defined: it adds the phrases one by one.                       *)
SplitOf(text, c) ==
  /\ c \in [0..Len(Phrases(text)) -> Writing] /\ c[0] = Nothing
  /\ \A k \in 1..Len(Phrases(text)) : c[k] = AddPhrase(c[k - 1], Phrases(text)[k])
LEMMA SplitIs ==
  ASSUME NEW text \in Line, Phrases(text) \in Seq(Line)
  PROVE  \E c : SplitOf(text, c) /\ Split(text) = c[Len(Phrases(text))].captions \o Flushed(c[Len(Phrases(text))].words)
<1>1. PICK n \in Nat : n = Len(Phrases(text)) /\ \A k \in 1..n : Phrases(text)[k] \in Line
  <2>1. Len(Phrases(text)) \in Nat /\ \A k \in 1..Len(Phrases(text)) : Phrases(text)[k] \in Line
    BY ElementsOfSequence
  <2> QED
    BY <2>1
<1> DEFINE S == Writing
           h == [k \in 1..n |-> [s \in S |-> AddPhrase(s, Phrases(text)[k])]]
           D(g) == [k \in 0..n |-> IF k = 0 THEN Nothing ELSE AddPhrase(g[k - 1], Phrases(text)[k])]
           c == CHOOSE g : g = D(g)
<1>2. PICK f : Follows(f, n, S, Nothing, h)
  <2>1. Nothing \in S
    BY EmptySeq DEF Nothing, Writing, Line
  <2>2. \A k \in 1..n, s \in S : AddPhrase(s, Phrases(text)[k]) \in S
    BY <1>1, PhraseAdded
  <2> HIDE DEF S
  <2>3. h \in Rules(n, S)
    BY <2>2 DEF Rules
  <2> HIDE DEF h
  <2> QED
    BY <2>1, <2>3, Recursion
<1> HIDE DEF S
<1>3. /\ f \in [0..n -> S] /\ f[0] = Nothing
      /\ \A k \in 1..n : f[k - 1] \in S /\ f[k] = AddPhrase(f[k - 1], Phrases(text)[k])
  <2>1. f \in [0..n -> S] /\ f[0] = Nothing /\ \A k \in 1..n : f[k] = h[k][f[k - 1]]
    BY <1>2 DEF Follows
  <2>2. \A k \in 1..n : k - 1 \in 0..n
    OBVIOUS
  <2> QED
    BY <2>1, <2>2
<1>4. f = D(f)
  <2>1. \A k \in 0..n : f[k] = IF k = 0 THEN Nothing ELSE AddPhrase(f[k - 1], Phrases(text)[k])
    BY <1>3
  <2> QED
    BY <1>3, <2>1
<1>5. c = D(c)
  <2> HIDE DEF D
  <2> QED
    BY <1>4
<1>6. Split(text) = c[n].captions \o Flushed(c[n].words)
  BY <1>1 DEF Split
<1> HIDE DEF c
<1>7. /\ c = [k \in 0..n |-> c[k]] /\ c[0] = Nothing
      /\ \A k \in 1..n : c[k] = AddPhrase(c[k - 1], Phrases(text)[k])
  <2>1. \A k \in 0..n : c[k] = IF k = 0 THEN Nothing ELSE AddPhrase(c[k - 1], Phrases(text)[k])
    BY <1>5
  <2>2. 0 \in 0..n /\ \A k \in 1..n : k \in 0..n /\ k # 0
    OBVIOUS
  <2>3. c = [k \in 0..n |-> c[k]]
    BY <1>5
  <2> QED
    BY <2>1, <2>2, <2>3
<1>8. c = f
  <2>1. c[0] = f[0] /\ Counts(c, n) /\ Counts(f, n)
    BY <1>3, <1>7 DEF Counts
  <2>2. \A k \in 1..n : c[k - 1] = f[k - 1] => c[k] = f[k]
    BY <1>3, <1>7
  <2> QED
    BY <2>1, <2>2, Counted
<1> QED
  BY <1>1, <1>3, <1>6, <1>8 DEF SplitOf, S

(* A text is split into phrases, and into captions that fit.               *)
LEMMA SplitFits ==
  ASSUME NEW text \in Line
  PROVE  Phrases(text) \in Seq(Line) /\ Split(text) \in Seq(Page)
<1>1. Phrases(text) \in Seq(Line)
  <2>1. PICK c : PhrasesOf(text, c) /\ Phrases(text) = c[Len(text)]
    BY PhrasesAre
  <2>2. Len(text) \in 0..Len(text)
    BY LenProperties DEF Line
  <2> QED
    BY <2>1, <2>2 DEF PhrasesOf
<1>2. PICK parts \in Seq(Line) : parts = Phrases(text)
  BY <1>1
<1>3. PICK n \in Nat : n = Len(parts)
  BY LenProperties
<1>4. PICK c : SplitOf(text, c) /\ Split(text) = c[n].captions \o Flushed(c[n].words)
  BY <1>1, <1>2, <1>3, SplitIs
<1>5. PICK acc \in Writing : acc = c[n]
  BY <1>2, <1>3, <1>4 DEF SplitOf
<1>6. acc.words \in Line /\ acc.captions \in Seq(Page)
  BY DEF Writing
<1>7. PICK t \in Seq(Page) : t = Flushed(acc.words)
  BY <1>6, FlushedFits
<1>8. acc.captions \o t \in Seq(Page)
  BY <1>6, ConcatProperties
<1> QED
  BY <1>1, <1>4, <1>5, <1>7, <1>8

(* What the variables hold.                                                *)
Texted == [start : Int, end : Int, text : Line]
CaptionsTyped ==
  /\ captioning \in {"parse", "select", "write", "written", "refused"} /\ script \in Scripts
  /\ segments \in Seq(Cue) /\ unwritten \in Seq(Texted)
  /\ dialogues \in Seq(Elements(dialogues)) /\ \A d \in Elements(dialogues) : d.lines \in Page

(* What is chosen of a sequence are elements of it.                        *)
LEMMA ChosenTyped ==
  ASSUME NEW T, NEW t \in Seq(T), NEW places
  PROVE  Chosen(t, places) \in Seq(T)
<1>1. PICK c : ChosenOf(t, places, T, c) /\ Chosen(t, places) = c[Len(t)]
  BY ChosenAre
<1>2. Len(t) \in 0..Len(t)
  BY LenProperties
<1> QED
  BY <1>1, <1>2 DEF ChosenOf

(* Merged cues are cues.                                                   *)
LEMMA MergedTyped ==
  ASSUME NEW cues \in Seq(Cue)
  PROVE  MergedCues(cues) \in Seq(Cue)
<1>1. PICK c : MergedOf(cues, c) /\ MergedCues(cues) = c[Len(cues)]
  BY MergedAre
<1>2. Len(cues) \in 0..Len(cues)
  BY LenProperties
<1> QED
  BY <1>1, <1>2 DEF MergedOf

(* The segments of a clip have the texts of those that are shown in it.    *)
ShownOf(segs, from, to) == Chosen(segs, {i \in DOMAIN segs : Shown(segs[i], from, to)})
LEMMA SelectedTyped ==
  ASSUME NEW segs \in Seq(Cue), NEW from \in Nat, NEW to \in Nat
  PROVE  /\ ShownOf(segs, from, to) \in Seq(Cue) /\ Selected(segs, from, to) \in Seq(Texted)
         /\ Len(Selected(segs, from, to)) = Len(ShownOf(segs, from, to))
         /\ \A i \in 1..Len(ShownOf(segs, from, to)) :
              Selected(segs, from, to)[i].text = ShownOf(segs, from, to)[i].text
<1>1. PICK shown \in Seq(Cue) : shown = ShownOf(segs, from, to)
  BY ChosenTyped DEF ShownOf
<1>2. PICK n \in Nat : n = Len(shown) /\ DOMAIN shown = 1..n /\ \A i \in 1..n : shown[i] \in Cue
  BY <1>1, ElementsOfSequence
<1>3. ASSUME NEW seg \in Cue
      PROVE  Local(seg, from, to) \in Texted /\ Local(seg, from, to).text = seg.text
  <2>1. seg.start \in Int /\ seg.end \in Int /\ from \in Int /\ to \in Int /\ seg.text \in Line
    BY DEF Cue, Line
  <2>2. PICK a \in Int, b \in Int : a = Max({seg.start, from}) - from /\ b = Min({seg.end, to}) - from
    <3>1. Max({seg.start, from}) = (IF seg.start >= from THEN seg.start ELSE from)
      BY <2>1, MaxMin
    <3>2. Min({seg.end, to}) = (IF seg.end <= to THEN seg.end ELSE to)
      BY <2>1, MaxMin
    <3> QED
      BY <2>1, <3>1, <3>2
  <2>3. Local(seg, from, to) = [seg EXCEPT !.start = a, !.end = b]
    BY <2>2 DEF Local
  <2>4. Local(seg, from, to) = [start |-> a, end |-> b, text |-> seg.text]
    BY <2>3 DEF Cue
  <2> QED
    BY <2>1, <2>4 DEF Texted
<1>4. PICK s : s = Selected(segs, from, to)
  OBVIOUS
<1>5. s = [i \in 1..n |-> Local(shown[i], from, to)]
  BY <1>1, <1>2, <1>4 DEF Selected, ShownOf
<1>6. s \in [1..n -> Texted] /\ \A i \in 1..n : s[i].text = shown[i].text
  BY <1>2, <1>3, <1>5
<1>7. s \in Seq(Texted) /\ Len(s) = n
  BY <1>6
<1> QED
  BY <1>1, <1>2, <1>4, <1>6, <1>7

(* The captions of a segment are written one by one.                       *)
LEMMA DialoguesAre ==
  ASSUME NEW seg \in Texted
  PROVE  LET d == Dialogues(seg) IN
         /\ Split(seg.text) \in Seq(Page) /\ d \in Seq(Elements(d)) /\ Len(d) = Len(Split(seg.text))
         /\ \A i \in 1..Len(d) : d[i].lines = Split(seg.text)[i]
         /\ \A e \in Elements(d) : e.lines \in Page
<1>1. seg.text \in Line
  BY DEF Texted
<1>2. PICK captions \in Seq(Page) : captions = Split(seg.text)
  BY <1>1, SplitFits
<1>3. PICK n \in Nat : n = Len(captions) /\ \A i \in 1..n : captions[i] \in Page
  BY ElementsOfSequence
<1>4. PICK d : d = Dialogues(seg)
  OBVIOUS
<1>5. DOMAIN d = 1..n /\ d = [i \in 1..n |-> d[i]] /\ \A i \in 1..n : d[i].lines = captions[i]
  BY <1>2, <1>3, <1>4 DEF Dialogues
<1>6. \A i \in 1..n : d[i] \in Elements(d)
  BY <1>5 DEF Elements
<1>7. d \in [1..n -> Elements(d)]
  BY <1>5, <1>6
<1>8. d \in Seq(Elements(d)) /\ Len(d) = n
  BY <1>7
<1>9. \A e \in Elements(d) : e.lines \in Page
  BY <1>3, <1>5 DEF Elements
<1> QED
  BY <1>2, <1>3, <1>4, <1>5, <1>8, <1>9

(* Two sequences are joined to one of the elements of both.                *)
LEMMA JoinedTyped ==
  ASSUME NEW s, NEW t, s \in Seq(Elements(s)), t \in Seq(Elements(t))
  PROVE  s \o t \in Seq(Elements(s \o t)) /\ Elements(s \o t) = Elements(s) \cup Elements(t)
<1>1. PICK T : T = Elements(s) \cup Elements(t)
  OBVIOUS
<1>2. s \in Seq(T) /\ t \in Seq(T)
  BY <1>1, SeqMonotonic
<1>3. PICK u \in Seq(T) : u = s \o t
  BY <1>2, ConcatProperties
<1>4. Elements(u) = T
  BY <1>1, <1>2, <1>3, ElementsJoined
<1> QED
  BY <1>1, <1>3, <1>4

(* The variables are typed at first.                                       *)
LEMMA CaptionsTypedInitially ==
  ASSUME CaptionInit
  PROVE  CaptionsTyped
<1>1. <<>> \in Seq(Cue) /\ <<>> \in Seq(Texted) /\ <<>> \in Seq(Elements(<<>>)) /\ Elements(<<>>) = {}
  BY EmptySeq DEF Elements
<1> QED
  BY <1>1 DEF CaptionInit, CaptionsTyped

(* What a script holds.                                                    *)
LEMMA ScriptsTyped ==
  ASSUME NEW s \in Scripts
  PROVE  s.cues \in Seq(Cue) /\ s.from \in Nat /\ s.to \in Nat
  BY CaptionsAssumption

(* Every step keeps them typed.                                            *)
LEMMA CaptionsStayTyped ==
  ASSUME CaptionsTyped, [CaptionNext]_captionVars
  PROVE  CaptionsTyped'
<1>1. PICK s \in Scripts : s = script /\ s.cues \in Seq(Cue) /\ s.from \in Nat /\ s.to \in Nat
  BY ScriptsTyped DEF CaptionsTyped
<1>2. CASE Parse
  <2>1. PICK cues \in Seq(Cue) : cues = Worded(s.cues)
    BY <1>1, ChosenTyped DEF Worded
  <2>2. PICK merged \in Seq(Cue) : merged = MergedCues(cues)
    BY MergedTyped
  <2>3. segments' \in {merged, cues, s.cues}
    BY <1>1, <1>2, <2>1, <2>2 DEF Parse
  <2>4. captioning' \in {"refused", "select"} /\ UNCHANGED <<script, unwritten, dialogues>>
    BY <1>2 DEF Parse
  <2> QED
    BY <1>1, <2>3, <2>4 DEF CaptionsTyped, Elements
<1>3. CASE Select
  <2>1. PICK segs \in Seq(Cue) : segs = segments
    BY DEF CaptionsTyped
  <2>2. Selected(segs, s.from, s.to) \in Seq(Texted)
    BY <1>1, SelectedTyped
  <2> QED
    BY <1>1, <1>3, <2>1, <2>2 DEF Select, CaptionsTyped, Elements
<1>4. CASE WriteSegment
  <2>1. unwritten # <<>> /\ unwritten \in Seq(Texted)
    BY <1>4 DEF WriteSegment, CaptionsTyped
  <2>2. PICK seg \in Texted, rest \in Seq(Texted) : seg = Head(unwritten) /\ rest = Tail(unwritten)
    BY <2>1, HeadTailProperties
  <2>3. PICK d : d = Dialogues(seg) /\ d \in Seq(Elements(d)) /\ \A e \in Elements(d) : e.lines \in Page
    BY DialoguesAre
  <2>4. PICK s0 : s0 = dialogues /\ s0 \in Seq(Elements(s0)) /\ \A e \in Elements(s0) : e.lines \in Page
    BY DEF CaptionsTyped
  <2>5. PICK s1 : s1 = s0 \o d /\ s1 \in Seq(Elements(s1)) /\ Elements(s1) = Elements(s0) \cup Elements(d)
    BY <2>3, <2>4, JoinedTyped
  <2>6. dialogues' = s1 /\ unwritten' = rest /\ UNCHANGED <<captioning, script, segments>>
    BY <1>4, <2>2, <2>3, <2>4, <2>5 DEF WriteSegment
  <2>7. Elements(dialogues)' = Elements(s1)
    BY <2>6 DEF Elements
  <2> QED
    BY <2>2, <2>3, <2>4, <2>5, <2>6, <2>7 DEF CaptionsTyped
<1>5. CASE CloseFile
  BY <1>5 DEF CloseFile, CaptionsTyped, Elements
<1>6. CASE UNCHANGED captionVars
  BY <1>6 DEF captionVars, CaptionsTyped, Elements
<1> QED
  BY <1>2, <1>3, <1>4, <1>5, <1>6 DEF CaptionNext

(* A caption has no more lines than the preset allows, and a line no more  *)
(* characters, nor more words, but for the exceptions that LinesFit names, *)
(* whatever the text and the preset (subtitles.py 96-141).                 *)
THEOREM CaptionsFit == CaptionSpec => []LinesFit
<1>1. CaptionInit => CaptionsTyped
  BY CaptionsTypedInitially
<1>2. CaptionsTyped /\ [CaptionNext]_captionVars => CaptionsTyped'
  BY CaptionsStayTyped
<1>3. CaptionsTyped => LinesFit
  <2> SUFFICES ASSUME CaptionsTyped, NEW i \in DOMAIN dialogues, NEW lines, lines = dialogues[i].lines
               PROVE  /\ Len(lines) \in 1..MaxLines
                      /\ \A k \in DOMAIN lines :
                           /\ Len(lines[k]) = 1 \/ (lines[k] # <<>> /\ Chars(lines[k]) <= MaxCharsPerLine)
                           /\ \/ Len(lines[k]) <= MaxWordsPerLine
                              \/ k = Len(lines) /\ Chars(Tail(lines[k])) < ShortLine
    BY DEF LinesFit
  <2>1. lines \in Page
    BY DEF CaptionsTyped, Elements
  <2>2. /\ lines \in Seq(Line) /\ Len(lines) \in 1..MaxLines
        /\ \A k \in 1..Len(lines) : lines[k] \in Fine \/ (k = Len(lines) /\ lines[k] \in Spare)
    BY <2>1 DEF Page, Laid
  <2>3. DOMAIN lines = 1..Len(lines)
    BY <2>2, LenProperties
  <2> QED
    BY <2>2, <2>3 DEF Fine, Spare
<1> QED
  BY <1>1, <1>2, <1>3, PTL DEF CaptionSpec

(* FlattenSeq joins the parts of a sequence one by one.                    *)
PartsOf(ss, f, S) ==
  /\ f \in [0..Len(ss) -> Seq(S)] /\ f[0] = <<>>
  /\ \A k \in 1..Len(ss) : f[k] = f[k - 1] \o ss[k]
LEMMA JoinedParts ==
  ASSUME NEW S, NEW ss \in Seq(Seq(S))
  PROVE  \E f : PartsOf(ss, f, S) /\ FlattenSeq(ss) = f[Len(ss)]
<1>1. PICK n \in Nat : n = Len(ss) /\ \A k \in 1..n : ss[k] \in Seq(S)
  <2>1. Len(ss) \in Nat /\ \A k \in 1..Len(ss) : ss[k] \in Seq(S)
    BY ElementsOfSequence
  <2> QED
    BY <2>1
<1> DEFINE h == [k \in 1..n |-> [s \in Seq(S) |-> s \o ss[k]]]
           D(g) == [i \in 1..n |-> IF i = 1 THEN ss[i] ELSE g[i - 1] \o ss[i]]
           d == CHOOSE g : g = D(g)
<1>2. PICK f : Follows(f, n, Seq(S), <<>>, h)
  <2>1. \A s \in Seq(S), t \in Seq(S) : s \o t \in Seq(S)
    BY ConcatProperties
  <2>2. h \in Rules(n, Seq(S)) /\ <<>> \in Seq(S)
    BY <1>1, <2>1 DEF Rules
  <2> HIDE DEF h
  <2> QED
    BY <2>2, Recursion
<1>3. /\ f \in [0..n -> Seq(S)] /\ f[0] = <<>>
      /\ \A k \in 1..n : k - 1 \in 0..n /\ f[k - 1] \in Seq(S) /\ f[k] = f[k - 1] \o ss[k]
  <2>1. f \in [0..n -> Seq(S)] /\ f[0] = <<>> /\ \A k \in 1..n : f[k] = h[k][f[k - 1]]
    BY <1>2 DEF Follows
  <2>2. \A k \in 1..n : k - 1 \in 0..n /\ f[k - 1] \in Seq(S)
    BY <2>1
  <2> QED
    BY <2>1, <2>2
<1>4. PartsOf(ss, f, S)
  BY <1>1, <1>3 DEF PartsOf
<1>5. CASE n = 0
  <2>1. ss = <<>>
    BY <1>1, <1>5, EmptySeq
  <2>2. FlattenSeq(ss) = ss
    BY <1>1, <1>5 DEF FlattenSeq
  <2> QED
    BY <1>1, <1>3, <1>4, <1>5, <2>1, <2>2
<1>6. CASE n # 0
  <2>1. FlattenSeq(ss) = d[n]
    BY <1>1, <1>6 DEF FlattenSeq
  <2>2. f[1] = ss[1]
    <3>1. 1 \in 1..n /\ 1 - 1 = 0
      BY <1>6
    <3>2. PICK s \in Seq(S) : s = ss[1]
      BY <1>1, <3>1
    <3>3. f[1] = <<>> \o s
      BY <1>3, <3>1, <3>2
    <3> QED
      BY <3>2, <3>3, ConcatEmptySeq
  <2>3. \A i \in 1..n : f[i] = IF i = 1 THEN ss[i] ELSE f[i - 1] \o ss[i]
    BY <1>3, <2>2
  <2>4. \E g : g = D(g)
    <3> DEFINE g == [i \in 1..n |-> f[i]]
    <3>1. \A i \in 1..n : i # 1 => i - 1 \in 1..n
      OBVIOUS
    <3>2. \A i \in 1..n : g[i] = IF i = 1 THEN ss[i] ELSE g[i - 1] \o ss[i]
      BY <2>3, <3>1
    <3>3. g = D(g)
      BY <3>2
    <3> QED
      BY <3>3
  <2>5. d = D(d)
    <3> HIDE DEF D
    <3> QED
      BY <2>4
  <2>6. \A i \in 1..n : d[i] = IF i = 1 THEN ss[i] ELSE d[i - 1] \o ss[i]
    <3> HIDE DEF d
    <3> QED
      BY <2>5
  <2> HIDE DEF d
  <2> DEFINE P == {k \in 0..n : k = 0 \/ d[k] = f[k]}
  <2>7. ASSUME NEW k \in 1..n, k - 1 \in P
        PROVE  k \in P
    <3>1. k \in 0..n
      OBVIOUS
    <3>2. CASE k = 1
      <4>1. d[k] = ss[k] /\ f[k] = ss[k]
        BY <2>2, <2>6, <3>2
      <4> QED
        BY <3>1, <4>1
    <3>3. CASE k # 1
      <4>1. d[k - 1] = f[k - 1]
        BY <2>7, <3>3
      <4>2. d[k] = d[k - 1] \o ss[k] /\ f[k] = f[k - 1] \o ss[k]
        BY <2>3, <2>6, <3>3
      <4> QED
        BY <3>1, <4>1, <4>2
    <3> QED
      BY <3>2, <3>3
  <2>8. 0 \in P
    <3>1. 0 \in 0..n
      OBVIOUS
    <3> QED
      BY <3>1
  <2>9. \A k \in 0..n : k \in P
    <3> HIDE DEF P
    <3> QED
      BY <2>7, <2>8, CountUp
  <2>10. d[n] = f[n]
    <3>1. n \in P
      BY <2>9
    <3> QED
      BY <1>6, <3>1
  <2> QED
    BY <1>1, <1>4, <2>1, <2>10
<1> QED
  BY <1>5, <1>6

(* Sequences that begin alike are joined alike so far.                     *)
BeginAlike(ss, tt, m) ==
  m \in Nat /\ Len(ss) \in Nat /\ Len(tt) \in Nat /\ m <= Len(ss) /\ m <= Len(tt) /\ \A k \in 1..m : ss[k] = tt[k]
LEMMA PartsAgree ==
  ASSUME NEW S, NEW ss, NEW tt, NEW f, NEW g, NEW m,
         PartsOf(ss, f, S), PartsOf(tt, g, S), BeginAlike(ss, tt, m)
  PROVE  f[m] = g[m]
<1>1. m \in Nat /\ \A k \in 1..m : k \in 1..Len(ss) /\ k \in 1..Len(tt) /\ ss[k] = tt[k]
  BY DEF BeginAlike
<1>2. f[0] = g[0] /\ \A k \in 1..m : f[k] = f[k - 1] \o ss[k] /\ g[k] = g[k - 1] \o tt[k]
  BY <1>1 DEF PartsOf
<1> DEFINE P == {k \in 0..m : f[k] = g[k]}
<1>3. 0 \in P
  <2>1. 0 \in 0..m
    BY <1>1
  <2> QED
    BY <1>2, <2>1
<1>4. ASSUME NEW k \in 1..m, k - 1 \in P
      PROVE  k \in P
  <2>1. k \in 0..m
    BY <1>1
  <2>2. f[k - 1] = g[k - 1]
    BY <1>4
  <2> QED
    BY <1>1, <1>2, <2>1, <2>2
<1>5. m \in P
  <2> HIDE DEF P
  <2>1. \A k \in 0..m : k \in P
    BY <1>1, <1>3, <1>4, CountUp
  <2> QED
    BY <1>1, <2>1
<1> QED
  BY <1>5

(* What is joined is a sequence, and a part more is joined at its end.     *)
LEMMA JoinedMore ==
  ASSUME NEW S, NEW ss \in Seq(Seq(S))
  PROVE  /\ FlattenSeq(ss) \in Seq(S) /\ (ss = <<>> => FlattenSeq(ss) = <<>>)
         /\ \A e \in Seq(S) : FlattenSeq(Append(ss, e)) = FlattenSeq(ss) \o e
<1>1. PICK n \in Nat : n = Len(ss)
  BY LenProperties
<1>2. PICK f : PartsOf(ss, f, S) /\ FlattenSeq(ss) = f[n]
  BY <1>1, JoinedParts
<1>3. FlattenSeq(ss) \in Seq(S)
  BY <1>1, <1>2 DEF PartsOf
<1>4. ss = <<>> => FlattenSeq(ss) = <<>>
  <2>1. ss = <<>> => n = 0
    BY <1>1, EmptySeq
  <2> QED
    BY <1>2, <2>1 DEF PartsOf
<1>5. ASSUME NEW e \in Seq(S)
      PROVE  FlattenSeq(Append(ss, e)) = FlattenSeq(ss) \o e
  <2>1. PICK T : T = Seq(S)
    OBVIOUS
  <2>2. PICK tt : tt = Append(ss, e)
    OBVIOUS
  <2>3. tt \in Seq(T) /\ Len(tt) = n + 1 /\ tt[n + 1] = e /\ \A k \in 1..n : tt[k] = ss[k]
    <3>1. ss \in Seq(T) /\ e \in T
      BY <2>1
    <3>2. tt \in Seq(T) /\ Len(tt) = Len(ss) + 1 /\ tt[Len(ss) + 1] = e /\ \A k \in 1..Len(ss) : tt[k] = ss[k]
      BY <2>2, <3>1, AppendProperties
    <3> QED
      BY <1>1, <3>2
  <2>4. PICK g : PartsOf(tt, g, S) /\ FlattenSeq(tt) = g[n + 1]
    BY <2>1, <2>3, JoinedParts
  <2>5. BeginAlike(tt, ss, n)
    BY <1>1, <2>3 DEF BeginAlike
  <2>6. g[n] = f[n]
    BY <1>2, <2>4, <2>5, PartsAgree
  <2>7. g[n + 1] = g[n] \o e
    <3>1. n + 1 \in 1..(n + 1) /\ (n + 1) - 1 = n
      OBVIOUS
    <3> QED
      BY <2>3, <2>4, <3>1 DEF PartsOf
  <2> QED
    BY <1>2, <2>2, <2>4, <2>6, <2>7
<1> QED
  BY <1>3, <1>4, <1>5

(* Joining two sequences, or one after the other, is the same.             *)
LEMMA JoinedConcat ==
  ASSUME NEW S, NEW ss \in Seq(Seq(S)), NEW tt \in Seq(Seq(S))
  PROVE  FlattenSeq(ss \o tt) = FlattenSeq(ss) \o FlattenSeq(tt)
<1>1. PICK n \in Nat, m \in Nat : n = Len(ss) /\ m = Len(tt)
  BY LenProperties
<1>2. PICK uu : uu = ss \o tt
  OBVIOUS
<1>3. /\ uu \in Seq(Seq(S)) /\ Len(uu) = n + m
      /\ \A i \in 1..(n + m) : uu[i] = IF i <= n THEN ss[i] ELSE tt[i - n]
  <2>1. PICK T : T = Seq(S)
    OBVIOUS
  <2>2. ss \in Seq(T) /\ tt \in Seq(T)
    BY <2>1
  <2>3. /\ uu \in Seq(T) /\ Len(uu) = Len(ss) + Len(tt)
        /\ \A i \in 1..(Len(ss) + Len(tt)) : uu[i] = IF i <= Len(ss) THEN ss[i] ELSE tt[i - Len(ss)]
    BY <1>2, <2>2, ConcatProperties
  <2> QED
    BY <1>1, <2>1, <2>3
<1>4. PICK f : PartsOf(ss, f, S) /\ FlattenSeq(ss) = f[n]
  BY <1>1, JoinedParts
<1>5. PICK g : PartsOf(tt, g, S) /\ FlattenSeq(tt) = g[m]
  BY <1>1, JoinedParts
<1>6. PICK h : PartsOf(uu, h, S) /\ FlattenSeq(uu) = h[n + m]
  BY <1>3, JoinedParts
<1>7. PICK a \in Seq(S) : a = f[n] /\ h[n] = a
  <2>1. BeginAlike(uu, ss, n)
    BY <1>1, <1>3 DEF BeginAlike
  <2>2. h[n] = f[n]
    BY <1>4, <1>6, <2>1, PartsAgree
  <2>3. f[n] \in Seq(S)
    BY <1>1, <1>4 DEF PartsOf
  <2> QED
    BY <2>2, <2>3
<1> DEFINE P == {k \in 0..m : h[n + k] = a \o g[k]}
<1>8. 0 \in P
  <2>1. a \o <<>> = a /\ n + 0 = n /\ 0 \in 0..m
    BY ConcatEmptySeq
  <2>2. g[0] = <<>>
    BY <1>5 DEF PartsOf
  <2> QED
    BY <1>7, <2>1, <2>2
<1>9. ASSUME NEW k \in 1..m, k - 1 \in P
      PROVE  k \in P
  <2>1. /\ k \in 0..m /\ k - 1 \in 0..m /\ n + k \in 1..(n + m) /\ ~(n + k <= n)
        /\ (n + k) - n = k /\ (n + k) - 1 = n + (k - 1)
    OBVIOUS
  <2>2. PICK b \in Seq(S), c \in Seq(S) : b = g[k - 1] /\ c = tt[k]
    <3>1. tt[k] \in Seq(S)
      BY <1>1, ElementsOfSequence
    <3> QED
      BY <1>1, <1>5, <2>1, <3>1 DEF PartsOf
  <2>3. h[n + k] = h[n + (k - 1)] \o c
    <3>1. uu[n + k] = c
      BY <1>3, <2>1, <2>2
    <3>2. h[n + k] = h[(n + k) - 1] \o uu[n + k]
      BY <1>3, <1>6, <2>1 DEF PartsOf
    <3> QED
      BY <2>1, <3>1, <3>2
  <2>4. g[k] = b \o c
    BY <1>1, <1>5, <2>2 DEF PartsOf
  <2>5. (a \o b) \o c = a \o (b \o c)
    BY SMTT(30), ConcatAssociative
  <2>6. h[n + (k - 1)] = a \o b
    BY <1>9, <2>2
  <2> QED
    BY <2>1, <2>3, <2>4, <2>5, <2>6
<1>10. h[n + m] = a \o g[m]
  <2>1. m \in P
    <3> HIDE DEF P
    <3>1. \A k \in 0..m : k \in P
      BY <1>8, <1>9, CountUp
    <3> QED
      BY <3>1
  <2> QED
    BY <2>1
<1> QED
  BY <1>2, <1>4, <1>5, <1>6, <1>7, <1>10

(* Joining three lines, it does not matter which two are joined first.     *)
LEMMA LinesGrouped ==
  \A u \in Line, v \in Line, w \in Line : (u \o v) \o w = u \o (v \o w)
  BY SMTT(30), ConcatAssociative DEF Line

(* Lines are joined to a line.                                             *)
LEMMA LinesJoined ==
  ASSUME NEW ss \in Seq(Line)
  PROVE  /\ FlattenSeq(ss) \in Line /\ (ss = <<>> => FlattenSeq(ss) = <<>>)
         /\ \A e \in Line : FlattenSeq(Append(ss, e)) = FlattenSeq(ss) \o e
         /\ \A tt \in Seq(Line) : FlattenSeq(ss \o tt) = FlattenSeq(ss) \o FlattenSeq(tt)
  BY JoinedMore, JoinedConcat DEF Line

(* Whatever joins the parts one by one is what FlattenSeq joins.           *)
LEMMA JoinedOneByOne ==
  ASSUME NEW S, NEW ss \in Seq(Seq(S)), NEW f, PartsOf(ss, f, S)
  PROVE  FlattenSeq(ss) = f[Len(ss)]
<1>1. PICK g : PartsOf(ss, g, S) /\ FlattenSeq(ss) = g[Len(ss)]
  BY JoinedParts
<1>2. BeginAlike(ss, ss, Len(ss))
  <2>1. Len(ss) \in Nat
    BY LenProperties
  <2> QED
    BY <2>1 DEF BeginAlike
<1>3. f[Len(ss)] = g[Len(ss)]
  BY <1>1, <1>2, PartsAgree
<1> QED
  BY <1>1, <1>3

(* A word that is added to the parts is the last one of them all.          *)
LEMMA AddWordJoined ==
  ASSUME NEW chunks \in Seq(Line), NEW word \in Word, NEW fits
  PROVE  FlattenSeq(AddWord(chunks, word, fits)) = FlattenSeq(chunks) \o <<word>>
<1>1. PICK w \in Line : w = <<word>>
  BY OneWord
<1>2. CASE chunks # <<>> /\ fits
  <2>1. PICK front \in Seq(Line), l \in Line : front = Front(chunks) /\ l = Last(chunks) /\ chunks = Append(front, l)
    BY <1>2, EndsOf
  <2>2. PICK e \in Line : e = Append(l, word) /\ e = l \o w
    <3>1. Append(l, word) \in Line /\ Append(l, word) = l \o <<word>>
      BY AppendProperties, AppendIsConcat DEF Line
    <3> QED
      BY <1>1, <3>1
  <2>3. AddWord(chunks, word, fits) = Append(front, e)
    BY <1>2, <2>1, <2>2 DEF AddWord
  <2>4. FlattenSeq(Append(front, e)) = FlattenSeq(front) \o e /\ FlattenSeq(Append(front, l)) = FlattenSeq(front) \o l
    BY LinesJoined
  <2>5. PICK f \in Line : f = FlattenSeq(front)
    BY LinesJoined
  <2>6. (f \o l) \o w = f \o (l \o w)
    BY LinesGrouped
  <2> QED
    BY <1>1, <2>1, <2>2, <2>3, <2>4, <2>5, <2>6
<1>3. CASE ~(chunks # <<>> /\ fits)
  <2>1. AddWord(chunks, word, fits) = Append(chunks, w)
    BY <1>1, <1>3 DEF AddWord
  <2> QED
    BY <1>1, <2>1, LinesJoined
<1> QED
  BY <1>2, <1>3

(* What has each word of a text added in turn is the text.                 *)
Adds(a, text) == a[0] = <<>> /\ \A k \in 1..Len(text) : a[k] = a[k - 1] \o <<text[k]>>
LEMMA AddedAll ==
  ASSUME NEW text \in Line, NEW a, Adds(a, text)
  PROVE  a[Len(text)] = text
<1>1. PICK n \in Nat : n = Len(text) /\ text \in Seq(Word)
  BY LenProperties DEF Line
<1> DEFINE P == {k \in 0..n : a[k] = SubSeq(text, 1, k)}
<1>2. 0 \in P
  <2>1. 0 \in 0..n /\ SubSeq(text, 1, 0) = <<>>
    BY SubSeqEmpty
  <2> QED
    BY <2>1 DEF Adds
<1>3. ASSUME NEW k \in 1..n, k - 1 \in P
      PROVE  k \in P
  <2>1. k \in 0..n /\ 1 \in 1..Len(text) /\ k \in 1..Len(text)
    BY <1>1
  <2>2. SubSeq(text, 1, k) = SubSeq(text, 1, k - 1) \o <<text[k]>>
    BY <1>1, <2>1, SubSeqRecursiveSecond
  <2>3. a[k] = a[k - 1] \o <<text[k]>> /\ a[k - 1] = SubSeq(text, 1, k - 1)
    BY <1>3, <2>1 DEF Adds
  <2> QED
    BY <2>1, <2>2, <2>3
<1>4. n \in P
  <2> HIDE DEF P
  <2>1. \A k \in 0..n : k \in P
    BY <1>2, <1>3, CountUp
  <2> QED
    BY <2>1
<1> QED
  BY <1>1, <1>4, SubSeqFull

(* The lines of a text, and its phrases, have its words in their order.    *)
LEMMA ChunkedJoined ==
  ASSUME NEW words \in Line
  PROVE  FlattenSeq(Chunked(words)) = words
<1>1. PICK c : ChunksOf(words, c) /\ Chunked(words) = c[Len(words)]
  BY ChunksAre
<1>2. PICK n \in Nat : n = Len(words) /\ \A k \in 1..n : words[k] \in Word
  <2>1. Len(words) \in Nat /\ \A k \in 1..Len(words) : words[k] \in Word
    BY ElementsOfSequence DEF Line
  <2> QED
    BY <2>1
<1> DEFINE a == [k \in 0..n |-> FlattenSeq(c[k])]
<1>3. a[0] = <<>>
  <2>1. PICK s \in Seq(Line) : s = c[0] /\ s = <<>>
    BY <1>1, EmptySeq DEF ChunksOf
  <2>2. FlattenSeq(s) = <<>>
    BY <2>1, LinesJoined
  <2>3. 0 \in 0..n
    OBVIOUS
  <2> QED
    BY <2>1, <2>2, <2>3
<1>4. ASSUME NEW k \in 1..n
      PROVE  a[k] = a[k - 1] \o <<words[k]>>
  <2>1. k \in 0..n /\ k - 1 \in 0..n
    OBVIOUS
  <2>2. PICK s \in Seq(Line), w \in Word : s = c[k - 1] /\ w = words[k]
    <3>1. c[k - 1] \in Seq(Fine) /\ Fine \subseteq Line
      BY <1>1, <1>2, <2>1 DEF ChunksOf, Fine
    <3>2. c[k - 1] \in Seq(Line)
      BY <3>1, SeqMonotonic
    <3> QED
      BY <1>2, <3>2
  <2>3. c[k] = ChunkWord(s, w)
    BY <1>1, <1>2, <2>2 DEF ChunksOf
  <2>4. FlattenSeq(ChunkWord(s, w)) = FlattenSeq(s) \o <<w>>
    BY AddWordJoined DEF ChunkWord
  <2> QED
    BY <2>1, <2>2, <2>3, <2>4
<1>5. a[n] = FlattenSeq(Chunked(words))
  <2>1. n \in 0..n
    OBVIOUS
  <2> QED
    BY <1>1, <1>2, <2>1
<1>6. Adds(a, words)
  <2> HIDE DEF a
  <2> QED
    BY <1>2, <1>3, <1>4 DEF Adds
<1> HIDE DEF a
<1> QED
  BY <1>2, <1>5, <1>6, AddedAll

(* The phrases of a text, one after the other, are the text.               *)
LEMMA PhrasesJoined ==
  ASSUME NEW text \in Line
  PROVE  FlattenSeq(Phrases(text)) = text
<1>1. PICK c : PhrasesOf(text, c) /\ Phrases(text) = c[Len(text)]
  BY PhrasesAre
<1>2. PICK n \in Nat : n = Len(text) /\ \A k \in 1..n : text[k] \in Word
  <2>1. Len(text) \in Nat /\ \A k \in 1..Len(text) : text[k] \in Word
    BY ElementsOfSequence DEF Line
  <2> QED
    BY <2>1
<1> DEFINE a == [k \in 0..n |-> FlattenSeq(c[k])]
<1>3. a[0] = <<>>
  <2>1. PICK s \in Seq(Line) : s = c[0] /\ s = <<>>
    BY <1>1, EmptySeq DEF PhrasesOf
  <2>2. FlattenSeq(s) = <<>>
    BY <2>1, LinesJoined
  <2>3. 0 \in 0..n
    OBVIOUS
  <2> QED
    BY <2>1, <2>2, <2>3
<1>4. ASSUME NEW k \in 1..n
      PROVE  a[k] = a[k - 1] \o <<text[k]>>
  <2>1. k \in 0..n /\ k - 1 \in 0..n
    OBVIOUS
  <2>2. PICK s \in Seq(Line), w \in Word : s = c[k - 1] /\ w = text[k]
    BY <1>1, <1>2, <2>1 DEF PhrasesOf
  <2>3. c[k] = PhraseWord(s, w)
    BY <1>1, <1>2, <2>2 DEF PhrasesOf
  <2>4. FlattenSeq(PhraseWord(s, w)) = FlattenSeq(s) \o <<w>>
    BY AddWordJoined DEF PhraseWord
  <2> QED
    BY <2>1, <2>2, <2>3, <2>4
<1>5. a[n] = FlattenSeq(Phrases(text))
  <2>1. n \in 0..n
    OBVIOUS
  <2> QED
    BY <1>1, <1>2, <2>1
<1>6. Adds(a, text)
  <2> HIDE DEF a
  <2> QED
    BY <1>2, <1>3, <1>4 DEF Adds
<1> HIDE DEF a
<1> QED
  BY <1>2, <1>5, <1>6, AddedAll

(* Moving words between two lines leaves the text as it was.               *)
LEMMA RebalancedJoined ==
  ASSUME NEW chunks \in Seq(Fine)
  PROVE  FlattenSeq(Rebalanced(chunks)) = FlattenSeq(chunks)
<1>1. CASE Len(chunks) < 2
  BY <1>1 DEF Rebalanced
<1>2. CASE ~(Len(chunks) < 2)
  <2>1. PICK up \in Seq(Fine), previous \in Fine, last \in Fine, U \in Fine, L \in Fine \cup Spare :
          /\ chunks = Append(Append(up, previous), last) /\ U \o L = previous \o last
          /\ Rebalanced(chunks) = up \o <<U, L>>
    BY <1>2, RebalancedParts
  <2>2. Fine \subseteq Line /\ previous \in Line /\ last \in Line /\ U \in Line /\ L \in Line
    BY DEF Fine, Spare
  <2>3. up \in Seq(Line)
    BY <2>2, SeqMonotonic
  <2>4. PICK f \in Line : f = FlattenSeq(up)
    BY <2>3, LinesJoined
  <2>5. \A a \in Line, b \in Line : FlattenSeq(Append(Append(up, a), b)) = f \o (a \o b)
    <3> SUFFICES ASSUME NEW a \in Line, NEW b \in Line
                 PROVE  FlattenSeq(Append(Append(up, a), b)) = f \o (a \o b)
      OBVIOUS
    <3>1. PICK v \in Seq(Line) : v = Append(up, a)
      BY <2>3, AppendProperties
    <3>2. FlattenSeq(Append(v, b)) = FlattenSeq(v) \o b /\ FlattenSeq(v) = f \o a
      BY <2>3, <2>4, <3>1, LinesJoined
    <3>3. (f \o a) \o b = f \o (a \o b)
      BY LinesGrouped
    <3> QED
      BY <3>1, <3>2, <3>3
  <2>6. up \o <<U, L>> = Append(Append(up, U), L)
    BY <2>2, <2>3
  <2>7. FlattenSeq(Append(Append(up, U), L)) = f \o (U \o L)
    BY <2>2, <2>5
  <2>8. FlattenSeq(Append(Append(up, previous), last)) = f \o (previous \o last)
    BY <2>2, <2>5
  <2> QED
    BY <2>1, <2>6, <2>7, <2>8
<1> QED
  BY <1>1, <1>2

(* The pages of a text, one after the other, are the text.                 *)
LEMMA PagedJoined ==
  ASSUME NEW lines \in Laid
  PROVE  FlattenSeq(Paged(lines)) = lines
<1>1. PICK n \in Nat : n = Len(lines) /\ lines \in Seq(Line)
  BY PagesAre DEF Laid
<1>2. PICK q \in Nat : q = Pages(n)
  BY PageEnds
<1>3. PICK pages : pages = Paged(lines)
  OBVIOUS
<1>4. /\ pages \in Seq(Page) /\ Len(pages) = q
      /\ \A i \in 1..q : pages[i] = SubSeq(lines, (i - 1) * MaxLines + 1, Min({i * MaxLines, n}))
  BY <1>1, <1>2, <1>3, PagesAre
<1>5. Page \subseteq Seq(Line)
  BY DEF Page, Laid
<1>6. pages \in Seq(Seq(Line))
  BY <1>4, <1>5, SeqMonotonic
<1> DEFINE Upto(i) == IF i = q THEN n ELSE i * MaxLines
           f == [i \in 0..q |-> SubSeq(lines, 1, Upto(i))]
<1>7. q = 0 => n = 0
  <2>1. n > 0 => q * MaxLines >= n
    BY <1>2, PageEnds
  <2>2. q = 0 => q * MaxLines = 0
    BY CaptionsAssumption
  <2> QED
    BY <2>1, <2>2
<1>8. ASSUME NEW i \in 0..q
      PROVE  Upto(i) \in 0..n
  <2>1. CASE i = q
    BY <2>1
  <2>2. CASE i # q
    <3>1. i + 1 \in 1..q /\ (i + 1) - 1 = i
      BY <2>2
    <3>2. ((i + 1) - 1) * MaxLines \in Nat /\ ((i + 1) - 1) * MaxLines < n
      BY <1>2, <3>1, PageEnds
    <3>3. PICK e \in Nat : e = i * MaxLines /\ e < n
      BY <3>1, <3>2
    <3> QED
      BY <2>2, <3>3
  <2> QED
    BY <2>1, <2>2
<1>9. ASSUME NEW i \in 1..q
      PROVE  /\ pages[i] = SubSeq(lines, Upto(i - 1) + 1, Upto(i)) /\ Upto(i - 1) <= Upto(i)
  <2>1. PICK e \in Nat : e = (i - 1) * MaxLines /\ e < n /\ i * MaxLines = e + MaxLines
    BY <1>2, PageEnds
  <2>2. Upto(i - 1) = e
    <3>1. i - 1 # q
      OBVIOUS
    <3> QED
      BY <2>1, <3>1
  <2>3. PICK m \in Nat \ {0} : m = MaxLines
    BY CaptionsAssumption
  <2>4. Min({e + m, n}) = IF e + m <= n THEN e + m ELSE n
    <3>1. e + m \in Int /\ n \in Int
      OBVIOUS
    <3> QED
      BY <3>1, MaxMin
  <2>5. Upto(i) = IF e + m <= n THEN e + m ELSE n
    <3>1. CASE i = q
      <4>1. q * MaxLines >= n
        BY <1>2, <2>1, PageEnds
      <4>2. e + m >= n
        BY <2>1, <2>3, <3>1, <4>1
      <4> QED
        BY <3>1, <4>2
    <3>2. CASE i # q
      <4>1. Upto(i) = e + m
        BY <2>1, <2>3, <3>2
      <4>2. Upto(i) \in 0..n
        <5>1. i \in 0..q
          OBVIOUS
        <5> QED
          BY <1>8, <5>1
      <4>3. e + m <= n
        <5> HIDE DEF Upto
        <5> QED
          BY <4>1, <4>2
      <4> QED
        BY <4>1, <4>3
    <3> QED
      BY <3>1, <3>2
  <2>6. pages[i] = SubSeq(lines, e + 1, Upto(i))
    <3>1. Min({i * MaxLines, n}) = Upto(i)
      <4> HIDE DEF Upto
      <4> QED
        BY <2>1, <2>3, <2>4, <2>5
    <3> HIDE DEF Upto
    <3> QED
      BY <1>4, <2>1, <3>1
  <2>7. e <= Upto(i)
    <3> HIDE DEF Upto
    <3> QED
      BY <2>1, <2>5
  <2> HIDE DEF Upto
  <2> QED
    BY <2>2, <2>6, <2>7
<1> HIDE DEF Upto
<1>10. ASSUME NEW i \in 0..q
       PROVE  f[i] \in Seq(Line)
  <2>1. PICK u \in 0..n : u = Upto(i)
    BY <1>8
  <2>2. \A k \in 1..u : lines[k] \in Line
    <3>1. \A k \in 1..n : lines[k] \in Line
      BY <1>1, ElementsOfSequence
    <3> QED
      BY <3>1
  <2>3. u \in Int /\ 1 \in Int
    OBVIOUS
  <2>4. SubSeq(lines, 1, u) \in Seq(Line)
    BY <2>2, <2>3, SubSeqProperties
  <2> QED
    BY <2>1, <2>4
<1>11. f[0] = <<>>
  <2>1. Upto(0) = 0
    <3>1. 0 * MaxLines = 0
      BY CaptionsAssumption
    <3> QED
      BY <1>7, <3>1 DEF Upto
  <2>2. SubSeq(lines, 1, 0) = <<>>
    BY SubSeqEmpty
  <2>3. 0 \in 0..q
    OBVIOUS
  <2> QED
    BY <2>1, <2>2, <2>3
<1>12. ASSUME NEW i \in 1..q
       PROVE  f[i] = f[i - 1] \o pages[i]
  <2>1. i \in 0..q /\ i - 1 \in 0..q
    OBVIOUS
  <2>2. PICK a \in 0..n, b \in 0..n : a = Upto(i - 1) /\ b = Upto(i) /\ a <= b
    BY <1>8, <1>9, <2>1
  <2>3. 1 \in 1..(Len(lines) + 1) /\ a \in (1 - 1)..Len(lines) /\ b \in a..Len(lines)
    BY <1>1, <2>2
  <2>4. SubSeq(lines, 1, a) \o SubSeq(lines, a + 1, b) = SubSeq(lines, 1, b)
    BY <1>1, <2>3, ConcatAdjacentSubSeq
  <2>5. pages[i] = SubSeq(lines, a + 1, b)
    BY <1>9, <2>2
  <2> QED
    BY <2>1, <2>2, <2>4, <2>5
<1>13. f[q] = lines
  <2>1. Upto(q) = n /\ q \in 0..q
    BY DEF Upto
  <2>2. SubSeq(lines, 1, n) = lines
    BY <1>1, SubSeqFull
  <2> QED
    BY <2>1, <2>2
<1>14. f \in [0..q -> Seq(Line)]
  BY <1>10
<1> HIDE DEF f
<1>15. PartsOf(pages, f, Line)
  BY <1>4, <1>11, <1>12, <1>14 DEF PartsOf
<1>16. FlattenSeq(pages) = f[Len(pages)]
  BY <1>6, <1>15, JoinedOneByOne
<1> QED
  BY <1>3, <1>4, <1>13, <1>16

(* What captions say, and what they say together.                          *)
Spoken(s) == FlattenSeq(FlattenSeq(s))
LEMMA PagesSpoken ==
  ASSUME NEW s \in Seq(Page), NEW t \in Seq(Page)
  PROVE  Spoken(s) \in Line /\ Spoken(s \o t) = Spoken(s) \o Spoken(t) /\ (s = <<>> => Spoken(s) = <<>>)
<1>1. Page \subseteq Seq(Line)
  BY DEF Page, Laid
<1>2. s \in Seq(Seq(Line)) /\ t \in Seq(Seq(Line))
  BY <1>1, SeqMonotonic
<1>3. FlattenSeq(s \o t) = FlattenSeq(s) \o FlattenSeq(t) /\ (s = <<>> => FlattenSeq(s) = <<>>)
  BY <1>2, JoinedMore, JoinedConcat
<1>4. PICK a \in Seq(Line), b \in Seq(Line) : a = FlattenSeq(s) /\ b = FlattenSeq(t)
  BY <1>2, JoinedMore
<1>5. /\ FlattenSeq(a) \in Line /\ (a = <<>> => FlattenSeq(a) = <<>>)
      /\ FlattenSeq(a \o b) = FlattenSeq(a) \o FlattenSeq(b)
  BY LinesJoined
<1> QED
  BY <1>3, <1>4, <1>5 DEF Spoken

(* What is flushed says the words that were.                               *)
LEMMA FlushedSpoken ==
  ASSUME NEW words \in Line
  PROVE  Spoken(Flushed(words)) = words
<1>1. PICK s \in Seq(Fine) : s = Chunked(words)
  BY FlushedFits
<1>2. PICK t \in Laid : t = Rebalanced(s)
  BY RebalancedFits
<1>3. FlattenSeq(s) = words /\ FlattenSeq(t) = FlattenSeq(s) /\ FlattenSeq(Paged(t)) = t
  BY <1>1, <1>2, ChunkedJoined, RebalancedJoined, PagedJoined
<1> QED
  BY <1>1, <1>2, <1>3 DEF Spoken, Flushed

(* The captions of a segment say its text, whatever it is.                 *)
LEMMA PhraseSpoken ==
  ASSUME NEW acc \in Writing, NEW part \in Line
  PROVE  Spoken(AddPhrase(acc, part).captions) \o AddPhrase(acc, part).words
           = (Spoken(acc.captions) \o acc.words) \o part
<1>1. PICK w \in Line, s \in Seq(Page) : w = acc.words /\ s = acc.captions /\ acc = [words |-> w, captions |-> s]
  BY DEF Writing
<1>2. PICK t \in Seq(Page) : t = Flushed(w) /\ Spoken(t) = w
  BY FlushedFits, FlushedSpoken
<1>3. PICK a \in Line : a = Spoken(s) /\ Spoken(s \o t) = a \o w
  BY <1>2, PagesSpoken
<1>4. PICK b : b = AddPhrase(acc, part)
  OBVIOUS
<1>5. CASE w # <<>> /\ Len(Chunked(w \o part)) > MaxLines
  <2>1. b = [words |-> part, captions |-> s \o t]
    BY <1>1, <1>2, <1>4, <1>5 DEF AddPhrase
  <2>2. b.words = part /\ b.captions = s \o t
    BY <2>1
  <2> QED
    BY <1>1, <1>3, <1>4, <2>2
<1>6. CASE ~(w # <<>> /\ Len(Chunked(w \o part)) > MaxLines)
  <2>1. b = [words |-> w \o part, captions |-> s]
    BY <1>1, <1>4, <1>6 DEF AddPhrase
  <2>2. b.words = w \o part /\ b.captions = s
    BY <2>1
  <2>3. (a \o w) \o part = a \o (w \o part)
    BY LinesGrouped
  <2> QED
    BY <1>1, <1>3, <1>4, <2>2, <2>3
<1> QED
  BY <1>5, <1>6

(* The captions of a text say it.                                          *)
LEMMA SplitSpoken ==
  ASSUME NEW text \in Line
  PROVE  Split(text) \in Seq(Page) /\ Spoken(Split(text)) = text
<1>1. PICK parts \in Seq(Line) : parts = Phrases(text) /\ FlattenSeq(parts) = text
  BY SplitFits, PhrasesJoined
<1>2. PICK n \in Nat : n = Len(parts) /\ \A k \in 1..n : parts[k] \in Line
  BY ElementsOfSequence
<1>3. PICK c : SplitOf(text, c) /\ Split(text) = c[n].captions \o Flushed(c[n].words)
  BY <1>1, <1>2, SplitIs
<1>4. c[0] = Nothing /\ \A k \in 0..n : c[k] \in Writing
  BY <1>1, <1>2, <1>3 DEF SplitOf
<1>5. \A k \in 1..n : c[k] = AddPhrase(c[k - 1], parts[k])
  BY <1>1, <1>2, <1>3 DEF SplitOf
<1> DEFINE f == [k \in 0..n |-> Spoken(c[k].captions) \o c[k].words]
<1>6. ASSUME NEW k \in 0..n
      PROVE  f[k] \in Line
  <2>1. PICK w \in Line, s \in Seq(Page) : w = c[k].words /\ s = c[k].captions
    BY <1>4 DEF Writing
  <2>2. PICK a \in Line : a = Spoken(s)
    BY PagesSpoken
  <2>3. a \o w \in Line
    BY ConcatProperties DEF Line
  <2> QED
    BY <2>1, <2>2, <2>3
<1>7. f[0] = <<>>
  <2>1. PICK s \in Seq(Page) : s = <<>>
    BY EmptySeq
  <2>2. Spoken(s) = <<>>
    BY <2>1, PagesSpoken
  <2>3. c[0].captions = s /\ c[0].words = <<>> /\ 0 \in 0..n
    BY <1>4, <2>1 DEF Nothing
  <2>4. <<>> \o <<>> = <<>>
    OBVIOUS
  <2> QED
    BY <2>1, <2>2, <2>3, <2>4
<1>8. ASSUME NEW k \in 1..n
      PROVE  f[k] = f[k - 1] \o parts[k]
  <2>1. k \in 0..n /\ k - 1 \in 0..n
    OBVIOUS
  <2>2. PICK acc \in Writing, part \in Line : acc = c[k - 1] /\ part = parts[k]
    BY <1>2, <1>4, <2>1
  <2>3. Spoken(AddPhrase(acc, part).captions) \o AddPhrase(acc, part).words
          = (Spoken(acc.captions) \o acc.words) \o part
    BY PhraseSpoken
  <2>4. c[k] = AddPhrase(acc, part)
    BY <1>5, <2>2
  <2> QED
    BY <2>1, <2>2, <2>3, <2>4
<1>9. f[n] = text
  <2>1. f \in [0..n -> Line]
    BY <1>6
  <2> HIDE DEF f
  <2>2. PartsOf(parts, f, Word)
    BY <1>2, <1>7, <1>8, <2>1 DEF PartsOf, Line
  <2>3. parts \in Seq(Seq(Word))
    BY DEF Line
  <2> QED
    BY <1>1, <1>2, <2>2, <2>3, JoinedOneByOne
<1>10. PICK w \in Line, s \in Seq(Page) : w = c[n].words /\ s = c[n].captions
  <2>1. n \in 0..n
    OBVIOUS
  <2> QED
    BY <1>4, <2>1 DEF Writing
<1>11. PICK t \in Seq(Page) : t = Flushed(w) /\ Spoken(t) = w
  BY FlushedFits, FlushedSpoken
<1>12. Spoken(s \o t) = Spoken(s) \o w /\ s \o t \in Seq(Page)
  BY <1>11, PagesSpoken, ConcatProperties
<1>13. f[n] = Spoken(s) \o w
  <2>1. n \in 0..n
    OBVIOUS
  <2> QED
    BY <1>10, <2>1
<1> HIDE DEF f
<1> QED
  BY <1>3, <1>9, <1>10, <1>11, <1>12, <1>13

(* A field of the elements of a sequence, and of two that are joined.      *)
Mapped(s, F) == [i \in DOMAIN s |-> F[s[i]]]
Maps(F, T, U) == F \in [T -> U]
LEMMA MappedJoined ==
  ASSUME NEW T, NEW U, NEW F, Maps(F, T, U), NEW s \in Seq(T), NEW t \in Seq(T)
  PROVE  /\ Mapped(s, F) \in Seq(U) /\ Mapped(s \o t, F) = Mapped(s, F) \o Mapped(t, F)
         /\ Len(Mapped(s, F)) = Len(s)
<1>1. ASSUME NEW r \in Seq(T)
      PROVE  /\ Mapped(r, F) \in Seq(U) /\ Len(Mapped(r, F)) = Len(r) /\ Len(r) \in Nat
             /\ \A i \in 1..Len(r) : Mapped(r, F)[i] = F[r[i]]
  <2>1. PICK n \in Nat : n = Len(r) /\ DOMAIN r = 1..n /\ \A i \in 1..n : r[i] \in T
    BY ElementsOfSequence
  <2>2. PICK m : m = Mapped(r, F)
    OBVIOUS
  <2>3. m \in [1..n -> U] /\ \A i \in 1..n : m[i] = F[r[i]]
    BY <2>1, <2>2 DEF Mapped, Maps
  <2>4. m \in Seq(U) /\ Len(m) = n
    BY <2>3
  <2> QED
    BY <2>1, <2>2, <2>3, <2>4
<1>2. PICK r \in Seq(T) : r = s \o t
  BY ConcatProperties
<1>3. PICK a \in Seq(U), b \in Seq(U), c \in Seq(U) : a = Mapped(s, F) /\ b = Mapped(t, F) /\ c = Mapped(r, F)
  BY <1>1
<1>4. PICK m \in Nat, n \in Nat : m = Len(s) /\ n = Len(t)
  BY <1>1
<1>5. /\ Len(r) = m + n /\ \A i \in 1..(m + n) : r[i] = IF i <= m THEN s[i] ELSE t[i - m]
  <2>1. Len(r) = Len(s) + Len(t) /\ \A i \in 1..(Len(s) + Len(t)) : r[i] = IF i <= Len(s) THEN s[i] ELSE t[i - Len(s)]
    BY <1>2, ConcatProperties
  <2> QED
    BY <1>4, <2>1
<1>6. /\ Len(a) = m /\ Len(b) = n /\ Len(c) = m + n
      /\ \A i \in 1..m : a[i] = F[s[i]]
      /\ \A i \in 1..n : b[i] = F[t[i]]
      /\ \A i \in 1..(m + n) : c[i] = F[r[i]]
  BY <1>1, <1>3, <1>4, <1>5
<1>7. PICK d : d = a \o b
  OBVIOUS
<1>8. /\ d \in Seq(U) /\ Len(d) = m + n
      /\ \A i \in 1..(m + n) : d[i] = IF i <= m THEN a[i] ELSE b[i - m]
  <2>1. /\ d \in Seq(U) /\ Len(d) = Len(a) + Len(b)
        /\ \A i \in 1..(Len(a) + Len(b)) : d[i] = IF i <= Len(a) THEN a[i] ELSE b[i - Len(a)]
    BY <1>7, ConcatProperties
  <2> QED
    BY <1>6, <2>1
<1>9. ASSUME NEW i \in 1..(m + n)
      PROVE  c[i] = d[i]
  <2>1. CASE i <= m
    <3>1. i \in 1..m
      BY <2>1
    <3>2. r[i] = s[i] /\ d[i] = a[i]
      BY <1>5, <1>8, <2>1
    <3>3. c[i] = F[r[i]] /\ a[i] = F[s[i]]
      BY <1>6, <3>1
    <3> QED
      BY <3>2, <3>3
  <2>2. CASE ~(i <= m)
    <3>1. PICK j \in 1..n : j = i - m
      BY <2>2
    <3>2. r[i] = t[j] /\ d[i] = b[j]
      BY <1>5, <1>8, <2>2, <3>1
    <3>3. c[i] = F[r[i]] /\ b[j] = F[t[j]]
      BY <1>6
    <3> QED
      BY <3>2, <3>3
  <2> QED
    BY <2>1, <2>2
<1>10. c = d
  BY <1>6, <1>8, <1>9, SeqEqual
<1> QED
  BY <1>1, <1>2, <1>3, <1>7, <1>10

(* The text of segments, and that of one more, or of the first and rest.   *)
Texts(T) == \A x \in T : x.text \in Line
LEMMA TextsJoined ==
  ASSUME NEW T, Texts(T), NEW segs \in Seq(T)
  PROVE  /\ TextOf(segs) \in Line /\ (segs = <<>> => TextOf(segs) = <<>>)
         /\ \A x \in T : TextOf(Append(segs, x)) = TextOf(segs) \o x.text
         /\ segs # <<>> => TextOf(segs) = Head(segs).text \o TextOf(Tail(segs))
<1>1. PICK F : Maps(F, T, Line) /\ \A x \in T : F[x] = x.text
  <2> DEFINE G == [x \in T |-> x.text]
  <2>1. Maps(G, T, Line) /\ \A x \in T : G[x] = x.text
    BY DEF Texts, Maps
  <2> HIDE DEF G
  <2> QED
    BY <2>1
<1>2. ASSUME NEW s \in Seq(T)
      PROVE  TextOf(s) = FlattenSeq(Mapped(s, F)) /\ Mapped(s, F) \in Seq(Line) /\ TextOf(s) \in Line
  <2>1. PICK n \in Nat : DOMAIN s = 1..n /\ \A i \in 1..n : s[i] \in T
    BY ElementsOfSequence
  <2>2. [i \in DOMAIN s |-> s[i].text] = Mapped(s, F)
    BY <1>1, <2>1 DEF Mapped
  <2>3. Mapped(s, F) \in Seq(Line)
    BY <1>1, MappedJoined
  <2>4. FlattenSeq(Mapped(s, F)) \in Line
    BY <2>3, LinesJoined
  <2> QED
    BY <2>2, <2>3, <2>4 DEF TextOf
<1>3. ASSUME NEW s \in Seq(T), NEW t \in Seq(T)
      PROVE  TextOf(s \o t) = TextOf(s) \o TextOf(t)
  <2>1. PICK r \in Seq(T) : r = s \o t
    BY ConcatProperties
  <2>2. Mapped(r, F) = Mapped(s, F) \o Mapped(t, F)
    <3>1. Mapped(s \o t, F) = Mapped(s, F) \o Mapped(t, F)
      BY <1>1, MappedJoined, SMTT(30)
    <3> QED
      BY <2>1, <3>1
  <2>3. PICK a \in Seq(Line), b \in Seq(Line) : a = Mapped(s, F) /\ b = Mapped(t, F)
    BY <1>2
  <2>4. FlattenSeq(a \o b) = FlattenSeq(a) \o FlattenSeq(b)
    BY LinesJoined
  <2> QED
    BY <1>2, <2>1, <2>2, <2>3, <2>4
<1>4. ASSUME NEW x \in T
      PROVE  <<x>> \in Seq(T) /\ TextOf(<<x>>) = x.text
  <2>1. PICK s : s = <<x>> /\ s \in Seq(T) /\ DOMAIN s = {1} /\ s[1] = x
    <3>1. <<x>> \in Seq(T)
      OBVIOUS
    <3>2. DOMAIN <<x>> = {1} /\ <<x>>[1] = x
      OBVIOUS
    <3> QED
      BY <3>1, <3>2
  <2>2. PICK w \in Line : w = x.text
    BY DEF Texts
  <2>3. [i \in DOMAIN s |-> s[i].text] = <<w>>
    BY <2>1, <2>2
  <2>4. PICK e \in Seq(Line) : e = <<>>
    BY EmptySeq
  <2>5. FlattenSeq(Append(e, w)) = FlattenSeq(e) \o w /\ FlattenSeq(e) = <<>>
    BY <2>4, LinesJoined
  <2>6. Append(e, w) = <<w>> /\ <<>> \o w = w
    BY <2>4, ConcatEmptySeq DEF Line
  <2> QED
    BY <2>1, <2>2, <2>3, <2>5, <2>6 DEF TextOf
<1>5. segs = <<>> => TextOf(segs) = <<>>
  <2> SUFFICES ASSUME segs = <<>>
               PROVE  TextOf(segs) = <<>>
    OBVIOUS
  <2>1. PICK e \in Seq(Line) : e = <<>>
    BY EmptySeq
  <2>2. [i \in DOMAIN segs |-> segs[i].text] = e
    BY <2>1
  <2>3. FlattenSeq(e) = <<>>
    BY <2>1, LinesJoined
  <2> QED
    BY <2>2, <2>3 DEF TextOf
<1>6. ASSUME NEW x \in T
      PROVE  TextOf(Append(segs, x)) = TextOf(segs) \o x.text
  <2>1. Append(segs, x) = segs \o <<x>>
    BY AppendIsConcat
  <2> QED
    BY <1>3, <1>4, <2>1
<1>7. ASSUME segs # <<>>
      PROVE  TextOf(segs) = Head(segs).text \o TextOf(Tail(segs))
  <2>1. PICK h \in T, r \in Seq(T) : h = Head(segs) /\ r = Tail(segs)
    BY <1>7, HeadTailProperties
  <2>2. segs = <<h>> \o r
    <3>1. Len(segs) \in Nat \ {0} /\ h = segs[1]
      BY <1>7, <2>1, EmptySeq
    <3>2. 1 \in 1..Len(segs) /\ Len(segs) \in 1..Len(segs)
      BY <3>1
    <3>3. SubSeq(segs, 1, Len(segs)) = <<segs[1]>> \o SubSeq(segs, 1 + 1, Len(segs))
      BY <3>2, SubSeqRecursiveFirst
    <3>4. SubSeq(segs, 1, Len(segs)) = segs /\ r = SubSeq(segs, 2, Len(segs))
      BY <1>7, <2>1, SubSeqFull, TailIsSubSeq
    <3> QED
      BY <3>1, <3>3, <3>4
  <2> QED
    BY <1>3, <1>4, <2>1, <2>2
<1> QED
  BY <1>2, <1>5, <1>6, <1>7

(* The segments without words add none to those that are heard.            *)
HeardOf(segs, from, to) == Chosen(segs, {i \in DOMAIN segs : Heard(segs[i], from, to)})
LEMMA ShownIsHeard ==
  ASSUME NEW segs \in Seq(Cue), NEW from, NEW to
  PROVE  TextOf(ShownOf(segs, from, to)) = TextOf(HeardOf(segs, from, to))
<1>1. Texts(Cue)
  BY DEF Texts, Cue, Line
<1>2. PICK n \in Nat : n = Len(segs) /\ DOMAIN segs = 1..n /\ \A i \in 1..n : segs[i] \in Cue
  BY ElementsOfSequence
<1>3. PICK A, B : /\ A = {i \in DOMAIN segs : Shown(segs[i], from, to)}
                  /\ B = {i \in DOMAIN segs : Heard(segs[i], from, to)}
  OBVIOUS
<1>4. PICK a : ChosenOf(segs, A, Cue, a) /\ Chosen(segs, A) = a[n]
  BY <1>2, ChosenAre
<1>5. PICK b : ChosenOf(segs, B, Cue, b) /\ Chosen(segs, B) = b[n]
  BY <1>2, ChosenAre
<1>6. /\ a[0] = <<>> /\ b[0] = <<>> /\ \A k \in 0..n : a[k] \in Seq(Cue) /\ b[k] \in Seq(Cue)
      /\ \A k \in 1..n : a[k] = AddIf(k \in A, a[k - 1], segs[k]) /\ b[k] = AddIf(k \in B, b[k - 1], segs[k])
  BY <1>2, <1>4, <1>5 DEF ChosenOf
<1>7. \A k \in 1..n : k \in A <=> (segs[k].text # <<>> /\ k \in B)
  BY <1>2, <1>3 DEF Shown
<1> DEFINE P == {k \in 0..n : TextOf(a[k]) = TextOf(b[k])}
<1>8. 0 \in P
  <2>1. 0 \in 0..n
    OBVIOUS
  <2> QED
    BY <1>6, <2>1
<1>9. ASSUME NEW k \in 1..n, k - 1 \in P
      PROVE  k \in P
  <2>1. k \in 0..n /\ k - 1 \in 0..n
    OBVIOUS
  <2>2. PICK s \in Seq(Cue), t \in Seq(Cue), seg \in Cue : s = a[k - 1] /\ t = b[k - 1] /\ seg = segs[k]
    BY <1>2, <1>6, <2>1
  <2>3. TextOf(s) = TextOf(t)
    BY <1>9, <2>2
  <2>4. a[k] = AddIf(k \in A, s, seg) /\ b[k] = AddIf(k \in B, t, seg)
    BY <1>6, <2>2
  <2>5. TextOf(Append(s, seg)) = TextOf(s) \o seg.text /\ TextOf(Append(t, seg)) = TextOf(t) \o seg.text
    BY <1>1, TextsJoined
  <2>6. seg.text = <<>> => TextOf(t) \o seg.text = TextOf(t)
    <3>1. TextOf(t) \in Seq(Word)
      BY <1>1, TextsJoined DEF Line
    <3>2. TextOf(t) \o <<>> = TextOf(t)
      BY <3>1, ConcatEmptySeq
    <3> QED
      BY <3>2
  <2>7. CASE k \in A
    <3>1. a[k] = Append(s, seg) /\ b[k] = Append(t, seg)
      BY <1>7, <2>4, <2>7 DEF AddIf
    <3> QED
      BY <2>1, <2>3, <2>5, <3>1
  <2>8. CASE k \notin A /\ k \in B
    <3>1. a[k] = s /\ b[k] = Append(t, seg) /\ seg.text = <<>>
      BY <1>7, <2>2, <2>4, <2>8 DEF AddIf
    <3> QED
      BY <2>1, <2>3, <2>5, <2>6, <3>1
  <2>9. CASE k \notin B
    <3>1. a[k] = s /\ b[k] = t
      BY <1>7, <2>4, <2>9 DEF AddIf
    <3> QED
      BY <2>1, <2>3, <3>1
  <2> QED
    BY <2>7, <2>8, <2>9
<1>10. TextOf(a[n]) = TextOf(b[n])
  <2>1. n \in P
    <3> HIDE DEF P
    <3>1. \A k \in 0..n : k \in P
      BY <1>8, <1>9, CountUp
    <3> QED
      BY <3>1
  <2> QED
    BY <2>1
<1> QED
  BY <1>3, <1>4, <1>5, <1>10 DEF ShownOf, HeardOf

(* The segments of a clip have the texts that are heard in it.             *)
LEMMA SelectedTexts ==
  ASSUME NEW segs \in Seq(Cue), NEW from \in Nat, NEW to \in Nat
  PROVE  TextOf(Selected(segs, from, to)) = TextOf(HeardOf(segs, from, to))
<1>1. PICK shown \in Seq(Cue), s \in Seq(Texted) :
        /\ shown = ShownOf(segs, from, to) /\ s = Selected(segs, from, to)
        /\ Len(s) = Len(shown) /\ \A i \in 1..Len(shown) : s[i].text = shown[i].text
  <2>1. PICK shown : shown = ShownOf(segs, from, to)
    OBVIOUS
  <2>2. /\ shown \in Seq(Cue) /\ Selected(segs, from, to) \in Seq(Texted)
        /\ Len(Selected(segs, from, to)) = Len(shown)
        /\ \A i \in 1..Len(shown) : Selected(segs, from, to)[i].text = shown[i].text
    BY <2>1, SelectedTyped
  <2> QED
    BY <2>1, <2>2
<1>2. DOMAIN s = 1..Len(shown) /\ DOMAIN shown = 1..Len(shown)
  BY <1>1, LenProperties
<1>3. [i \in DOMAIN s |-> s[i].text] = [i \in DOMAIN shown |-> shown[i].text]
  BY <1>1, <1>2
<1>4. TextOf(s) = TextOf(shown)
  BY <1>3 DEF TextOf
<1> QED
  BY <1>1, <1>4, ShownIsHeard

(* What the lines of a file say, and those of one more segment.            *)
Drawn(d) == d \in Seq(Elements(d)) /\ \A e \in Elements(d) : e.lines \in Page
LEMMA SaidJoined ==
  ASSUME NEW d, NEW e, Drawn(d), Drawn(e)
  PROVE  Said(d) \in Line /\ Said(d \o e) = Said(d) \o Said(e) /\ (d = <<>> => Said(d) = <<>>)
<1>1. PICK T : T = Elements(d) \cup Elements(e)
  OBVIOUS
<1>2. d \in Seq(T) /\ e \in Seq(T) /\ \A x \in T : x.lines \in Page
  BY <1>1, SeqMonotonic DEF Drawn
<1>3. PICK F : Maps(F, T, Page) /\ \A x \in T : F[x] = x.lines
  <2> DEFINE G == [x \in T |-> x.lines]
  <2>1. Maps(G, T, Page) /\ \A x \in T : G[x] = x.lines
    BY <1>2 DEF Maps
  <2> HIDE DEF G
  <2> QED
    BY <2>1
<1>4. ASSUME NEW s \in Seq(T)
      PROVE  Said(s) = Spoken(Mapped(s, F)) /\ Mapped(s, F) \in Seq(Page)
  <2>1. PICK n \in Nat : DOMAIN s = 1..n /\ \A i \in 1..n : s[i] \in T
    BY ElementsOfSequence
  <2>2. [i \in DOMAIN s |-> s[i].lines] = Mapped(s, F)
    BY <1>3, <2>1 DEF Mapped
  <2>3. Mapped(s, F) \in Seq(Page)
    BY <1>3, MappedJoined
  <2> QED
    BY <2>2, <2>3 DEF Said, Spoken
<1>5. PICK a \in Seq(Page), b \in Seq(Page) : a = Mapped(d, F) /\ b = Mapped(e, F)
  BY <1>2, <1>4
<1>6. PICK r \in Seq(T) : r = d \o e
  BY <1>2, ConcatProperties
<1>7. Mapped(r, F) = a \o b
  <2>1. Mapped(d \o e, F) = Mapped(d, F) \o Mapped(e, F)
    BY <1>2, <1>3, MappedJoined
  <2> QED
    BY <1>5, <1>6, <2>1
<1>8. Spoken(a \o b) = Spoken(a) \o Spoken(b) /\ Spoken(a) \in Line /\ (a = <<>> => Spoken(a) = <<>>)
  BY PagesSpoken
<1>9. d = <<>> => a = <<>>
  BY <1>5 DEF Mapped
<1> QED
  BY <1>2, <1>4, <1>5, <1>6, <1>7, <1>8, <1>9

(* The captions of a segment say its text.                                 *)
LEMMA DialoguesSay ==
  ASSUME NEW seg \in Texted
  PROVE  Drawn(Dialogues(seg)) /\ Said(Dialogues(seg)) = seg.text
<1>1. PICK d : d = Dialogues(seg)
  OBVIOUS
<1>2. PICK s \in Seq(Page) : s = Split(seg.text) /\ Spoken(s) = seg.text
  BY SplitSpoken DEF Texted
<1>3. /\ d \in Seq(Elements(d)) /\ Len(d) = Len(s) /\ \A i \in 1..Len(d) : d[i].lines = s[i]
      /\ \A e \in Elements(d) : e.lines \in Page
  BY <1>1, <1>2, DialoguesAre
<1>4. DOMAIN d = 1..Len(d) /\ s = [i \in 1..Len(s) |-> s[i]]
  BY <1>3, LenProperties
<1>5. [i \in DOMAIN d |-> d[i].lines] = s
  BY <1>3, <1>4
<1> QED
  BY <1>1, <1>2, <1>3, <1>5 DEF Drawn, Said, Spoken

(* What is written and what is left are the words that are heard.          *)
Told ==
  /\ captioning \in {"parse", "select"} => dialogues = <<>>
  /\ captioning \in {"write", "written"} =>
       Said(dialogues) \o TextOf(unwritten) = TextOf(HeardOf(segments, script.from, script.to))
  /\ captioning = "written" => unwritten = <<>>

(* Every step keeps what was told.                                         *)
LEMMA StepsTell ==
  ASSUME CaptionsTyped, Told, [CaptionNext]_captionVars
  PROVE  Told'
<1>1. PICK s \in Scripts : s = script /\ s.cues \in Seq(Cue) /\ s.from \in Nat /\ s.to \in Nat
  BY ScriptsTyped DEF CaptionsTyped
<1>2. PICK segs, left, d : /\ segs = segments /\ segs \in Seq(Cue) /\ left = unwritten /\ left \in Seq(Texted)
                          /\ d = dialogues /\ Drawn(d)
  BY DEF CaptionsTyped, Drawn
<1>3. Texts(Texted)
  BY DEF Texts, Texted
<1>4. CASE Parse
  BY <1>4 DEF Parse, Told
<1>5. CASE Select
  <2>1. dialogues = <<>> /\ captioning' = "write" /\ unwritten' = Selected(segs, s.from, s.to)
    BY <1>1, <1>2, <1>5 DEF Select, Told
  <2>2. UNCHANGED <<script, segments, dialogues>>
    BY <1>5 DEF Select
  <2>3. PICK u \in Seq(Texted) : u = Selected(segs, s.from, s.to)
    BY <1>1, <1>2, SelectedTyped
  <2>4. TextOf(u) = TextOf(HeardOf(segs, s.from, s.to))
    BY <1>1, <1>2, <2>3, SelectedTexts
  <2>5. Said(d) \o TextOf(u) = TextOf(u)
    <3>1. Said(d) = <<>>
      BY <1>2, <2>1, SaidJoined
    <3>2. TextOf(u) \in Seq(Word)
      BY <1>3, TextsJoined DEF Line
    <3> QED
      BY <3>1, <3>2, ConcatEmptySeq
  <2>6. dialogues' = d /\ unwritten' = u /\ segments' = segs /\ script' = s
    BY <1>1, <1>2, <2>1, <2>2, <2>3
  <2> QED
    BY <2>1, <2>4, <2>5, <2>6 DEF Told
<1>6. CASE WriteSegment
  <2>1. left # <<>> /\ captioning = "write" /\ UNCHANGED <<captioning, script, segments>>
    BY <1>2, <1>6 DEF WriteSegment
  <2>2. PICK seg \in Texted, rest \in Seq(Texted) : /\ seg = Head(left) /\ rest = Tail(left)
                                                   /\ TextOf(left) = seg.text \o TextOf(rest)
    <3>1. Head(left) \in Texted /\ Tail(left) \in Seq(Texted)
      BY <1>2, <2>1, HeadTailProperties
    <3>2. TextOf(left) = Head(left).text \o TextOf(Tail(left))
      BY <1>2, <1>3, <2>1, TextsJoined
    <3> QED
      BY <3>1, <3>2
  <2>3. PICK e : e = Dialogues(seg) /\ Drawn(e) /\ Said(e) = seg.text
    BY DialoguesSay
  <2>4. dialogues' = d \o e /\ unwritten' = rest
    BY <1>2, <1>6, <2>2, <2>3 DEF WriteSegment
  <2>5. PICK a \in Line, b \in Line, c \in Line : a = Said(d) /\ b = Said(e) /\ c = TextOf(rest)
    <3>1. Said(d) \in Line /\ Said(e) \in Line
      BY <1>2, <2>3, SaidJoined
    <3>2. TextOf(rest) \in Line
      BY <1>3, TextsJoined
    <3> QED
      BY <3>1, <3>2
  <2>6. Said(d \o e) = a \o b
    BY <1>2, <2>3, <2>5, SaidJoined
  <2>7. (a \o b) \o c = a \o (b \o c)
    BY LinesGrouped
  <2>8. Said(d) \o TextOf(left) = TextOf(HeardOf(segs, s.from, s.to))
    BY <1>1, <1>2, <2>1 DEF Told
  <2>9. Said(d \o e) \o TextOf(rest) = TextOf(HeardOf(segs, s.from, s.to))
    BY <2>2, <2>3, <2>5, <2>6, <2>7, <2>8
  <2>10. segments' = segs /\ script' = s /\ captioning' = "write"
    BY <1>1, <1>2, <2>1
  <2> QED
    BY <2>4, <2>9, <2>10 DEF Told
<1>7. CASE CloseFile
  <2>1. captioning = "write" /\ unwritten = <<>> /\ UNCHANGED <<script, segments, unwritten, dialogues>>
    BY <1>7 DEF CloseFile
  <2>2. Said(d) \o TextOf(left) = TextOf(HeardOf(segs, s.from, s.to))
    BY <1>1, <1>2, <2>1 DEF Told
  <2>3. dialogues' = d /\ unwritten' = left /\ segments' = segs /\ script' = s /\ left = <<>> /\ captioning' = "written"
    BY <1>1, <1>2, <1>7, <2>1 DEF CloseFile
  <2> QED
    BY <2>2, <2>3 DEF Told
<1>8. CASE UNCHANGED captionVars
  <2>1. /\ dialogues' = d /\ unwritten' = left /\ segments' = segs /\ script' = s /\ captioning' = captioning
    BY <1>1, <1>2, <1>8 DEF captionVars
  <2>2. /\ captioning \in {"parse", "select"} => d = <<>>
        /\ captioning \in {"write", "written"} => Said(d) \o TextOf(left) = TextOf(HeardOf(segs, s.from, s.to))
        /\ captioning = "written" => left = <<>>
    BY <1>1, <1>2 DEF Told
  <2> QED
    BY <2>1, <2>2 DEF Told
<1> QED
  BY <1>4, <1>5, <1>6, <1>7, <1>8 DEF CaptionNext

(* The captions of a clip say every word of the segments that are heard in *)
(* it, once and in their order, whatever the segments, the clip and the    *)
(* preset (subtitles.py 96-193).                                           *)
THEOREM CaptionsTell == CaptionSpec => []WordsKept
<1>1. CaptionInit => CaptionsTyped /\ Told
  BY CaptionsTypedInitially DEF CaptionInit, Told
<1>2. CaptionsTyped /\ Told /\ [CaptionNext]_captionVars => CaptionsTyped' /\ Told'
  BY CaptionsStayTyped, StepsTell
<1>3. CaptionsTyped /\ Told => WordsKept
  <2> SUFFICES ASSUME CaptionsTyped, Told, Written
               PROVE  Said(dialogues) = TextOf(HeardOf(segments, script.from, script.to))
    BY DEF WordsKept, HeardOf
  <2>1. PICK d : d = dialogues /\ Drawn(d)
    BY DEF CaptionsTyped, Drawn
  <2>2. PICK left \in Seq(Texted) : left = unwritten /\ left = <<>>
    BY DEF CaptionsTyped, Told, Written
  <2>3. TextOf(left) = <<>>
    <3>1. Texts(Texted)
      BY DEF Texts, Texted
    <3> QED
      BY <2>2, <3>1, TextsJoined
  <2>4. Said(d) \o <<>> = Said(d)
    <3>1. Said(d) \in Seq(Word)
      BY <2>1, SaidJoined DEF Line
    <3> QED
      BY <3>1, ConcatEmptySeq
  <2>5. Said(d) \o TextOf(left) = TextOf(HeardOf(segments, script.from, script.to))
    BY <2>1, <2>2 DEF Told, Written
  <2> QED
    BY <2>1, <2>3, <2>4, <2>5
<1> QED
  BY <1>1, <1>2, <1>3, PTL DEF CaptionSpec

-----------------------------------------------------------------------------
(* The times of captions.  The quotient of two numbers, and its product.   *)
LEMMA Quotient ==
  ASSUME NEW a \in Nat, NEW b \in Nat \ {0}
  PROVE  /\ a \div b \in Nat /\ a % b \in 0..(b - 1)
         /\ a = b * (a \div b) + (a % b)
  OBVIOUS

(* A product grows with a factor.                                          *)
LEMMA Multiplied ==
  ASSUME NEW b \in Nat, NEW x \in Int, NEW y \in Int, x <= y
  PROVE  b * x <= b * y
<1>1. b * (y - x) >= 0
  OBVIOUS
<1>2. b * (y - x) = b * y - b * x
  OBVIOUS
<1>3. b * x \in Int /\ b * y \in Int
  OBVIOUS
<1> QED
  BY <1>1, <1>2, <1>3

(* What a number of halves is rounded to, up or down.                      *)
Rounds(q, n, d) == q \in Int /\ 2 * (d * q) <= 2 * n + d /\ 2 * n + d < 2 * (d * q) + 2 * d
LEMMA NearestRounds ==
  ASSUME NEW n \in Nat, NEW d \in Nat \ {0}
  PROVE  Rounds(Nearest(n, d), n, d) /\ Nearest(n, d) \in Nat
<1>1. PICK q, r : q = (2 * n + d) \div (2 * d) /\ r = (2 * n + d) % (2 * d)
  OBVIOUS
<1>2. q \in Nat /\ r \in 0..(2 * d - 1) /\ 2 * n + d = (2 * d) * q + r
  <2>1. 2 * n + d \in Nat /\ 2 * d \in Nat \ {0}
    OBVIOUS
  <2> QED
    BY <1>1, <2>1, Quotient
<1>3. (2 * d) * q = 2 * (d * q) /\ d * q \in Nat
  BY <1>2
<1> QED
  BY <1>1, <1>2, <1>3 DEF Nearest, Rounds

(* Rounding is monotone, and so there is one result.                       *)
LEMMA RoundingGrows ==
  ASSUME NEW n \in Int, NEW m \in Int, n <= m, NEW d \in Nat \ {0}, NEW q, NEW p, Rounds(q, n, d), Rounds(p, m, d)
  PROVE  q <= p
<1>1. q \in Int /\ p \in Int
  BY DEF Rounds
<1>2. SUFFICES ASSUME p + 1 <= q
               PROVE  FALSE
  BY <1>1
<1>3. d * (p + 1) <= d * q
  BY <1>1, <1>2, Multiplied
<1>4. d * (p + 1) = d * p + d /\ d * p \in Int /\ d * q \in Int
  BY <1>1
<1> QED
  BY <1>3, <1>4 DEF Rounds

LEMMA RoundedOnce ==
  ASSUME NEW n \in Nat, NEW d \in Nat \ {0}, NEW q, Rounds(q, n, d)
  PROVE  Nearest(n, d) = q
<1>1. PICK p \in Int : p = Nearest(n, d) /\ Rounds(p, n, d) /\ q \in Int
  BY NearestRounds DEF Rounds
<1>2. n \in Int /\ n <= n
  OBVIOUS
<1>3. p <= q
  BY <1>1, <1>2, RoundingGrows
<1>4. q <= p
  BY <1>1, <1>2, RoundingGrows
<1> QED
  BY <1>1, <1>3, <1>4

(* What is a whole number of parts is not changed.                         *)
LEMMA RoundedWhole ==
  ASSUME NEW e \in Nat, NEW d \in Nat \ {0}
  PROVE  Nearest(d * e, d) = e
<1>1. d * e \in Nat
  OBVIOUS
<1>2. Rounds(e, d * e, d)
  BY <1>1 DEF Rounds
<1> QED
  BY <1>1, <1>2, RoundedOnce

(* Rounding a sum or its parts differs by one at most.                     *)
LEMMA RoundedSum ==
  ASSUME NEW a \in Nat, NEW b \in Nat, NEW d \in Nat \ {0}
  PROVE  Nearest(a + b, d) - Nearest(a, d) - Nearest(b, d) \in -1..1
<1>1. PICK q \in Nat, p \in Nat, r \in Nat :
        /\ q = Nearest(a + b, d) /\ p = Nearest(a, d) /\ r = Nearest(b, d)
        /\ Rounds(q, a + b, d) /\ Rounds(p, a, d) /\ Rounds(r, b, d)
  BY NearestRounds
<1>2. PICK x, y, z : x = d * q /\ y = d * p /\ z = d * r
  OBVIOUS
<1>3. x \in Int /\ y \in Int /\ z \in Int
  BY <1>2
<1>4. 2 * (x - y - z) < 3 * d /\ 2 * (x - y - z) > -(3 * d)
  BY <1>1, <1>2, <1>3 DEF Rounds
<1>5. d * (q - p - r) = x - y - z
  BY <1>2
<1>6. q - p - r <= 1
  <2> SUFFICES ASSUME 2 <= q - p - r
               PROVE  FALSE
    OBVIOUS
  <2>1. d * 2 <= d * (q - p - r)
    BY Multiplied
  <2> QED
    BY <1>3, <1>4, <1>5, <2>1
<1>7. -1 <= q - p - r
  <2> SUFFICES ASSUME q - p - r <= -2
               PROVE  FALSE
    OBVIOUS
  <2>1. d * (q - p - r) <= d * (-2)
    BY Multiplied
  <2> QED
    BY <1>3, <1>4, <1>5, <2>1
<1> QED
  BY <1>1, <1>6, <1>7

(* A stamp is a valid time, and that of the nearest hundredth of a second. *)
Valid(stamp) == stamp.m < 60 /\ stamp.s < 60 /\ stamp.c < 100
LEMMA StampRight ==
  ASSUME NEW n \in Nat, NEW d \in Nat \ {0}
  PROVE  Valid(Stamp(n, d)) /\ Instant(Stamp(n, d)) = Nearest(n, d)
<1>1. PICK w \in Nat, r \in Nat : w = n \div (100 * d) /\ r = n % (100 * d) /\ r < 100 * d /\ n = (100 * d) * w + r
  <2>1. 100 * d \in Nat \ {0}
    OBVIOUS
  <2>2. n \div (100 * d) \in Nat /\ n % (100 * d) \in 0..(100 * d - 1)
        /\ n = (100 * d) * (n \div (100 * d)) + (n % (100 * d))
    BY <2>1, Quotient
  <2> QED
    BY <2>1, <2>2
<1>2. PICK c \in Nat : c = Nearest(r, d) /\ Rounds(c, r, d)
  BY NearestRounds
<1>3. c <= 100
  <2> SUFFICES ASSUME 101 <= c
               PROVE  FALSE
    BY <1>2
  <2>1. d * 101 <= d * c
    BY Multiplied
  <2>2. d * c \in Int
    OBVIOUS
  <2> QED
    BY <1>1, <1>2, <2>1, <2>2 DEF Rounds
<1>4. Nearest(n, d) = 100 * w + c
  <2>1. d * (100 * w + c) = 100 * (d * w) + d * c /\ (100 * d) * w = 100 * (d * w)
    OBVIOUS
  <2>2. d * w \in Int /\ d * c \in Int /\ d * (100 * w + c) \in Int
    OBVIOUS
  <2>3. Rounds(100 * w + c, n, d)
    BY <1>1, <1>2, <2>1, <2>2 DEF Rounds
  <2> QED
    BY <2>3, RoundedOnce
<1>5. PICK s, m : s = (w % 60) + Carry(c = 100) /\ m = ((w % 3600) \div 60) + Carry(s = 60)
  OBVIOUS
<1>6. PICK p \in Nat, o \in Nat, h \in Nat : /\ p = w % 60 /\ o = (w % 3600) \div 60 /\ h = w \div 3600
                                          /\ w = 3600 * h + 60 * o + p /\ p < 60 /\ o < 60
  OBVIOUS
<1>7. PICK st : /\ st = Stamp(n, d)
                /\ st.h = h + Carry(m = 60) /\ st.m = m % 60 /\ st.s = s % 60 /\ st.c = c % 100
  <2>1. Nearest(n % (100 * d), d) = c /\ n \div (100 * d) = w
    BY <1>1, <1>2
  <2>2. Stamp(n, d).c = c % 100
    BY <2>1 DEF Stamp
  <2>3. Stamp(n, d).s = s % 60
    BY <1>5, <2>1 DEF Stamp
  <2>4. Stamp(n, d).m = m % 60
    BY <1>5, <2>1 DEF Stamp
  <2>5. Stamp(n, d).h = h + Carry(m = 60)
    BY <1>5, <1>6, <2>1 DEF Stamp
  <2> QED
    BY <2>2, <2>3, <2>4, <2>5
<1>8. s = p + Carry(c = 100) /\ m = o + Carry(s = 60)
  BY <1>5, <1>6
<1>9. PICK x \in 0..1, y \in 0..1, z \in 0..1 :
        /\ x = Carry(c = 100) /\ y = Carry(s = 60) /\ z = Carry(m = 60)
        /\ (c = 100 <=> x = 1) /\ (s = 60 <=> y = 1) /\ (m = 60 <=> z = 1)
  BY DEF Carry
<1>10. /\ s = p + x /\ m = o + y
       /\ c % 100 = c - 100 * x /\ s % 60 = s - 60 * y /\ m % 60 = m - 60 * z
       /\ c % 100 < 100 /\ s % 60 < 60 /\ m % 60 < 60
  <2>1. s = p + x /\ m = o + y /\ s \in 0..60 /\ m \in 0..60 /\ c \in 0..100
    BY <1>3, <1>6, <1>8, <1>9
  <2>2. c % 100 = c - 100 * x /\ c % 100 < 100
    BY <1>9, <2>1
  <2>3. s % 60 = s - 60 * y /\ s % 60 < 60
    BY <1>9, <2>1
  <2>4. m % 60 = m - 60 * z /\ m % 60 < 60
    BY <1>9, <2>1
  <2> QED
    BY <2>1, <2>2, <2>3, <2>4
<1>11. 100 * (60 * (60 * (h + z) + (m - 60 * z)) + (s - 60 * y)) + (c - 100 * x) = 100 * w + c
  BY <1>6, <1>10
<1> QED
  BY <1>4, <1>7, <1>9, <1>10, <1>11 DEF Valid, Instant

(* The marks of the words of a caption add up to its time.                 *)
TotalOf(beats, f) ==
  f \in [0..Len(beats) -> Int] /\ f[0] = 0 /\ \A k \in 1..Len(beats) : f[k] = f[k - 1] + beats[k]
LEMMA TotalIs ==
  ASSUME NEW beats \in Seq(Int)
  PROVE  \E f : TotalOf(beats, f) /\ BeatsTotal(beats) = f[Len(beats)]
<1>1. PICK n \in Nat : n = Len(beats) /\ \A k \in 1..n : beats[k] \in Int
  BY ElementsOfSequence
<1> DEFINE h == [k \in 1..n |-> [c \in Int |-> c + beats[k]]]
           D(g) == [k \in 0..n |-> IF k = 0 THEN 0 ELSE g[k - 1] + beats[k]]
           c == CHOOSE g : g = D(g)
<1>2. h \in [1..n -> [Int -> Int]]
  BY <1>1
<1>3. PICK f : Follows(f, n, Int, 0, h)
  <2>1. h \in Rules(n, Int) /\ 0 \in Int
    BY <1>2 DEF Rules
  <2> HIDE DEF h
  <2> QED
    BY <2>1, Recursion
<1>4. TotalOf(beats, f)
  <2>1. f \in [0..n -> Int] /\ f[0] = 0 /\ \A k \in 1..n : f[k] = h[k][f[k - 1]]
    BY <1>3 DEF Follows
  <2>2. ASSUME NEW k \in 1..n
        PROVE  f[k] = f[k - 1] + beats[k]
    <3>1. k - 1 \in 0..n
      OBVIOUS
    <3>2. f[k - 1] \in Int
      BY <2>1, <3>1
    <3> QED
      BY <2>1, <3>2
  <2> QED
    BY <1>1, <2>1, <2>2 DEF TotalOf
<1>5. f = D(f)
  <2>1. \A k \in 0..n : f[k] = D(f)[k]
    BY <1>1, <1>4 DEF TotalOf
  <2> QED
    BY <1>1, <1>4, <2>1 DEF TotalOf
<1>6. c = D(c)
  <2> HIDE DEF D
  <2> QED
    BY <1>5
<1>7. BeatsTotal(beats) = c[n]
  BY <1>1 DEF BeatsTotal
<1>8. c = f
  <2> HIDE DEF c
  <2>1. Counts(f, n) /\ Counts(c, n)
    BY <1>1, <1>4, <1>6 DEF Counts, TotalOf
  <2>2. c[0] = f[0] /\ \A k \in 1..n : c[k] = c[k - 1] + beats[k] /\ f[k] = f[k - 1] + beats[k]
    <3>1. \A k \in 0..n : c[k] = IF k = 0 THEN 0 ELSE c[k - 1] + beats[k]
      BY <1>6
    <3> QED
      BY <1>1, <1>4, <3>1 DEF TotalOf
  <2>3. \A k \in 1..n : c[k - 1] = f[k - 1] => c[k] = f[k]
    BY <2>2
  <2> QED
    BY <2>1, <2>2, <2>3, Counted
<1> QED
  <2> HIDE DEF c
  <2> QED
    BY <1>1, <1>4, <1>7, <1>8

LEMMA BeatsAdd ==
  ASSUME NEW t \in Nat, NEW words, NEW n \in Nat \ {0}, Len(words) = n, DOMAIN words = 1..n
  PROVE  BeatsTotal(Beats(t, words)) = t
<1>1. PICK share \in Nat, rem \in 0..(n - 1) : share = t \div n /\ rem = t % n /\ t = n * share + rem
  <2>1. t \div n \in Nat /\ t % n \in 0..(n - 1) /\ t = n * (t \div n) + (t % n)
    BY Quotient
  <2> QED
    BY <2>1
<1>2. PICK beats : beats = [k \in 1..n |-> share + Carry(k <= rem)]
  OBVIOUS
<1>3. beats = Beats(t, words)
  BY <1>1, <1>2 DEF Beats
<1>4. \A k \in 1..n : beats[k] = (IF k <= rem THEN share + 1 ELSE share) /\ beats[k] \in Int
  BY <1>1, <1>2 DEF Carry
<1>5. beats \in Seq(Int) /\ Len(beats) = n
  BY <1>2, <1>4
<1>6. PICK f : TotalOf(beats, f) /\ BeatsTotal(beats) = f[n]
  BY <1>5, TotalIs
<1>7. f \in [0..n -> Int] /\ f[0] = 0 /\ \A k \in 1..n : f[k] = f[k - 1] + beats[k]
  BY <1>5, <1>6 DEF TotalOf
<1> DEFINE P == {k \in 0..n : f[k] = k * share + (IF k <= rem THEN k ELSE rem)}
<1>8. 0 \in P
  BY <1>1, <1>7
<1>9. ASSUME NEW k \in 1..n, k - 1 \in P
      PROVE  k \in P
  <2>1. f[k - 1] = (k - 1) * share + (IF k - 1 <= rem THEN k - 1 ELSE rem) /\ k \in 0..n
    BY <1>9
  <2>2. PICK x \in Int, y \in Int : x = (k - 1) * share /\ y = k * share /\ y = x + share
    <3>1. (k - 1) * share \in Int /\ k * share \in Int /\ k * share = (k - 1) * share + share
      OBVIOUS
    <3> QED
      BY <3>1
  <2>3. f[k] = f[k - 1] + beats[k]
    BY <1>7
  <2>4. beats[k] = IF k <= rem THEN share + 1 ELSE share
    BY <1>4
  <2>5. f[k - 1] = x + (IF k - 1 <= rem THEN k - 1 ELSE rem)
    BY <2>1, <2>2
  <2>6. f[k] = y + (IF k <= rem THEN k ELSE rem)
    BY <2>2, <2>3, <2>4, <2>5
  <2>7. f[k] = k * share + (IF k <= rem THEN k ELSE rem)
    BY <2>2, <2>6
  <2> QED
    BY <2>1, <2>7
<1>10. n \in P
  <2> HIDE DEF P
  <2>1. \A k \in 0..n : k \in P
    BY <1>8, <1>9, CountUp
  <2> QED
    BY <2>1
<1>11. f[n] = n * share + rem
  BY <1>1, <1>10
<1> QED
  BY <1>1, <1>3, <1>6, <1>11

(* A caption has a word.                                                   *)
LEMMA PageSays ==
  ASSUME NEW page \in Page
  PROVE  \E n \in Nat \ {0} : Len(FlattenSeq(page)) = n /\ DOMAIN FlattenSeq(page) = 1..n
<1>1. page \in Seq(Line) /\ page # <<>> /\ \A k \in 1..Len(page) : page[k] # <<>>
  <2>1. page \in Laid /\ Len(page) \in 1..MaxLines
    BY DEF Page
  <2>2. page \in Seq(Line) /\ \A k \in 1..Len(page) : page[k] \in Fine \/ page[k] \in Spare
    BY <2>1 DEF Laid
  <2> QED
    BY <2>1, <2>2 DEF Fine, Spare
<1>2. PICK front \in Seq(Line), last \in Line : page = Append(front, last) /\ last # <<>>
  <2>1. /\ Len(page) \in Nat \ {0} /\ Front(page) \in Seq(Line) /\ Last(page) \in Line /\ Last(page) = page[Len(page)]
        /\ page = Append(Front(page), Last(page))
    BY <1>1, EndsOf
  <2> QED
    BY <1>1, <2>1
<1>3. PICK u \in Line : u = FlattenSeq(front) /\ FlattenSeq(page) = u \o last
  BY <1>2, LinesJoined
<1>4. Len(u) \in Nat /\ Len(last) \in Nat \ {0} /\ Len(u \o last) = Len(u) + Len(last) /\ u \o last \in Seq(Word)
  BY <1>2, EmptySeq, LenProperties, ConcatProperties DEF Line
<1>5. DOMAIN (u \o last) = 1..Len(u \o last)
  BY <1>4, LenProperties
<1> QED
  BY <1>3, <1>4, <1>5

(* The captions of a segment divide its time, one after the other.         *)
Lasts(d) == Instant(d.to) - Instant(d.from)
Shows(d) ==
  /\ Valid(d.from) /\ Valid(d.to) /\ Instant(d.from) \in Nat /\ Instant(d.to) \in Nat /\ Lasts(d) >= 0
  /\ Karaoke => BeatsTotal(d.beats) - Lasts(d) \in -1..1
ShownAt(d, t) == Instant(d.from) <= t /\ t <= Instant(d.to)
Heardable(seg) == seg \in Texted /\ seg.text # <<>> /\ seg.start >= 0 /\ seg.start < seg.end
LEMMA DialoguesTimed ==
  ASSUME NEW seg, Heardable(seg)
  PROVE  LET d == Dialogues(seg) IN
         /\ DOMAIN d = 1..Len(d) /\ Len(d) \in Nat
         /\ \A i \in 1..Len(d) : Shows(d[i]) /\ seg.start <= Instant(d[i].from) /\ Instant(d[i].to) <= seg.end
         /\ \A i \in 1..Len(d) : \A j \in 1..(i - 1) : Instant(d[j].to) <= Instant(d[i].from)
         /\ \A t \in seg.start..seg.end : \E i \in 1..Len(d) : ShownAt(d[i], t)
<1>1. PICK start \in Nat, length \in Nat \ {0}, end \in Nat :
        start = seg.start /\ end = seg.end /\ length = end - start /\ end = start + length
  BY DEF Heardable, Texted
<1>2. PICK captions \in Seq(Page) : captions = Split(seg.text) /\ Spoken(captions) = seg.text
  BY SplitSpoken DEF Heardable, Texted
<1>3. PICK n \in Nat \ {0} : n = Len(captions) /\ DOMAIN captions = 1..n
  <2>1. captions # <<>>
    BY <1>2, PagesSpoken DEF Heardable
  <2> QED
    BY <2>1, EmptySeq, LenProperties
<1>4. PICK a : a = [i \in 1..(n + 1) |-> n * start + (i - 1) * length]
  OBVIOUS
<1>5. \A i \in 1..(n + 1) : a[i] = n * start + length * (i - 1) /\ a[i] \in Nat
  <2> TAKE i \in 1..(n + 1)
  <2>1. a[i] = n * start + (i - 1) * length /\ i - 1 \in Nat
    BY <1>4
  <2>2. (i - 1) * length = length * (i - 1) /\ (i - 1) * length \in Nat /\ n * start \in Nat
    BY <2>1
  <2> QED
    BY <2>1, <2>2
<1>6. PICK b : b = [i \in 1..(n + 1) |-> Nearest(a[i], n)]
  OBVIOUS
<1>7. \A i \in 1..(n + 1) : b[i] = Nearest(a[i], n) /\ b[i] \in Nat /\ Rounds(b[i], a[i], n)
  BY <1>5, <1>6, NearestRounds
<1>8. \A i \in 1..(n + 1) : \A j \in i..(n + 1) : b[i] <= b[j]
  <2> SUFFICES ASSUME NEW i \in 1..(n + 1), NEW j \in i..(n + 1)
               PROVE  b[i] <= b[j]
    OBVIOUS
  <2>1. length * (i - 1) <= length * (j - 1)
    BY Multiplied
  <2>2. length * (i - 1) \in Nat /\ length * (j - 1) \in Nat /\ n * start \in Nat /\ j \in 1..(n + 1)
    OBVIOUS
  <2>3. a[i] \in Int /\ a[j] \in Int /\ a[i] <= a[j]
    BY <1>5, <2>1, <2>2
  <2> QED
    BY <1>7, <2>2, <2>3, RoundingGrows
<1>9. b[1] = start
  <2>1. a[1] = n * start
    <3>1. 1 \in 1..(n + 1) /\ length * (1 - 1) = 0 /\ n * start \in Nat
      OBVIOUS
    <3> QED
      BY <1>5, <3>1
  <2>2. b[1] = Nearest(a[1], n)
    <3>1. 1 \in 1..(n + 1)
      OBVIOUS
    <3> QED
      BY <1>7, <3>1
  <2>3. Nearest(n * start, n) = start
    BY RoundedWhole
  <2> QED
    BY <2>1, <2>2, <2>3
<1>10. b[n + 1] = end
  <2>1. a[n + 1] = n * end
    <3>1. n + 1 \in 1..(n + 1) /\ n * start + length * ((n + 1) - 1) = n * (start + length)
      OBVIOUS
    <3> QED
      BY <1>1, <1>5, <3>1
  <2>2. n + 1 \in 1..(n + 1)
    OBVIOUS
  <2>3. b[n + 1] = Nearest(a[n + 1], n)
    BY <1>7, <2>2
  <2>4. Nearest(n * end, n) = end
    BY RoundedWhole
  <2> QED
    BY <2>1, <2>3, <2>4
<1>11. PICK d : d = Dialogues(seg)
  OBVIOUS
<1>12. PICK total \in Nat : total = Max({1, Nearest(length, n)}) /\ Nearest(length, n) \in Nat
                            /\ total = IF Nearest(length, n) = 0 THEN 1 ELSE Nearest(length, n)
  <2>1. Nearest(length, n) \in Nat
    BY NearestRounds
  <2> QED
    BY <2>1, MaxMin
<1>13. Len(d) = n /\ DOMAIN d = 1..n
  BY <1>2, <1>3, <1>11, DialoguesAre, LenProperties DEF Heardable
<1>14. /\ \A i \in 1..n : d[i].from = Stamp(a[i], n) /\ d[i].to = Stamp(a[i + 1], n)
       /\ Karaoke => \A i \in 1..n : d[i].beats = Beats(total, FlattenSeq(captions[i]))
  <2>1. \A i \in 1..n : i + 1 \in 1..(n + 1) /\ i \in 1..(n + 1)
    OBVIOUS
  <2>2. \A i \in 1..(n + 1) : a[i] = n * seg.start + (i - 1) * (seg.end - seg.start)
    BY <1>1, <1>4
  <2>3. total = Max({1, Nearest(seg.end - seg.start, n)})
    BY <1>1, <1>12
  <2> QED
    BY <1>2, <1>3, <1>11, <2>1, <2>2, <2>3 DEF Dialogues
<1>15. ASSUME NEW i \in 1..n
       PROVE  /\ i \in 1..(n + 1) /\ i + 1 \in 1..(n + 1) /\ b[i] <= b[i + 1] /\ b[i] \in Nat /\ b[i + 1] \in Nat
              /\ Instant(d[i].from) = b[i] /\ Instant(d[i].to) = b[i + 1] /\ Valid(d[i].from) /\ Valid(d[i].to)
  <2>1. i \in 1..(n + 1) /\ i + 1 \in 1..(n + 1) /\ i + 1 \in i..(n + 1)
    OBVIOUS
  <2>2. a[i] \in Nat /\ a[i + 1] \in Nat
    BY <1>5, <2>1
  <2>3. /\ Instant(Stamp(a[i], n)) = Nearest(a[i], n) /\ Instant(Stamp(a[i + 1], n)) = Nearest(a[i + 1], n)
        /\ Valid(Stamp(a[i], n)) /\ Valid(Stamp(a[i + 1], n))
    BY <2>2, StampRight
  <2>4. b[i] = Nearest(a[i], n) /\ b[i + 1] = Nearest(a[i + 1], n) /\ b[i] \in Nat /\ b[i + 1] \in Nat
    BY <1>7, <2>1
  <2>5. b[i] <= b[i + 1]
    BY <1>8, <2>1
  <2>6. d[i].from = Stamp(a[i], n) /\ d[i].to = Stamp(a[i + 1], n)
    BY <1>14
  <2> QED
    BY <2>1, <2>3, <2>4, <2>5, <2>6
<1>16. ASSUME NEW i \in 1..n, Karaoke
       PROVE  BeatsTotal(d[i].beats) - (b[i + 1] - b[i]) \in -1..1
  <2>1. PICK m \in Nat \ {0} : Len(FlattenSeq(captions[i])) = m /\ DOMAIN FlattenSeq(captions[i]) = 1..m
    <3>1. captions[i] \in Page
      BY <1>3, ElementOfSeq
    <3> QED
      BY <3>1, PageSays
  <2>2. BeatsTotal(d[i].beats) = total
    <3>1. PICK words : words = FlattenSeq(captions[i])
      OBVIOUS
    <3>2. BeatsTotal(Beats(total, words)) = total
      BY <2>1, <3>1, BeatsAdd
    <3>3. d[i].beats = Beats(total, words)
      BY <1>14, <1>16, <3>1
    <3> QED
      BY <3>2, <3>3
  <2>3. a[i + 1] = a[i] + length /\ a[i] \in Nat
    <3>1. length * ((i + 1) - 1) = length * (i - 1) + length /\ length * (i - 1) \in Nat /\ n * start \in Nat
      OBVIOUS
    <3>2. i \in 1..(n + 1) /\ i + 1 \in 1..(n + 1)
      BY <1>15
    <3>3. a[i] = n * start + length * (i - 1) /\ a[i] \in Nat
      BY <1>5, <3>2
    <3>4. a[i + 1] = n * start + length * ((i + 1) - 1)
      BY <1>5, <3>2
    <3> QED
      BY <3>1, <3>3, <3>4
  <2>4. b[i + 1] - b[i] - Nearest(length, n) \in -1..1
    <3>1. i \in 1..(n + 1) /\ i + 1 \in 1..(n + 1)
      BY <1>15
    <3>2. b[i] = Nearest(a[i], n) /\ b[i + 1] = Nearest(a[i] + length, n)
      BY <1>7, <2>3, <3>1
    <3>3. Nearest(a[i] + length, n) - Nearest(a[i], n) - Nearest(length, n) \in -1..1
      BY <2>3, RoundedSum
    <3> QED
      BY <3>2, <3>3
  <2>5. PICK x \in Nat, y \in Nat, z \in Nat : x = b[i] /\ y = b[i + 1] /\ z = Nearest(length, n) /\ x <= y
    BY <1>12, <1>15
  <2>6. y - x - z \in -1..1 /\ total = IF z = 0 THEN 1 ELSE z
    BY <1>12, <2>4, <2>5
  <2>7. total - (y - x) \in -1..1
    <3>1. -1 <= y - x - z /\ y - x - z <= 1 /\ 0 <= y - x
      <4>1. PICK v \in Int : v = y - x - z /\ 0 <= y - x
        BY <2>5
      <4>2. v \in -1..1
        BY <2>6, <4>1
      <4>3. -1 <= v /\ v <= 1
        BY <4>2
      <4> QED
        BY <4>1, <4>3
    <3>2. CASE z = 0
      BY <2>6, <3>1, <3>2
    <3>3. CASE z # 0
      BY <2>6, <3>1, <3>3
    <3> QED
      BY <3>2, <3>3
  <2> QED
    BY <2>2, <2>5, <2>7
<1>17. \A i \in 1..n : Shows(d[i]) /\ start <= Instant(d[i].from) /\ Instant(d[i].to) <= end
  <2> TAKE i \in 1..n
  <2>1. 1 \in 1..(n + 1) /\ i \in 1..(n + 1) /\ n + 1 \in (i + 1)..(n + 1)
    OBVIOUS
  <2>2. b[1] <= b[i] /\ b[i + 1] <= b[n + 1]
    BY <1>8, <1>15, <2>1
  <2> QED
    BY <1>9, <1>10, <1>15, <1>16, <2>2 DEF Shows, Lasts
<1>18. \A i \in 1..n : \A j \in 1..(i - 1) : Instant(d[j].to) <= Instant(d[i].from)
  <2> SUFFICES ASSUME NEW i \in 1..n, NEW j \in 1..(i - 1)
               PROVE  Instant(d[j].to) <= Instant(d[i].from)
    OBVIOUS
  <2>1. j \in 1..n /\ j + 1 \in 1..(n + 1) /\ i \in (j + 1)..(n + 1)
    OBVIOUS
  <2> QED
    BY <1>8, <1>15, <2>1
<1>19. ASSUME NEW t \in start..end
       PROVE  \E i \in 1..n : ShownAt(d[i], t)
  <2>1. PICK C : C = {i \in 1..n : b[i] <= t}
    OBVIOUS
  <2>2. C \subseteq 1..n /\ 1 \in C
    BY <1>9, <2>1
  <2>3. PICK i \in C : \A k \in 1..n : k > i => k \notin C
    BY <2>2, LastPlace
  <2>4. i \in 1..n /\ b[i] <= t
    BY <2>1
  <2>5. t <= b[i + 1]
    <3>1. CASE i = n
      BY <1>10, <3>1
    <3>2. CASE i # n
      <4>1. i + 1 \in 1..n /\ i + 1 > i
        BY <2>4, <3>2
      <4>2. i + 1 \notin C /\ b[i + 1] \in Nat
        BY <1>15, <2>3, <2>4, <4>1
      <4> QED
        BY <2>1, <4>1, <4>2
    <3> QED
      BY <3>1, <3>2
  <2> QED
    BY <1>15, <2>4, <2>5 DEF ShownAt
<1> QED
  BY <1>1, <1>11, <1>13, <1>17, <1>18, <1>19

(* What is chosen of a sequence are its elements at the places, in order.  *)
Picks(p, s, t, m, places) ==
  /\ p \in [1..Len(s) -> 1..m]
  /\ \A i \in 1..Len(s) : s[i] = t[p[i]] /\ p[i] \in places
  /\ \A i \in 1..Len(s) : \A j \in 1..(i - 1) : p[j] < p[i]
  /\ \A k \in 1..m : k \in places => \E i \in 1..Len(s) : p[i] = k
LEMMA ChosenPlaces ==
  ASSUME NEW T, NEW t \in Seq(T), NEW places
  PROVE  Len(Chosen(t, places)) \in Nat /\ \E p : Picks(p, Chosen(t, places), t, Len(t), places)
<1>1. PICK n \in Nat : n = Len(t) /\ \A k \in 1..n : t[k] \in T
  <2>1. Len(t) \in Nat /\ \A k \in 1..Len(t) : t[k] \in T
    BY ElementsOfSequence
  <2> QED
    BY <2>1
<1>2. PICK c : ChosenOf(t, places, T, c) /\ Chosen(t, places) = c[n]
  BY <1>1, ChosenAre
<1>3. /\ c[0] = <<>> /\ \A k \in 0..n : c[k] \in Seq(T)
      /\ \A k \in 1..n : c[k] = AddIf(k \in places, c[k - 1], t[k])
  BY <1>1, <1>2 DEF ChosenOf
<1> DEFINE P == {k \in 0..n : \E p : Picks(p, c[k], t, k, places)}
<1>4. 0 \in P
  <2>1. PICK p : p = [i \in 1..0 |-> 0]
    OBVIOUS
  <2>2. Len(c[0]) = 0 /\ p \in [1..0 -> 1..0]
    BY <1>3, <2>1
  <2>3. Picks(p, c[0], t, 0, places)
    BY <2>2 DEF Picks
  <2> QED
    BY <2>3
<1>5. ASSUME NEW k \in 1..n, k - 1 \in P
      PROVE  k \in P
  <2>1. PICK p : Picks(p, c[k - 1], t, k - 1, places)
    BY <1>5
  <2>2. PICK s \in Seq(T) : s = c[k - 1]
    <3>1. k - 1 \in 0..n
      OBVIOUS
    <3> QED
      BY <1>3, <3>1
  <2>3. PICK m \in Nat : m = Len(s) /\ DOMAIN s = 1..m
    BY <2>2, ElementsOfSequence
  <2>4. /\ p \in [1..m -> 1..(k - 1)] /\ \A i \in 1..m : s[i] = t[p[i]] /\ p[i] \in places
        /\ \A i \in 1..m : \A j \in 1..(i - 1) : p[j] < p[i]
        /\ \A l \in 1..(k - 1) : l \in places => \E i \in 1..m : p[i] = l
    BY <2>1, <2>2, <2>3 DEF Picks
  <2>5. \A i \in 1..m : p[i] \in 1..k /\ p[i] < k
    BY <2>4
  <2>6. CASE k \notin places
    <3>1. c[k] = s
      BY <1>3, <2>2, <2>6 DEF AddIf
    <3>2. p \in [1..m -> 1..k]
      BY <2>4, <2>5
    <3>3. \A l \in 1..k : l \in places => \E i \in 1..m : p[i] = l
      <4> SUFFICES ASSUME NEW l \in 1..k, l \in places
                   PROVE  \E i \in 1..m : p[i] = l
        OBVIOUS
      <4>1. l # k
        BY <2>6
      <4>2. l \in 1..(k - 1)
        BY <4>1
      <4> QED
        BY <2>4, <4>2
    <3>4. Picks(p, s, t, k, places)
      BY <2>3, <2>4, <3>2, <3>3 DEF Picks
    <3> QED
      BY <3>1, <3>4
  <2>7. CASE k \in places
    <3>1. PICK r : r = Append(s, t[k]) /\ r = c[k]
      BY <1>3, <2>2, <2>7 DEF AddIf
    <3>2. Len(r) = m + 1 /\ r[m + 1] = t[k] /\ \A i \in 1..m : r[i] = s[i]
      <4>1. t[k] \in T
        BY <1>1
      <4>2. /\ Len(Append(s, t[k])) = Len(s) + 1 /\ Append(s, t[k])[Len(s) + 1] = t[k]
            /\ \A i \in 1..Len(s) : Append(s, t[k])[i] = s[i]
        BY <2>2, <4>1, AppendProperties
      <4> QED
        BY <2>3, <3>1, <4>2
    <3>3. PICK q : q = [i \in 1..(m + 1) |-> IF i = m + 1 THEN k ELSE p[i]]
      OBVIOUS
    <3>4. \A i \in 1..(m + 1) : i = m + 1 \/ i \in 1..m
      OBVIOUS
    <3>5. q[m + 1] = k /\ \A i \in 1..m : q[i] = p[i]
      BY <3>3
    <3>6. q \in [1..(m + 1) -> 1..k]
      BY <2>5, <3>3, <3>4
    <3>7. \A i \in 1..(m + 1) : r[i] = t[q[i]] /\ q[i] \in places
      BY <2>4, <2>7, <3>2, <3>4, <3>5
    <3>8. \A i \in 1..(m + 1) : \A j \in 1..(i - 1) : q[j] < q[i]
      <4> SUFFICES ASSUME NEW i \in 1..(m + 1), NEW j \in 1..(i - 1)
                   PROVE  q[j] < q[i]
        OBVIOUS
      <4>1. j \in 1..m
        OBVIOUS
      <4>2. CASE i = m + 1
        BY <2>5, <3>5, <4>1, <4>2
      <4>3. CASE i \in 1..m
        BY <2>4, <3>5, <4>1, <4>3
      <4> QED
        BY <3>4, <4>2, <4>3
    <3>9. \A l \in 1..k : l \in places => \E i \in 1..(m + 1) : q[i] = l
      <4> SUFFICES ASSUME NEW l \in 1..k, l \in places
                   PROVE  \E i \in 1..(m + 1) : q[i] = l
        OBVIOUS
      <4>1. CASE l = k
        BY <3>5, <4>1
      <4>2. CASE l # k
        <5>1. PICK i \in 1..m : p[i] = l
          BY <2>4, <4>2
        <5> QED
          BY <3>5, <5>1
      <4> QED
        BY <4>1, <4>2
    <3>10. Picks(q, r, t, k, places)
      BY <3>2, <3>6, <3>7, <3>8, <3>9 DEF Picks
    <3> QED
      BY <3>1, <3>10
  <2> QED
    BY <2>6, <2>7
<1>6. n \in P
  <2> HIDE DEF P
  <2>1. \A k \in 0..n : k \in P
    BY <1>4, <1>5, CountUp
  <2> QED
    BY <2>1
<1>7. Len(c[n]) \in Nat
  BY <1>3, ElementsOfSequence
<1> QED
  BY <1>1, <1>2, <1>6, <1>7

(* Merged cues: each says something, none begins before an earlier one, or *)
(* before its end but for the threshold, and each cue of a file so far is  *)
(* covered by one.                                                         *)
Says(cues) == \A i \in 1..Len(cues) : cues[i].text # <<>>
Ordered(cues) == \A i \in 1..Len(cues) : \A j \in 1..(i - 1) : cues[j].start <= cues[i].start
Apart(cues) == \A i \in 1..Len(cues) : \A j \in 1..(i - 1) : cues[j].end - cues[i].start <= OverlapThreshold
Covers(cues, cue) ==
  \E j \in 1..Len(cues) : cues[j].text # <<>> /\ cues[j].start <= cue.start /\ cue.end <= cues[j].end
Merges(kept, cues, k) ==
  /\ kept \in Seq(Cue) /\ Says(kept) /\ Apart(kept)
  /\ \A i \in 1..Len(kept) : \A l \in k..Len(cues) : kept[i].start <= cues[l].start
  /\ \A l \in 1..k : Covers(kept, cues[l])
LEMMA CueCovered ==
  ASSUME NEW cues \in Seq(Cue), Says(cues), Ordered(cues), NEW k \in 1..Len(cues),
         NEW kept, Merges(kept, cues, k - 1)
  PROVE  Merges(MergeCue(kept, cues[k]), cues, k)
<1>1. PICK n \in Nat : n = Len(cues) /\ \A i \in 1..n : cues[i] \in Cue /\ cues[i].text # <<>>
  BY ElementsOfSequence DEF Says
<1>2. PICK cue \in Cue : cue = cues[k] /\ cue.text # <<>> /\ cue.start \in Nat /\ cue.end \in Nat
  BY <1>1 DEF Cue
<1>3. \A l \in k..n : cue.start <= cues[l].start
  <2> TAKE l \in k..n
  <2>1. CASE l = k
    BY <1>2, <2>1
  <2>2. CASE l # k
    <3>1. l \in 1..n /\ k \in 1..(l - 1)
      BY <1>1, <2>2
    <3> QED
      BY <1>1, <1>2, <3>1 DEF Ordered
  <2> QED
    BY <2>1, <2>2
<1>4. PICK m \in Nat : m = Len(kept) /\ kept \in Seq(Cue) /\ \A i \in 1..m : kept[i] \in Cue
  BY ElementsOfSequence DEF Merges
<1>5. \A i \in 1..m : kept[i].start \in Nat /\ kept[i].end \in Nat
  BY <1>4 DEF Cue
<1>6. /\ \A i \in 1..m : kept[i].text # <<>> /\ kept[i].start <= cue.start
      /\ \A i \in 1..m : \A l \in k..n : kept[i].start <= cues[l].start
      /\ \A i \in 1..m : \A j \in 1..(i - 1) : kept[j].end - kept[i].start <= OverlapThreshold
      /\ \A l \in 1..(k - 1) : \E j \in 1..m :
           kept[j].text # <<>> /\ kept[j].start <= cues[l].start /\ cues[l].end <= kept[j].end
  <2>1. k \in (k - 1)..n /\ \A l \in k..n : l \in (k - 1)..n
    BY <1>1
  <2> QED
    BY <1>1, <1>2, <1>4, <2>1 DEF Merges, Says, Apart, Covers
<1>7. PICK r : r = MergeCue(kept, cue)
  OBVIOUS
<1>8. r \in Seq(Cue)
  BY <1>4, <1>7, CueMerged
<1>9. CASE kept # <<>> /\ Repeats(Last(kept), cue)
  <2>1. PICK front \in Seq(Cue), last \in Cue :
          /\ front = Front(kept) /\ last = Last(kept) /\ last = kept[m] /\ m \in Nat \ {0}
          /\ Len(front) = m - 1 /\ \A i \in 1..(m - 1) : front[i] = kept[i]
    BY <1>4, <1>9, EndsOf
  <2>2. PICK to \in Nat : to = Max({last.end, cue.end}) /\ last.end <= to /\ cue.end <= to
    <3>1. last.end \in Nat
      BY DEF Cue
    <3> QED
      BY <1>2, <3>1, MaxMin
  <2>3. PICK e : e = [last EXCEPT !.end = to]
    OBVIOUS
  <2>4. e \in Cue /\ e.start = last.start /\ e.text = last.text /\ e.end = to
    BY <2>3 DEF Cue
  <2>5. r = Append(front, e)
    BY <1>7, <1>9, <2>1, <2>2, <2>3 DEF MergeCue
  <2>6. Len(r) = m /\ r[m] = e /\ \A i \in 1..(m - 1) : r[i] = kept[i]
    <3>1. Len(Append(front, e)) = Len(front) + 1 /\ Append(front, e)[Len(front) + 1] = e
          /\ \A i \in 1..Len(front) : Append(front, e)[i] = front[i]
      BY <2>4, AppendProperties
    <3> QED
      BY <2>1, <2>5, <3>1
  <2>7. /\ \A i \in 1..m : r[i].text = kept[i].text /\ r[i].start = kept[i].start /\ kept[i].end <= r[i].end
        /\ \A i \in 1..(m - 1) : r[i].end = kept[i].end
    <3> SUFFICES ASSUME NEW i \in 1..m
                 PROVE  /\ r[i].text = kept[i].text /\ r[i].start = kept[i].start /\ kept[i].end <= r[i].end
      BY <2>6
    <3>1. CASE i = m
      BY <2>1, <2>2, <2>4, <2>6, <3>1
    <3>2. CASE i # m
      <4>1. i \in 1..(m - 1) /\ kept[i].end \in Nat
        BY <1>5, <3>2
      <4> QED
        BY <2>6, <4>1
    <3> QED
      BY <3>1, <3>2
  <2>8. Says(r)
    BY <1>6, <2>6, <2>7 DEF Says
  <2>9. Apart(r)
    <3> SUFFICES ASSUME NEW i \in 1..m, NEW j \in 1..(i - 1)
                 PROVE  r[j].end - r[i].start <= OverlapThreshold
      BY <2>6 DEF Apart
    <3>1. j \in 1..(m - 1)
      OBVIOUS
    <3>2. r[j].end = kept[j].end /\ r[i].start = kept[i].start
      BY <2>7, <3>1
    <3>3. kept[j].end - kept[i].start <= OverlapThreshold
      BY <1>6
    <3> QED
      BY <3>2, <3>3
  <2>10. \A i \in 1..Len(r) : \A l \in k..n : r[i].start <= cues[l].start
    BY <1>6, <2>6, <2>7
  <2>11. ASSUME NEW l \in 1..k
         PROVE  Covers(r, cues[l])
    <3>1. CASE l = k
      <4>1. m \in 1..m /\ r[m].text # <<>> /\ r[m].start <= cue.start /\ cue.end <= r[m].end
        BY <1>6, <2>1, <2>2, <2>4, <2>6, <2>7
      <4> QED
        BY <1>2, <2>6, <3>1, <4>1 DEF Covers
    <3>2. CASE l # k
      <4>1. l \in 1..(k - 1) /\ l \in 1..n
        BY <1>1, <3>2
      <4>2. PICK j \in 1..m : kept[j].text # <<>> /\ kept[j].start <= cues[l].start /\ cues[l].end <= kept[j].end
        BY <1>6, <4>1
      <4>3. r[j].text # <<>> /\ r[j].start <= cues[l].start
        BY <2>7, <4>2
      <4>4. cues[l].end <= r[j].end
        <5>1. cues[l].end \in Nat
          BY <1>1, <4>1 DEF Cue
        <5>2. kept[j].end \in Nat /\ r[j].end \in Nat /\ kept[j].end <= r[j].end
          <6>1. r[j] \in Cue
            BY <1>8, <2>6, ElementOfSeq
          <6> QED
            BY <1>5, <2>7, <6>1 DEF Cue
        <5>3. PICK x \in Nat, y \in Nat, z \in Nat : x = cues[l].end /\ y = kept[j].end /\ z = r[j].end
          BY <5>1, <5>2
        <5>4. x <= y /\ y <= z
          BY <4>2, <5>2, <5>3
        <5>5. x <= z
          BY <5>4
        <5> QED
          BY <5>3, <5>5
      <4> QED
        BY <2>6, <4>3, <4>4 DEF Covers
    <3> QED
      BY <3>1, <3>2
  <2> QED
    BY <1>1, <1>2, <1>7, <1>8, <2>8, <2>9, <2>10, <2>11 DEF Merges
<1>10. CASE ~(kept # <<>> /\ Repeats(Last(kept), cue))
  <2>1. r = Append(kept, cue)
    BY <1>7, <1>10 DEF MergeCue
  <2>2. Len(r) = m + 1 /\ r[m + 1] = cue /\ \A i \in 1..m : r[i] = kept[i]
    <3>1. Len(Append(kept, cue)) = Len(kept) + 1 /\ Append(kept, cue)[Len(kept) + 1] = cue
          /\ \A i \in 1..Len(kept) : Append(kept, cue)[i] = kept[i]
      BY <1>4, AppendProperties
    <3> QED
      BY <1>4, <2>1, <3>1
  <2>3. \A i \in 1..(m + 1) : i = m + 1 \/ i \in 1..m
    OBVIOUS
  <2>4. Says(r)
    BY <1>2, <1>6, <2>2, <2>3 DEF Says
  <2>5. ASSUME NEW j \in 1..m
        PROVE  kept[j].end - cue.start <= OverlapThreshold
    <3>1. kept # <<>> /\ Last(kept) = kept[m] /\ m \in 1..m
      <4>1. kept # <<>>
        BY <1>4, EmptySeq
      <4> QED
        <5>1. Last(kept) = kept[Len(kept)]
          BY <1>4, <4>1, EndsOf
        <5> QED
          BY <1>4, <4>1, <5>1
    <3>2. kept[m].end - cue.start <= OverlapThreshold
      <4>1. ~(kept[m].end - cue.start > OverlapThreshold)
        BY <1>10, <3>1 DEF Repeats
      <4>2. kept[m].end - cue.start \in Int /\ OverlapThreshold \in Nat
        BY <1>2, <1>5, <3>1, CaptionsAssumption
      <4> QED
        BY <4>1, <4>2
    <3>3. CASE j = m
      BY <3>2, <3>3
    <3>4. CASE j # m
      <4>1. j \in 1..(m - 1)
        BY <3>4
      <4>2. kept[j].end - kept[m].start <= OverlapThreshold
        BY <1>6, <3>1, <4>1
      <4>3. kept[m].start <= cue.start
        BY <1>6, <3>1
      <4>4. kept[j].end \in Nat /\ kept[m].start \in Nat /\ OverlapThreshold \in Nat
        BY <1>5, <3>1, CaptionsAssumption
      <4> QED
        BY <1>2, <4>2, <4>3, <4>4
    <3> QED
      BY <3>3, <3>4
  <2>6. Apart(r)
    <3> SUFFICES ASSUME NEW i \in 1..(m + 1), NEW j \in 1..(i - 1)
                 PROVE  r[j].end - r[i].start <= OverlapThreshold
      BY <2>2 DEF Apart
    <3>1. j \in 1..m /\ r[j] = kept[j]
      BY <2>2
    <3>2. CASE i = m + 1
      BY <2>2, <2>5, <3>1, <3>2
    <3>3. CASE i \in 1..m
      <4>1. r[i] = kept[i]
        BY <2>2, <3>3
      <4>2. kept[j].end - kept[i].start <= OverlapThreshold
        BY <1>6, <3>3
      <4> QED
        BY <3>1, <4>1, <4>2
    <3> QED
      BY <2>3, <3>2, <3>3
  <2>7. \A i \in 1..Len(r) : \A l \in k..n : r[i].start <= cues[l].start
    BY <1>3, <1>6, <2>2, <2>3
  <2>8. ASSUME NEW l \in 1..k
        PROVE  Covers(r, cues[l])
    <3>1. CASE l = k
      <4>1. m + 1 \in 1..(m + 1) /\ cue.start <= cue.start /\ cue.end <= cue.end
        BY <1>2
      <4> QED
        BY <1>2, <2>2, <3>1, <4>1 DEF Covers
    <3>2. CASE l # k
      <4>1. l \in 1..(k - 1)
        BY <3>2
      <4>2. PICK j \in 1..m : kept[j].text # <<>> /\ kept[j].start <= cues[l].start /\ cues[l].end <= kept[j].end
        BY <1>6, <4>1
      <4>3. j \in 1..(m + 1) /\ r[j] = kept[j]
        BY <2>2
      <4> QED
        BY <2>2, <4>2, <4>3 DEF Covers
    <3> QED
      BY <3>1, <3>2
  <2> QED
    BY <1>1, <1>2, <1>7, <1>8, <2>4, <2>6, <2>7, <2>8 DEF Merges
<1> QED
  BY <1>2, <1>7, <1>9, <1>10

(* The cues of a file are covered by the merged ones.                      *)
LEMMA MergedCover ==
  ASSUME NEW cues \in Seq(Cue), Says(cues), Ordered(cues)
  PROVE  Merges(MergedCues(cues), cues, Len(cues))
<1>1. PICK n \in Nat : n = Len(cues)
  BY ElementsOfSequence
<1>2. PICK c : MergedOf(cues, c) /\ MergedCues(cues) = c[n]
  BY <1>1, MergedAre
<1>3. c[0] = <<>> /\ c[0] \in Seq(Cue) /\ \A k \in 1..n : c[k] = MergeCue(c[k - 1], cues[k])
  BY <1>1, <1>2 DEF MergedOf
<1> DEFINE P == {k \in 0..n : Merges(c[k], cues, k)}
<1>4. 0 \in P
  <2>1. Len(c[0]) = 0
    BY <1>3
  <2>2. Merges(c[0], cues, 0)
    BY <1>3, <2>1 DEF Merges, Says, Apart
  <2> QED
    BY <2>2
<1>5. ASSUME NEW k \in 1..n, k - 1 \in P
      PROVE  k \in P
  <2>1. Merges(c[k - 1], cues, k - 1)
    BY <1>5
  <2>2. Merges(MergeCue(c[k - 1], cues[k]), cues, k)
    BY <1>1, <2>1, CueCovered
  <2> QED
    BY <1>3, <2>2
<1>6. n \in P
  <2> HIDE DEF P
  <2>1. \A k \in 0..n : k \in P
    BY <1>4, <1>5, CountUp
  <2> QED
    BY <2>1
<1> QED
  BY <1>1, <1>2, <1>6

(* The segments of a transcript cover the cues that say something, and     *)
(* those of merged cues are apart.                                         *)
Parsed(segs, s) ==
  /\ \A k \in 1..Len(s.cues) : s.cues[k].text # <<>> => Covers(segs, s.cues[k])
  /\ s.source = "vtt" => Apart(segs)
LEMMA CuesParsed ==
  ASSUME CuesInOrder, NEW s \in Scripts, NEW segs,
         segs = CASE s.source = "vtt" -> MergedCues(Worded(s.cues))
                  [] s.source = "srt" -> Worded(s.cues)
                  [] OTHER -> s.cues
  PROVE  Parsed(segs, s)
<1>1. PICK cues \in Seq(Cue) : cues = s.cues
  BY ScriptsTyped
<1>2. PICK n \in Nat : n = Len(cues) /\ DOMAIN cues = 1..n /\ \A k \in 1..n : cues[k] \in Cue
  BY ElementsOfSequence
<1>3. PICK worded \in Seq(Cue) : worded = Worded(cues)
  BY ChosenTyped DEF Worded
<1>4. PICK places : places = {i \in DOMAIN cues : cues[i].text # <<>>}
  OBVIOUS
<1>m. PICK m \in Nat : m = Len(worded)
  BY ElementsOfSequence
<1>5. PICK p : m = Len(worded) /\ Picks(p, worded, cues, n, places)
  <2>1. worded = Chosen(cues, places)
    BY <1>3, <1>4 DEF Worded
  <2> QED
    BY <1>2, <1>m, <2>1, ChosenPlaces
<1>6. /\ p \in [1..m -> 1..n] /\ \A i \in 1..m : worded[i] = cues[p[i]] /\ cues[p[i]].text # <<>>
      /\ \A i \in 1..m : \A j \in 1..(i - 1) : p[j] < p[i]
      /\ \A k \in 1..n : cues[k].text # <<>> => \E i \in 1..m : p[i] = k
  BY <1>2, <1>4, <1>5 DEF Picks
<1>7. Says(worded)
  BY <1>5, <1>6 DEF Says
<1>8. ASSUME NEW k \in 1..n, cues[k].text # <<>>
      PROVE  \E i \in 1..m : worded[i] = cues[k]
  BY <1>6, <1>8
<1>9. \A c \in Cue : c.start <= c.start /\ c.end <= c.end
  BY DEF Cue
<1>10. CASE s.source = "vtt"
  <2>1. Ordered(worded)
    <3> SUFFICES ASSUME NEW i \in 1..m, NEW j \in 1..(i - 1)
                 PROVE  worded[j].start <= worded[i].start
      BY <1>5 DEF Ordered
    <3>1. PICK k \in 1..n, l \in 1..n : k = p[i] /\ l = p[j] /\ l \in 1..(k - 1)
      <4>1. j \in 1..m
        OBVIOUS
      <4>2. p[i] \in 1..n /\ p[j] \in 1..n /\ p[j] < p[i]
        BY <1>6, <4>1
      <4> QED
        BY <4>2
    <3>2. cues[l].start <= cues[k].start
      <4>1. \A a \in DOMAIN s.cues : \A b \in 1..(a - 1) : s.cues[b].start <= s.cues[a].start
        BY <1>10 DEF CuesInOrder
      <4> QED
        BY <1>1, <1>2, <3>1, <4>1
    <3>3. worded[i] = cues[k] /\ worded[j] = cues[l]
      <4>1. j \in 1..m
        OBVIOUS
      <4> QED
        BY <1>6, <3>1, <4>1
    <3> QED
      BY <3>2, <3>3
  <2>2. Merges(MergedCues(worded), worded, m)
    BY <1>5, <1>7, <2>1, MergedCover
  <2>3. segs = MergedCues(worded)
    BY <1>1, <1>3, <1>10
  <2>4. Apart(segs) /\ \A i \in 1..m : Covers(segs, worded[i])
    BY <2>2, <2>3 DEF Merges
  <2>5. \A k \in 1..n : cues[k].text # <<>> => Covers(segs, cues[k])
    BY <1>8, <2>4
  <2> QED
    BY <1>1, <1>2, <2>4, <2>5 DEF Parsed
<1>11. CASE s.source = "srt"
  <2>1. segs = worded
    BY <1>1, <1>3, <1>11
  <2>2. ASSUME NEW k \in 1..n, cues[k].text # <<>>
        PROVE  Covers(segs, cues[k])
    <3>1. PICK i \in 1..m : worded[i] = cues[k]
      BY <1>8, <2>2
    <3>2. cues[k].start <= cues[k].start /\ cues[k].end <= cues[k].end
      BY <1>2, <1>9
    <3> QED
      BY <1>5, <2>1, <2>2, <3>1, <3>2 DEF Covers
  <2> QED
    BY <1>1, <1>2, <1>11, <2>2 DEF Parsed
<1>12. CASE s.source # "vtt" /\ s.source # "srt"
  <2>1. segs = cues
    BY <1>1, <1>12
  <2>2. ASSUME NEW k \in 1..n, cues[k].text # <<>>
        PROVE  Covers(segs, cues[k])
    <3>1. cues[k].start <= cues[k].start /\ cues[k].end <= cues[k].end
      BY <1>2, <1>9
    <3> QED
      BY <1>2, <2>1, <2>2, <3>1 DEF Covers
  <2> QED
    BY <1>1, <1>2, <1>12, <2>2 DEF Parsed
<1> QED
  BY <1>10, <1>11, <1>12

(* A segment in the time of a clip: when it begins and ends there.         *)
BeginsAt(seg, from) == Max({seg.start, from}) - from
EndsAt(seg, from, to) == Min({seg.end, to}) - from
LEMMA LocalTimes ==
  ASSUME NEW seg \in Cue, NEW from \in Nat, NEW to \in Nat
  PROVE  /\ BeginsAt(seg, from) \in Nat /\ EndsAt(seg, from, to) \in Int /\ EndsAt(seg, from, to) <= to - from
         /\ BeginsAt(seg, from) = (IF seg.start >= from THEN seg.start ELSE from) - from
         /\ EndsAt(seg, from, to) = (IF seg.end <= to THEN seg.end ELSE to) - from
         /\ Heard(seg, from, to) <=> BeginsAt(seg, from) < EndsAt(seg, from, to)
         /\ Local(seg, from, to)
              = [start |-> BeginsAt(seg, from), end |-> EndsAt(seg, from, to), text |-> seg.text]
         /\ Local(seg, from, to) \in Texted
<1>1. seg.start \in Nat /\ seg.end \in Nat /\ seg.text \in Line
  BY DEF Cue, Line
<1>2. PICK first \in Nat, last \in Nat : first = seg.start /\ last = seg.end
  BY <1>1
<1>3. PICK a \in Nat, b \in Int :
        /\ a = Max({first, from}) /\ a = (IF first >= from THEN first ELSE from)
        /\ b = Min({last, to}) /\ b = (IF last <= to THEN last ELSE to)
  <2>0. first \in Int /\ last \in Int /\ from \in Int /\ to \in Int
    OBVIOUS
  <2>1. Max({first, from}) = (IF first >= from THEN first ELSE from)
    BY <2>0, MaxMin
  <2>2. Min({last, to}) = (IF last <= to THEN last ELSE to)
    BY <2>0, MaxMin
  <2> QED
    BY <2>1, <2>2
<1>4. BeginsAt(seg, from) = a - from /\ EndsAt(seg, from, to) = b - from
  BY <1>2, <1>3 DEF BeginsAt, EndsAt
<1>5. a - from \in Nat /\ b - from \in Int /\ b - from <= to - from /\ (a < b <=> a - from < b - from)
  BY <1>3
<1>6. Heard(seg, from, to) <=> a < b
  BY <1>2, <1>3 DEF Heard
<1>7. Local(seg, from, to) = [start |-> a - from, end |-> b - from, text |-> seg.text]
  <2>1. Local(seg, from, to) = [seg EXCEPT !.start = a - from, !.end = b - from]
    BY <1>2, <1>3 DEF Local
  <2> QED
    BY <2>1 DEF Cue
<1>8. Local(seg, from, to) \in Texted
  BY <1>1, <1>5, <1>7 DEF Texted
<1>9. Heard(seg, from, to) <=> BeginsAt(seg, from) < EndsAt(seg, from, to)
  BY <1>4, <1>5, <1>6
<1>10. /\ BeginsAt(seg, from) = (IF seg.start >= from THEN seg.start ELSE from) - from
       /\ EndsAt(seg, from, to) = (IF seg.end <= to THEN seg.end ELSE to) - from
  BY <1>2, <1>3, <1>4
<1> QED
  BY <1>4, <1>5, <1>7, <1>8, <1>9, <1>10

(* Two segments there: one within the other, or one before the other.      *)
LEMMA TwoLocal ==
  ASSUME NEW seg \in Cue, NEW cue \in Cue, NEW from \in Nat, NEW to \in Nat
  PROVE  /\ seg.start <= cue.start => BeginsAt(seg, from) <= BeginsAt(cue, from)
         /\ cue.end <= seg.end => EndsAt(cue, from, to) <= EndsAt(seg, from, to)
         /\ EndsAt(seg, from, to) - BeginsAt(cue, from) <= seg.end - cue.start
<1>1. PICK a \in Nat, b \in Nat, c \in Nat, d \in Nat : a = seg.start /\ b = seg.end /\ c = cue.start /\ d = cue.end
  BY DEF Cue
<1>2. BeginsAt(seg, from) = (IF a >= from THEN a ELSE from) - from
  BY <1>1, LocalTimes
<1>3. EndsAt(seg, from, to) = (IF b <= to THEN b ELSE to) - from
  BY <1>1, LocalTimes
<1>4. BeginsAt(cue, from) = (IF c >= from THEN c ELSE from) - from
  BY <1>1, LocalTimes
<1>5. EndsAt(cue, from, to) = (IF d <= to THEN d ELSE to) - from
  BY <1>1, LocalTimes
<1>6. a <= c => BeginsAt(seg, from) <= BeginsAt(cue, from)
  BY <1>2, <1>4
<1>7. d <= b => EndsAt(cue, from, to) <= EndsAt(seg, from, to)
  BY <1>3, <1>5
<1>8. EndsAt(seg, from, to) - BeginsAt(cue, from) <= b - c
  BY <1>3, <1>4
<1> QED
  BY <1>1, <1>6, <1>7, <1>8

(* The segments of a clip begin and end in it, as far apart as they were,  *)
(* and what a segment covers and is shown is in the time of one.           *)
Spans(seg, cue, from, to) == seg.start <= BeginsAt(cue, from) /\ EndsAt(cue, from, to) <= seg.end
LEMMA SelectedTimed ==
  ASSUME NEW segs \in Seq(Cue), NEW from \in Nat, NEW to \in Nat
  PROVE  LET u == Selected(segs, from, to) IN
         /\ \A i \in 1..Len(u) : Heardable(u[i]) /\ u[i].end <= to - from
         /\ Apart(segs) => Apart(u)
         /\ \A cue \in Cue :
              Covers(segs, cue) /\ Shown(cue, from, to) => \E i \in 1..Len(u) : Spans(u[i], cue, from, to)
<1>1. PICK n \in Nat : n = Len(segs) /\ DOMAIN segs = 1..n /\ \A k \in 1..n : segs[k] \in Cue
  BY ElementsOfSequence
<1>2. PICK places : places = {i \in DOMAIN segs : Shown(segs[i], from, to)}
  OBVIOUS
<1>3. PICK shown \in Seq(Cue) : shown = Chosen(segs, places)
  BY ChosenTyped
<1>4. PICK m \in Nat : m = Len(shown) /\ DOMAIN shown = 1..m
  BY ElementsOfSequence
<1>5. PICK p : Picks(p, shown, segs, n, places)
  BY <1>1, <1>3, ChosenPlaces
<1>6. /\ p \in [1..m -> 1..n] /\ \A i \in 1..m : shown[i] = segs[p[i]] /\ Shown(segs[p[i]], from, to)
      /\ \A i \in 1..m : \A j \in 1..(i - 1) : p[j] < p[i]
      /\ \A k \in 1..n : Shown(segs[k], from, to) => \E i \in 1..m : p[i] = k
  BY <1>1, <1>2, <1>4, <1>5 DEF Picks
<1>7. PICK u \in Seq(Texted) : u = Selected(segs, from, to) /\ Len(u) = m
  <2>1. ShownOf(segs, from, to) = shown
    BY <1>2, <1>3 DEF ShownOf
  <2> QED
    BY <1>4, <2>1, SelectedTyped
<1>8. \A i \in 1..m : u[i] = Local(segs[p[i]], from, to)
  <2>1. u = [i \in 1..m |-> Local(shown[i], from, to)]
    BY <1>2, <1>3, <1>4, <1>7 DEF Selected
  <2> QED
    BY <1>6, <2>1
<1>9. ASSUME NEW i \in 1..m
      PROVE  \E seg \in Cue : /\ seg = segs[p[i]] /\ Shown(seg, from, to) /\ u[i] \in Texted
                             /\ u[i].start = BeginsAt(seg, from) /\ u[i].end = EndsAt(seg, from, to) /\ u[i].text = seg.text
  <2>1. p[i] \in 1..n
    BY <1>6
  <2>2. PICK seg \in Cue : seg = segs[p[i]] /\ Shown(seg, from, to)
    BY <1>1, <1>6, <2>1
  <2>3. PICK loc : /\ loc = Local(seg, from, to) /\ loc \in Texted
                   /\ loc = [start |-> BeginsAt(seg, from), end |-> EndsAt(seg, from, to), text |-> seg.text]
    BY LocalTimes
  <2>4. u[i] = loc
    BY <1>8, <2>2, <2>3
  <2> QED
    BY <2>2, <2>3, <2>4
<1>10. ASSUME NEW i \in 1..m
       PROVE  Heardable(u[i]) /\ u[i].end <= to - from
  <2>1. PICK seg \in Cue : /\ Shown(seg, from, to) /\ u[i] \in Texted /\ u[i].start = BeginsAt(seg, from)
                           /\ u[i].end = EndsAt(seg, from, to) /\ u[i].text = seg.text
    BY <1>9
  <2>2. BeginsAt(seg, from) \in Nat /\ EndsAt(seg, from, to) <= to - from
    BY LocalTimes
  <2>3. BeginsAt(seg, from) < EndsAt(seg, from, to) /\ seg.text # <<>>
    BY <2>1, LocalTimes DEF Shown
  <2> QED
    BY <2>1, <2>2, <2>3 DEF Heardable
<1>11. ASSUME Apart(segs)
       PROVE  Apart(u)
  <2> SUFFICES ASSUME NEW i \in 1..m, NEW j \in 1..(i - 1)
               PROVE  u[j].end - u[i].start <= OverlapThreshold
    BY <1>7 DEF Apart
  <2>1. j \in 1..m
    OBVIOUS
  <2>2. PICK later \in Cue : later = segs[p[i]] /\ u[i].start = BeginsAt(later, from)
    BY <1>9
  <2>3. PICK sooner \in Cue : sooner = segs[p[j]] /\ u[j].end = EndsAt(sooner, from, to)
    BY <1>9, <2>1
  <2>4. p[i] \in 1..n /\ p[j] \in 1..(p[i] - 1)
    <3>1. p[i] \in 1..n /\ p[j] \in 1..n /\ p[j] < p[i]
      BY <1>6, <2>1
    <3> QED
      BY <3>1
  <2>5. sooner.end - later.start <= OverlapThreshold
    BY <1>1, <1>11, <2>2, <2>3, <2>4 DEF Apart
  <2>6. EndsAt(sooner, from, to) - BeginsAt(later, from) <= sooner.end - later.start
    BY TwoLocal
  <2>7. EndsAt(sooner, from, to) \in Int /\ BeginsAt(later, from) \in Nat
    <3>1. EndsAt(sooner, from, to) \in Int
      BY LocalTimes
    <3>2. BeginsAt(later, from) \in Nat
      BY LocalTimes
    <3> QED
      BY <3>1, <3>2
  <2>8. sooner.end \in Nat /\ later.start \in Nat /\ OverlapThreshold \in Nat
    BY CaptionsAssumption DEF Cue
  <2> QED
    <3>1. PICK a \in Int, b \in Nat, x \in Nat, y \in Nat, t \in Nat :
            /\ a = EndsAt(sooner, from, to) /\ b = BeginsAt(later, from)
            /\ x = sooner.end /\ y = later.start /\ t = OverlapThreshold
      BY <2>7, <2>8
    <3>2. x - y <= t /\ a - b <= x - y
      BY <2>5, <2>6, <3>1
    <3>3. a - b <= t
      BY <3>2
    <3> QED
      BY <2>2, <2>3, <3>1, <3>3
<1>12. ASSUME NEW cue \in Cue, Covers(segs, cue), Shown(cue, from, to)
       PROVE  \E i \in 1..m : Spans(u[i], cue, from, to)
  <2>1. PICK k \in 1..n : segs[k].text # <<>> /\ segs[k].start <= cue.start /\ cue.end <= segs[k].end
    BY <1>1, <1>12 DEF Covers
  <2>2. PICK seg \in Cue : seg = segs[k]
    BY <1>1
  <2>3. BeginsAt(seg, from) <= BeginsAt(cue, from) /\ EndsAt(cue, from, to) <= EndsAt(seg, from, to)
    BY <2>1, <2>2, TwoLocal
  <2>4. BeginsAt(cue, from) < EndsAt(cue, from, to)
    BY <1>12, LocalTimes DEF Shown
  <2>5. /\ BeginsAt(seg, from) \in Int /\ BeginsAt(cue, from) \in Int
        /\ EndsAt(seg, from, to) \in Int /\ EndsAt(cue, from, to) \in Int
    <3>1. BeginsAt(seg, from) \in Nat /\ EndsAt(seg, from, to) \in Int
      BY LocalTimes
    <3>2. BeginsAt(cue, from) \in Nat /\ EndsAt(cue, from, to) \in Int
      BY LocalTimes
    <3> QED
      BY <3>1, <3>2
  <2>6. BeginsAt(seg, from) < EndsAt(seg, from, to)
    BY <2>3, <2>4, <2>5
  <2>7. Shown(segs[k], from, to)
    BY <2>1, <2>2, <2>6, LocalTimes DEF Shown
  <2>8. PICK i \in 1..m : p[i] = k
    BY <1>6, <2>7
  <2>9. u[i].start = BeginsAt(seg, from) /\ u[i].end = EndsAt(seg, from, to)
    BY <1>9, <2>2, <2>8
  <2> QED
    BY <2>3, <2>9 DEF Spans
<1> QED
  BY <1>7, <1>10, <1>11, <1>12

(* What is written is right, what is left is in the clip, nothing is shown *)
(* before the end of an earlier line but for the threshold, and when a cue *)
(* begins or ends, a line is shown, or a segment is left for it.           *)
Seen(d, left, t) ==
  \/ \E i \in 1..Len(d) : ShownAt(d[i], t)
  \/ \E j \in 1..Len(left) : left[j].start <= t /\ t <= left[j].end
LinesApart(d, left) ==
  /\ Apart(left)
  /\ \A i \in 1..Len(d) : \A j \in 1..(i - 1) : Instant(d[j].to) - Instant(d[i].from) <= OverlapThreshold
  /\ \A i \in 1..Len(d) : \A j \in 1..Len(left) : Instant(d[i].to) - left[j].start <= OverlapThreshold
OnTime(d, left, s) ==
  /\ \A i \in 1..Len(d) : Shows(d[i]) /\ Instant(d[i].to) <= s.to - s.from
  /\ \A j \in 1..Len(left) : Heardable(left[j]) /\ left[j].end <= s.to - s.from
  /\ s.source = "vtt" => LinesApart(d, left)
  /\ \A k \in 1..Len(s.cues) : Shown(s.cues[k], s.from, s.to) =>
       Seen(d, left, BeginsAt(s.cues[k], s.from)) /\ Seen(d, left, EndsAt(s.cues[k], s.from, s.to))
LEMMA SelectedOnTime ==
  ASSUME NEW s \in Scripts, NEW segs \in Seq(Cue), Parsed(segs, s)
  PROVE  OnTime(<<>>, Selected(segs, s.from, s.to), s)
<1>1. PICK cues \in Seq(Cue), from \in Nat, to \in Nat : cues = s.cues /\ from = s.from /\ to = s.to
  BY ScriptsTyped
<1>2. PICK u : u = Selected(segs, from, to)
  OBVIOUS
<1>3. /\ \A i \in 1..Len(u) : Heardable(u[i]) /\ u[i].end <= to - from
      /\ Apart(segs) => Apart(u)
      /\ \A cue \in Cue : Covers(segs, cue) /\ Shown(cue, from, to) => \E i \in 1..Len(u) : Spans(u[i], cue, from, to)
  BY <1>2, SelectedTimed
<1>4. PICK none : none = <<>> /\ Len(none) = 0
  OBVIOUS
<1>5. s.source = "vtt" => LinesApart(none, u)
  BY <1>3, <1>4 DEF Parsed, LinesApart
<1>6. ASSUME NEW k \in 1..Len(cues), Shown(cues[k], from, to)
      PROVE  Seen(none, u, BeginsAt(cues[k], from)) /\ Seen(none, u, EndsAt(cues[k], from, to))
  <2>1. PICK cue \in Cue : cue = cues[k]
    BY ElementsOfSequence
  <2>2. Covers(segs, cue)
    BY <1>1, <1>6, <2>1 DEF Parsed, Shown
  <2>3. PICK i \in 1..Len(u) : Spans(u[i], cue, from, to)
    BY <1>3, <1>6, <2>1, <2>2
  <2>4. PICK a \in Int, b \in Int : a = BeginsAt(cue, from) /\ b = EndsAt(cue, from, to) /\ a < b
    <3>1. BeginsAt(cue, from) \in Nat /\ EndsAt(cue, from, to) \in Int
      BY LocalTimes
    <3>2. BeginsAt(cue, from) < EndsAt(cue, from, to)
      BY <1>6, <2>1, LocalTimes DEF Shown
    <3> QED
      BY <3>1, <3>2
  <2>5. u[i].start \in Int /\ u[i].end \in Int
    <3>1. u[i] \in Texted
      BY <1>3 DEF Heardable
    <3> QED
      BY <3>1 DEF Texted
  <2>6. u[i].start <= a /\ b <= u[i].end
    BY <2>3, <2>4 DEF Spans
  <2>7. a <= u[i].end /\ u[i].start <= b
    BY <2>4, <2>5, <2>6
  <2> QED
    BY <2>1, <2>4, <2>6, <2>7 DEF Seen
<1> QED
  BY <1>1, <1>2, <1>3, <1>4, <1>5, <1>6 DEF OnTime

(* The elements of two sequences that are joined.                          *)
LEMMA JoinedAt ==
  ASSUME NEW s, NEW t, s \in Seq(Elements(s)), t \in Seq(Elements(t))
  PROVE  /\ Len(s \o t) = Len(s) + Len(t)
         /\ \A i \in 1..Len(s) : (s \o t)[i] = s[i]
         /\ \A i \in 1..Len(t) : (s \o t)[Len(s) + i] = t[i] /\ Len(s) + i \in 1..(Len(s) + Len(t))
         /\ \A i \in 1..(Len(s) + Len(t)) :
              i \notin 1..Len(s) => i - Len(s) \in 1..Len(t) /\ (s \o t)[i] = t[i - Len(s)]
<1>1. PICK S, T : S = Elements(s) /\ T = Elements(t) /\ s \in Seq(S) /\ t \in Seq(T)
  OBVIOUS
<1>2. s \in Seq(S \cup T) /\ t \in Seq(S \cup T)
  BY <1>1
<1>3. PICK m \in Nat, n \in Nat : m = Len(t) /\ n = Len(s)
  BY <1>2, ElementsOfSequence
<1>4. /\ Len(s \o t) = n + m
      /\ \A i \in 1..(n + m) : (s \o t)[i] = IF i <= n THEN s[i] ELSE t[i - n]
  BY <1>2, <1>3, ConcatProperties
<1>5. \A i \in 1..n : (s \o t)[i] = s[i]
  <2> TAKE i \in 1..n
  <2>1. i \in 1..(n + m) /\ i <= n
    BY <1>3
  <2> QED
    BY <1>4, <2>1
<1>6. \A i \in 1..(n + m) : i \notin 1..n => i - n \in 1..m /\ (s \o t)[i] = t[i - n]
  <2> SUFFICES ASSUME NEW i \in 1..(n + m), i \notin 1..n
               PROVE  i - n \in 1..m /\ (s \o t)[i] = t[i - n]
    OBVIOUS
  <2>1. ~(i <= n) /\ i - n \in 1..m
    BY <1>3
  <2> QED
    BY <1>4, <2>1
<1>7. \A i \in 1..m : (s \o t)[n + i] = t[i] /\ n + i \in 1..(n + m)
  <2> TAKE i \in 1..m
  <2>1. n + i \in 1..(n + m) /\ n + i \notin 1..n /\ (n + i) - n = i
    BY <1>3
  <2> QED
    BY <1>6, <2>1
<1> QED
  BY <1>3, <1>4, <1>5, <1>6, <1>7

(* Writing the captions of a segment keeps what is on time.                *)
LEMMA WrittenOnTime ==
  ASSUME NEW d, Drawn(d), NEW left \in Seq(Texted), left # <<>>, NEW s \in Scripts, OnTime(d, left, s)
  PROVE  OnTime(d \o Dialogues(Head(left)), Tail(left), s)
<1>1. PICK seg \in Texted, rest \in Seq(Texted) : seg = Head(left) /\ rest = Tail(left)
  BY HeadTailProperties
<1>2. PICK r \in Nat : /\ r = Len(rest) /\ Len(left) = r + 1 /\ left[1] = seg
                       /\ \A j \in 1..r : rest[j] = left[j + 1] /\ j + 1 \in 1..(r + 1)
  <2>1. Len(left) \in Nat /\ Len(left) # 0 /\ left[1] = Head(left)
    BY EmptySeq
  <2>2. Len(Tail(left)) = Len(left) - 1 /\ \A j \in 1..Len(Tail(left)) : Tail(left)[j] = left[j + 1]
    BY HeadTailProperties
  <2>3. PICK r \in Nat : r = Len(rest) /\ Len(left) = r + 1
    <3>1. Len(left) - 1 \in Nat /\ Len(left) = (Len(left) - 1) + 1
      BY <2>1
    <3> QED
      BY <1>1, <2>2, <3>1
  <2>4. \A j \in 1..r : rest[j] = left[j + 1] /\ j + 1 \in 1..(r + 1)
    BY <1>1, <2>2, <2>3
  <2> QED
    BY <1>1, <2>1, <2>3, <2>4
<1>3. PICK length \in Int : length = s.to - s.from
  BY ScriptsTyped
<1>4. /\ \A i \in 1..Len(d) : Shows(d[i]) /\ Instant(d[i].to) <= length
      /\ \A j \in 1..(r + 1) : Heardable(left[j]) /\ left[j].end <= length
      /\ s.source = "vtt" => LinesApart(d, left)
      /\ \A k \in 1..Len(s.cues) : Shown(s.cues[k], s.from, s.to) =>
           Seen(d, left, BeginsAt(s.cues[k], s.from)) /\ Seen(d, left, EndsAt(s.cues[k], s.from, s.to))
  BY <1>2, <1>3 DEF OnTime
<1>5. Heardable(seg) /\ seg.end <= length /\ seg.start \in Int /\ seg.end \in Int
  <2>1. 1 \in 1..(r + 1)
    OBVIOUS
  <2> QED
    BY <1>2, <1>4, <2>1 DEF Texted
<1>6. PICK e : e = Dialogues(seg)
  OBVIOUS
<1>7. PICK m \in Nat : m = Len(e)
  BY <1>5, <1>6, DialoguesTimed
<1>8. /\ \A i \in 1..m : Shows(e[i]) /\ seg.start <= Instant(e[i].from) /\ Instant(e[i].to) <= seg.end
      /\ \A i \in 1..m : \A j \in 1..(i - 1) : Instant(e[j].to) <= Instant(e[i].from)
      /\ \A t \in seg.start..seg.end : \E i \in 1..m : ShownAt(e[i], t)
  BY <1>5, <1>6, <1>7, DialoguesTimed
<1>n. PICK n \in Nat : n = Len(d)
  BY ElementsOfSequence DEF Drawn
<1>9. PICK f :
        /\ n = Len(d) /\ f = d \o e /\ Len(f) = n + m
        /\ \A i \in 1..n : f[i] = d[i]
        /\ \A i \in 1..m : f[n + i] = e[i] /\ n + i \in 1..(n + m)
        /\ \A i \in 1..(n + m) : i \notin 1..n => i - n \in 1..m /\ f[i] = e[i - n]
  <2>1. d \in Seq(Elements(d)) /\ e \in Seq(Elements(e))
    BY <1>6, DialoguesSay DEF Drawn
  <2> QED
    <3>1. PICK f : f = d \o e
      OBVIOUS
    <3>2. Len(f) = Len(d) + Len(e) /\ \A i \in 1..Len(d) : f[i] = d[i]
      BY <2>1, <3>1, JoinedAt
    <3>3. \A i \in 1..Len(e) : f[Len(d) + i] = e[i] /\ Len(d) + i \in 1..(Len(d) + Len(e))
      BY <2>1, <3>1, JoinedAt
    <3>4. \A i \in 1..(Len(d) + Len(e)) : i \notin 1..Len(d) => i - Len(d) \in 1..Len(e) /\ f[i] = e[i - Len(d)]
      BY <2>1, <3>1, JoinedAt
    <3> QED
      BY <1>7, <1>n, <3>1, <3>2, <3>3, <3>4
<1>10. OverlapThreshold \in Nat
  BY CaptionsAssumption
<1>11. \A i \in 1..(n + m) : Shows(f[i]) /\ Instant(f[i].to) <= length
  <2> TAKE i \in 1..(n + m)
  <2>1. CASE i \in 1..n
    BY <1>4, <1>9, <2>1
  <2>2. CASE i \notin 1..n
    <3>1. i - n \in 1..m /\ f[i] = e[i - n]
      BY <1>9, <2>2
    <3>2. Shows(f[i]) /\ Instant(f[i].to) <= seg.end
      BY <1>8, <3>1
    <3>3. Instant(f[i].to) \in Nat
      BY <3>2 DEF Shows
    <3> QED
      BY <1>5, <3>2, <3>3
  <2> QED
    BY <2>1, <2>2
<1>12. \A j \in 1..r : Heardable(rest[j]) /\ rest[j].end <= length
  BY <1>2, <1>4
<1>13. ASSUME LinesApart(d, left)
       PROVE  LinesApart(f, rest)
  <2>1. /\ \A i \in 1..(r + 1) : \A j \in 1..(i - 1) : left[j].end - left[i].start <= OverlapThreshold
        /\ \A i \in 1..n : \A j \in 1..(i - 1) : Instant(d[j].to) - Instant(d[i].from) <= OverlapThreshold
        /\ \A i \in 1..n : \A j \in 1..(r + 1) : Instant(d[i].to) - left[j].start <= OverlapThreshold
    BY <1>2, <1>9, <1>13 DEF LinesApart, Apart
  <2>2. Apart(rest)
    <3> SUFFICES ASSUME NEW i \in 1..r, NEW j \in 1..(i - 1)
                 PROVE  rest[j].end - rest[i].start <= OverlapThreshold
      BY <1>2 DEF Apart
    <3>1. j \in 1..r /\ i + 1 \in 1..(r + 1) /\ j + 1 \in 1..((i + 1) - 1)
      OBVIOUS
    <3>2. left[j + 1].end - left[i + 1].start <= OverlapThreshold
      BY <2>1, <3>1
    <3> QED
      BY <1>2, <3>1, <3>2
  <2>3. ASSUME NEW i \in 1..(n + m), NEW j \in 1..(i - 1)
        PROVE  Instant(f[j].to) - Instant(f[i].from) <= OverlapThreshold
    <3>1. j \in 1..(n + m)
      OBVIOUS
    <3>2. CASE i \in 1..n
      <4>1. j \in 1..n /\ f[j] = d[j] /\ f[i] = d[i]
        BY <1>9, <3>2
      <4>2. Instant(d[j].to) - Instant(d[i].from) <= OverlapThreshold
        BY <2>1, <3>2
      <4> QED
        BY <4>1, <4>2
    <3>3. CASE i \notin 1..n
      <4>1. i - n \in 1..m /\ f[i] = e[i - n]
        BY <1>9, <3>3
      <4>2. PICK x \in Nat : x = Instant(f[i].from) /\ seg.start <= x
        BY <1>8, <4>1 DEF Shows
      <4>3. PICK y \in Nat : y = Instant(f[j].to)
        BY <1>11, <3>1 DEF Shows
      <4>4. CASE j \in 1..n
        <5>1. f[j] = d[j] /\ 1 \in 1..(r + 1)
          BY <1>9, <4>4
        <5>2. y - seg.start <= OverlapThreshold
          BY <1>2, <2>1, <4>3, <4>4, <5>1
        <5>3. y - x <= OverlapThreshold
          BY <1>5, <1>10, <4>2, <5>2
        <5> QED
          BY <4>2, <4>3, <5>3
      <4>5. CASE j \notin 1..n
        <5>1. j - n \in 1..((i - n) - 1) /\ f[j] = e[j - n]
          <6>1. j - n \in 1..m /\ f[j] = e[j - n]
            BY <1>9, <3>1, <4>5
          <6> QED
            BY <6>1
        <5>2. y <= x
          BY <1>8, <4>1, <4>2, <4>3, <5>1
        <5>3. y - x <= OverlapThreshold
          BY <1>10, <5>2
        <5> QED
          BY <4>2, <4>3, <5>3
      <4> QED
        BY <4>4, <4>5
    <3> QED
      BY <3>2, <3>3
  <2>4. ASSUME NEW i \in 1..(n + m), NEW j \in 1..r
        PROVE  Instant(f[i].to) - rest[j].start <= OverlapThreshold
    <3>1. rest[j] = left[j + 1] /\ j + 1 \in 1..(r + 1)
      BY <1>2
    <3>2. CASE i \in 1..n
      <4>1. Instant(d[i].to) - left[j + 1].start <= OverlapThreshold
        BY <2>1, <3>1, <3>2
      <4> QED
        BY <1>9, <3>1, <3>2, <4>1
    <3>3. CASE i \notin 1..n
      <4>1. i - n \in 1..m /\ f[i] = e[i - n]
        BY <1>9, <3>3
      <4>2. PICK y \in Nat : y = Instant(f[i].to) /\ y <= seg.end
        BY <1>8, <4>1 DEF Shows
      <4>3. seg.end - left[j + 1].start <= OverlapThreshold
        <5>1. 1 \in 1..((j + 1) - 1)
          OBVIOUS
        <5> QED
          BY <1>2, <2>1, <3>1, <5>1
      <4>4. PICK z \in Int : z = left[j + 1].start
        <5>1. left[j + 1] \in Texted
          BY <1>4, <3>1 DEF Heardable
        <5> QED
          BY <5>1 DEF Texted
      <4>5. y - z <= OverlapThreshold
        BY <1>5, <1>10, <4>2, <4>3, <4>4
      <4> QED
        BY <3>1, <4>2, <4>4, <4>5
    <3> QED
      BY <3>2, <3>3
  <2> QED
    BY <1>2, <1>9, <2>2, <2>3, <2>4 DEF LinesApart
<1>14. ASSUME NEW t \in Int, Seen(d, left, t)
       PROVE  Seen(f, rest, t)
  <2>1. CASE \E i \in 1..n : ShownAt(d[i], t)
    <3>1. PICK i \in 1..n : ShownAt(d[i], t)
      BY <2>1
    <3>2. i \in 1..(n + m) /\ f[i] = d[i]
      BY <1>9
    <3> QED
      BY <1>9, <3>1, <3>2 DEF Seen
  <2>2. CASE \E j \in 1..(r + 1) : left[j].start <= t /\ t <= left[j].end
    <3>1. PICK j \in 1..(r + 1) : left[j].start <= t /\ t <= left[j].end
      BY <2>2
    <3>2. CASE j = 1
      <4>1. t \in seg.start..seg.end
        BY <1>2, <1>5, <3>1, <3>2
      <4>2. PICK i \in 1..m : ShownAt(e[i], t)
        BY <1>8, <4>1
      <4>3. n + i \in 1..(n + m) /\ f[n + i] = e[i]
        BY <1>9
      <4> QED
        BY <1>9, <4>2, <4>3 DEF Seen
    <3>3. CASE j # 1
      <4>1. j - 1 \in 1..r /\ (j - 1) + 1 = j
        BY <3>3
      <4>2. rest[j - 1] = left[j]
        BY <1>2, <4>1
      <4> QED
        BY <1>2, <3>1, <4>1, <4>2 DEF Seen
    <3> QED
      BY <3>2, <3>3
  <2> QED
    BY <1>2, <1>9, <1>14, <2>1, <2>2 DEF Seen
<1>15. ASSUME NEW k \in 1..Len(s.cues), Shown(s.cues[k], s.from, s.to)
       PROVE  Seen(f, rest, BeginsAt(s.cues[k], s.from)) /\ Seen(f, rest, EndsAt(s.cues[k], s.from, s.to))
  <2>1. s.cues[k] \in Cue /\ s.from \in Nat /\ s.to \in Nat
    BY ScriptsTyped, ElementsOfSequence
  <2>2. BeginsAt(s.cues[k], s.from) \in Int /\ EndsAt(s.cues[k], s.from, s.to) \in Int
    <3>1. BeginsAt(s.cues[k], s.from) \in Nat
      BY <2>1, LocalTimes
    <3>2. EndsAt(s.cues[k], s.from, s.to) \in Int
      BY <2>1, LocalTimes
    <3> QED
      BY <3>1, <3>2
  <2> QED
    BY <1>4, <1>14, <1>15, <2>2
<1> QED
  BY <1>1, <1>2, <1>3, <1>4, <1>6, <1>9, <1>11, <1>12, <1>13, <1>15 DEF OnTime

(* What the variables hold, as the steps go.                               *)
Timely ==
  /\ captioning \in {"parse", "select", "refused"} => dialogues = <<>>
  /\ captioning = "select" => Parsed(segments, script)
  /\ captioning \in {"write", "written"} => OnTime(dialogues, unwritten, script)
  /\ captioning = "written" => unwritten = <<>>
LEMMA StepsTimely ==
  ASSUME CuesInOrder, CaptionsTyped, Timely, [CaptionNext]_captionVars
  PROVE  Timely'
<1>1. PICK s \in Scripts : s = script
  BY DEF CaptionsTyped
<1>2. PICK segs, left, d : /\ segs = segments /\ segs \in Seq(Cue) /\ left = unwritten /\ left \in Seq(Texted)
                          /\ d = dialogues /\ Drawn(d)
  BY DEF CaptionsTyped, Drawn
<1>3. CASE Parse
  <2>1. d = <<>> /\ captioning' \in {"refused", "select"} /\ dialogues' = d /\ script' = s
    BY <1>1, <1>2, <1>3 DEF Parse, Timely
  <2>2. PICK parsed : /\ segments' = parsed
                      /\ parsed = CASE s.source = "vtt" -> MergedCues(Worded(s.cues))
                                    [] s.source = "srt" -> Worded(s.cues)
                                    [] OTHER -> s.cues
    BY <1>1, <1>3 DEF Parse
  <2>3. Parsed(parsed, s)
    BY <2>2, CuesParsed
  <2> QED
    BY <2>1, <2>2, <2>3 DEF Timely
<1>4. CASE Select
  <2>1. d = <<>> /\ Parsed(segs, s)
    BY <1>1, <1>2, <1>4 DEF Select, Timely
  <2>2. PICK u : u = Selected(segs, s.from, s.to) /\ OnTime(<<>>, u, s)
    BY <1>2, <2>1, SelectedOnTime
  <2>3. captioning' = "write" /\ unwritten' = u /\ dialogues' = d /\ script' = s
    BY <1>1, <1>2, <1>4, <2>2 DEF Select
  <2> QED
    BY <2>1, <2>2, <2>3 DEF Timely
<1>5. CASE WriteSegment
  <2>1. left # <<>> /\ OnTime(d, left, s)
    BY <1>1, <1>2, <1>5 DEF WriteSegment, Timely
  <2>2. PICK f, rest : f = d \o Dialogues(Head(left)) /\ rest = Tail(left) /\ OnTime(f, rest, s)
    BY <1>2, <2>1, WrittenOnTime
  <2>3. captioning' = "write" /\ dialogues' = f /\ unwritten' = rest /\ script' = s
    BY <1>1, <1>2, <1>5, <2>2 DEF WriteSegment
  <2> QED
    BY <2>2, <2>3 DEF Timely
<1>6. CASE CloseFile
  <2>1. left = <<>> /\ OnTime(d, left, s)
    BY <1>1, <1>2, <1>6 DEF CloseFile, Timely
  <2>2. captioning' = "written" /\ dialogues' = d /\ unwritten' = left /\ script' = s
    BY <1>1, <1>2, <1>6 DEF CloseFile
  <2> QED
    BY <2>1, <2>2 DEF Timely
<1>7. CASE UNCHANGED captionVars
  <2>1. captioning' = captioning /\ dialogues' = d /\ unwritten' = left /\ segments' = segs /\ script' = s
    BY <1>1, <1>2, <1>7 DEF captionVars
  <2>2. /\ captioning \in {"parse", "select", "refused"} => d = <<>>
        /\ captioning = "select" => Parsed(segs, s)
        /\ captioning \in {"write", "written"} => OnTime(d, left, s)
        /\ captioning = "written" => left = <<>>
    BY <1>1, <1>2 DEF Timely
  <2> QED
    BY <2>1, <2>2 DEF Timely
<1> QED
  BY <1>3, <1>4, <1>5, <1>6, <1>7 DEF CaptionNext

(* The times of a file are valid times of its clip, and a caption is shown *)
(* when a cue begins or ends, whatever the cues, the clip and the preset:  *)
(* of a WebVTT file, if its cues are in order, as the format has them      *)
(* (subtitle_parser.py 149-177, subtitles.py 11-26, 163-193, 295-320).     *)
THEOREM CaptionsInTime == CuesInOrder => (CaptionSpec => []CaptionsOnTime)
<1> SUFFICES ASSUME CuesInOrder
             PROVE  CaptionSpec => []CaptionsOnTime
  OBVIOUS
<1>1. CaptionInit => CaptionsTyped /\ Timely
  BY CaptionsTypedInitially DEF CaptionInit, Timely
<1>2. CaptionsTyped /\ Timely /\ [CaptionNext]_captionVars => CaptionsTyped' /\ Timely'
  BY CaptionsStayTyped, StepsTimely
<1>3. CaptionsTyped /\ Timely => CaptionsOnTime
  <2> SUFFICES ASSUME CaptionsTyped, Timely
               PROVE  CaptionsOnTime
    OBVIOUS
  <2>1. PICK s \in Scripts, cues \in Seq(Cue) : s = script /\ cues = script.cues /\ s.from \in Nat /\ s.to \in Nat
    BY ScriptsTyped DEF CaptionsTyped
  <2>2. PICK n \in Nat : n = Len(dialogues) /\ DOMAIN dialogues = 1..n
    BY ElementsOfSequence DEF CaptionsTyped
  <2>3. PICK m \in Nat : m = Len(cues) /\ DOMAIN cues = 1..m /\ \A k \in 1..m : cues[k] \in Cue
    BY ElementsOfSequence
  <2>4. ASSUME NEW i \in 1..n
        PROVE  /\ Shows(dialogues[i]) /\ Instant(dialogues[i].to) <= s.to - s.from
               /\ s.source = "vtt" =>
                    \A j \in 1..(i - 1) : Instant(dialogues[j].to) - Instant(dialogues[i].from) <= OverlapThreshold
    <3>1. dialogues # <<>>
      BY <2>2
    <3>2. OnTime(dialogues, unwritten, s)
      BY <2>1, <3>1 DEF CaptionsTyped, Timely
    <3> QED
      BY <2>2, <3>2 DEF OnTime, LinesApart
  <2>5. ASSUME Written, NEW k \in 1..m, Shown(cues[k], s.from, s.to), NEW t,
               t \in {Max({cues[k].start, s.from}), Min({cues[k].end, s.to})}
        PROVE  \E i \in 1..n : ShownAt(dialogues[i], t - s.from)
    <3>1. OnTime(dialogues, unwritten, s) /\ unwritten = <<>> /\ Len(unwritten) = 0
      BY <2>1, <2>5 DEF Written, Timely
    <3>2. t - s.from \in {BeginsAt(cues[k], s.from), EndsAt(cues[k], s.from, s.to)}
      BY <2>5 DEF BeginsAt, EndsAt
    <3>3. Seen(dialogues, unwritten, t - s.from)
      BY <2>1, <2>3, <2>5, <3>1, <3>2 DEF OnTime
    <3> QED
      BY <2>2, <3>1, <3>3 DEF Seen
  <2> QED
    <3>1. ASSUME NEW i \in DOMAIN dialogues
          PROVE  /\ \A stamp \in {dialogues[i].from, dialogues[i].to} : Valid(stamp)
                 /\ Lasts(dialogues[i]) >= 0 /\ Instant(dialogues[i].to) <= script.to - script.from
                 /\ Karaoke => BeatsTotal(dialogues[i].beats) - Lasts(dialogues[i]) \in -1..1
                 /\ script.source = "vtt" =>
                      \A j \in 1..(i - 1) : Instant(dialogues[j].to) - Instant(dialogues[i].from) <= OverlapThreshold
      <4>1. i \in 1..n
        BY <2>2
      <4> QED
        BY <2>1, <2>4, <4>1 DEF Shows
    <3>2. ASSUME Written, NEW k \in DOMAIN script.cues, Shown(script.cues[k], script.from, script.to),
                 NEW t \in {Max({script.cues[k].start, script.from}), Min({script.cues[k].end, script.to})}
          PROVE  \E i \in DOMAIN dialogues : ShownAt(dialogues[i], t - script.from)
      BY <2>1, <2>2, <2>3, <2>5, <3>2
    <3> QED
      BY <3>1, <3>2 DEF CaptionsOnTime, Lasts, Valid, ShownAt
<1> QED
  BY <1>1, <1>2, <1>3, PTL DEF CaptionSpec

-----------------------------------------------------------------------------
(* Retention: what the variables hold.                                     *)
Stages == {"off", "clips", "job", "exports"}
ClipRow == [file : ClipFiles, status : PublicationStatuses, late : BOOLEAN]
StorageTyped ==
  /\ clips \in Seq(ClipRow) /\ exports \in Nat /\ disk \in [Files -> {"none", "partial", "whole"}]
  /\ sweep \in [Sweepers -> [stage : Stages, todo : Seq(Files)]]
  /\ thread \in [Threads -> [pc : {"idle", "encode", "sync", "commit", "zip"}, file : Files]]
  /\ \A t \in Threads : thread[t].pc \in {"encode", "sync", "commit"} => thread[t].file \in ClipFiles

(* A file that retention is about to remove while it removes clips is that *)
(* of a row that is not protected, or was protected too late; later it is  *)
(* not that of a clip.                                                     *)
Exposed(k) == ~Preserved(k) \/ clips[k].late
Spared ==
  LET r == sweep["retention"] IN
  /\ r.stage = "off" => r.todo = <<>>
  /\ r.stage = "clips" =>
       \A n \in DOMAIN r.todo : \E k \in DOMAIN clips : clips[k].file = r.todo[n] /\ Exposed(k)
  /\ r.stage \in {"job", "exports"} => \A n \in DOMAIN r.todo : r.todo[n] \notin ClipFiles

(* The elements of a finite set, in a sequence.                            *)
LEMMA SetInSequence ==
  ASSUME NEW S, IsFiniteSet(S)
  PROVE  SetToSeq(S) \in Seq(S)
<1>1. PICK n \in Nat : n = Cardinality(S)
  BY FS_CardinalityType
<1>2. PICK f : f \in Bijection(1..n, S)
  BY <1>1, FS_CardinalityType DEF ExistsBijection
<1>3. f \in [1..n -> S] /\ \A x, y \in 1..n : f[x] = f[y] => x = y
  BY <1>2 DEF Bijection, Injection, IsInjective
<1>4. f \in [1..Cardinality(S) -> S] /\ IsInjective(f)
  BY <1>1, <1>3 DEF IsInjective
<1>5. SetToSeq(S) \in [1..n -> S]
  BY <1>1, <1>4 DEF SetToSeq
<1> QED
  BY <1>5

(* What a stage removes is there to be removed.                            *)
LEMMA TodoOfStage ==
  ASSUME StorageTyped, NEW x \in Sweepers, NEW stage \in Stages
  PROVE  /\ Todo(x, stage) \in Seq(Files)
         /\ stage = "off" => Todo(x, stage) = <<>>
         /\ stage = "clips" => \A n \in DOMAIN Todo(x, stage) :
              \E k \in DOMAIN clips : clips[k].file = Todo(x, stage)[n] /\ (x = "delete" \/ ~Preserved(k))
         /\ stage \in {"job", "exports"} => \A n \in DOMAIN Todo(x, stage) : Todo(x, stage)[n] \notin ClipFiles
<1>1. PICK todo : todo = Todo(x, stage)
  OBVIOUS
<1>2. CASE stage = "clips"
  <2>1. PICK m \in Nat : DOMAIN clips = 1..m /\ \A k \in 1..m : clips[k] \in ClipRow
    BY ElementsOfSequence DEF StorageTyped
  <2>2. PICK K : K = {k \in DOMAIN clips : x = "delete" \/ ~Preserved(k)}
    OBVIOUS
  <2>3. IsFiniteSet(K)
    BY <2>1, <2>2, FS_Interval, FS_Subset
  <2>4. PICK u \in Seq(K) : u = Unprotected(x)
    BY <2>2, <2>3, SetInSequence DEF Unprotected
  <2>5. PICK n \in Nat : DOMAIN u = 1..n /\ \A i \in 1..n : u[i] \in K
    BY ElementsOfSequence
  <2>6. todo = [i \in 1..n |-> clips[u[i]].file]
    BY <1>1, <1>2, <2>4, <2>5 DEF Todo
  <2>7. \A i \in 1..n : u[i] \in 1..m /\ clips[u[i]].file \in ClipFiles
    BY <2>1, <2>2, <2>5 DEF ClipRow
  <2>8. todo \in Seq(Files)
    BY <2>6, <2>7 DEF Files
  <2> QED
    BY <1>1, <1>2, <2>2, <2>5, <2>6, <2>8
<1>3. CASE stage = "job"
  <2>1. todo = <<Source>>
    BY <1>1, <1>3 DEF Todo
  <2>2. todo \in Seq(Files) /\ \A n \in DOMAIN todo : todo[n] \notin ClipFiles
    BY <2>1, ArtifactsAssumption DEF Files
  <2> QED
    BY <1>1, <1>3, <2>2
<1>4. CASE stage = "exports"
  <2>1. IsFiniteSet(ExportFiles)
    <3>1. PICK m, f : m \in Nat /\ m = MaxExports /\ f = [n \in 1..m |-> Export(n)]
      BY ArtifactsAssumption
    <3>2. ExportFiles = {f[n] : n \in 1..m}
      BY <3>1 DEF ExportFiles
    <3>3. f \in Surjection(1..m, ExportFiles)
      BY <3>1, <3>2 DEF Surjection
    <3>4. IsFiniteSet(1..m)
      BY <3>1, FS_Interval
    <3> QED
      BY <3>3, <3>4, FS_Surjection
  <2>2. Listed \subseteq ExportFiles
    BY DEF Listed, OnDisk, InBucket
  <2>3. todo \in Seq(Listed)
    BY <1>1, <1>4, <2>1, <2>2, FS_Subset, SetInSequence DEF Todo
  <2>4. PICK n \in Nat : todo \in [1..n -> Listed] /\ DOMAIN todo = 1..n
    BY <2>3, ElementsOfSequence
  <2>5. \A i \in DOMAIN todo : todo[i] \in Files /\ todo[i] \notin ClipFiles
    BY <2>2, <2>4, FilesAssumption DEF Files
  <2>6. todo \in Seq(Files)
    BY <2>4, <2>5
  <2> QED
    BY <1>1, <1>4, <2>5, <2>6
<1>5. CASE stage = "off"
  <2>1. todo = <<>>
    BY <1>1, <1>5 DEF Todo
  <2>2. todo \in Seq(Files)
    BY <2>1
  <2> QED
    BY <1>1, <1>5, <2>1, <2>2
<1> QED
  BY <1>2, <1>3, <1>4, <1>5 DEF Stages

(* How a sweeper goes on: from stage to stage, and from file to file.      *)
LEMMA Proceeded ==
  ASSUME StorageTyped, NEW x \in Sweepers, Proceed(x)
  PROVE  \E stage \in Stages :
           /\ sweep' = [sweep EXCEPT ![x] = [stage |-> stage, todo |-> Todo(x, stage)]]
           /\ clips' = [k \in DOMAIN clips |-> [clips[k] EXCEPT !.late = @ /\ x # "retention"]]
           /\ UNCHANGED <<disk, thread, exports>>
<1>1. sweep[x].stage \in Stages
  BY DEF StorageTyped
<1>2. After[x][sweep[x].stage] \in Stages
  BY <1>1 DEF After, Stages, Sweepers
<1> QED
  BY <1>2 DEF Proceed

(* Rows that are changed in place.                                         *)
LEMMA RowsChanged ==
  ASSUME NEW S, NEW s \in Seq(S), NEW r,
         r = [k \in DOMAIN s |-> r[k]], \A k \in DOMAIN s : r[k] \in S
  PROVE  r \in Seq(S)
<1>1. PICK n \in Nat : DOMAIN s = 1..n
  BY ElementsOfSequence
<1> QED
  BY <1>1

(* Types are kept.                                                         *)
LEMMA StorageStaysTyped ==
  ASSUME StorageTyped, [StorageNext]_storageVars
  PROVE  StorageTyped'
<1> USE DEF StorageTyped
<1>1. PICK m \in Nat : Len(clips) = m /\ DOMAIN clips = 1..m /\ \A k \in 1..m : clips[k] \in ClipRow
  BY ElementsOfSequence
<1>2. ASSUME NEW t \in Threads, StartClip(t) \/ StartExport(t)
      PROVE  StorageTyped'
  <2>1. PICK label, f : /\ thread' = [thread EXCEPT ![t] = [pc |-> label, file |-> f]] /\ f \in Files
                        /\ (label = "encode" /\ f \in ClipFiles) \/ label = "zip"
    <3>1. CASE StartClip(t)
      BY <3>1 DEF StartClip, Files
    <3>2. CASE StartExport(t)
      <4>1. exports + 1 \in 1..MaxExports => Export(exports + 1) \in Files
        BY DEF Files, ExportFiles
      <4>2. thread' = [thread EXCEPT ![t] = [pc |-> "zip", file |-> Export(exports')]]
        BY <3>2 DEF StartExport
      <4>3. exports' = exports + 1 /\ exports + 1 \in 1..MaxExports
        BY <3>2, ArtifactsAssumption DEF StartExport
      <4> QED
        BY <4>1, <4>2, <4>3
    <3> QED
      BY <1>2, <3>1, <3>2
  <2>2. UNCHANGED <<clips, sweep>> /\ exports' \in Nat /\ disk' \in [Files -> {"none", "partial", "whole"}]
    BY <1>2 DEF StartClip, StartExport
  <2> QED
    BY <2>1, <2>2
<1>3. ASSUME NEW t \in Threads, EndEncode(t) \/ SyncClip(t) \/ EndExport(t)
      PROVE  StorageTyped'
  <2>1. /\ Source \in Files /\ UNCHANGED <<clips, sweep, exports>>
        /\ disk' \in [Files -> {"none", "partial", "whole"}]
    BY <1>3 DEF EndEncode, SyncClip, EndExport, Files
  <2>2. CASE Leave(t)
    BY <2>1, <2>2 DEF Leave, Idle
  <2>3. CASE thread[t].pc \in {"encode", "sync"} /\ \E label \in {"sync", "commit"} : To(t, label)
    <3>1. PICK label \in {"sync", "commit"} : thread' = [thread EXCEPT ![t].pc = label]
      BY <2>3 DEF To
    <3>2. thread[t].file \in ClipFiles
      BY <2>3
    <3>3. \A u \in Threads : thread'[u].pc \in {"encode", "sync", "commit"} => thread'[u].file \in ClipFiles
      BY <3>1, <3>2
    <3>4. thread' \in [Threads -> [pc : {"idle", "encode", "sync", "commit", "zip"}, file : Files]]
      BY <3>1
    <3> QED
      BY <2>1, <3>3, <3>4
  <2> QED
    BY <1>3, <2>2, <2>3 DEF EndEncode, SyncClip, EndExport
<1>4. ASSUME NEW t \in Threads, CommitClip(t)
      PROVE  StorageTyped'
  <2>1. Source \in Files
    BY DEF Files
  <2>2. PICK row \in ClipRow : row = [file |-> thread[t].file, status |-> "draft", late |-> FALSE]
    BY <1>4 DEF CommitClip, ClipRow, PublicationStatuses
  <2>3. clips' = Append(clips, row) /\ Leave(t) /\ UNCHANGED <<disk, sweep, exports>>
    BY <1>4, <2>2 DEF CommitClip
  <2>4. clips' \in Seq(ClipRow)
    BY <2>3, ElementsOfSequence
  <2> QED
    BY <2>1, <2>3, <2>4 DEF Leave, Idle
<1>5. ASSUME NEW x \in Sweepers, Proceed(x)
      PROVE  StorageTyped'
  <2>1. PICK stage \in Stages :
           /\ sweep' = [sweep EXCEPT ![x] = [stage |-> stage, todo |-> Todo(x, stage)]]
           /\ clips' = [k \in DOMAIN clips |-> [clips[k] EXCEPT !.late = @ /\ x # "retention"]]
           /\ UNCHANGED <<disk, thread, exports>>
    BY <1>5, Proceeded
  <2>2. Todo(x, stage) \in Seq(Files)
    BY TodoOfStage
  <2>3. \A k \in DOMAIN clips : clips'[k] \in ClipRow
    BY <1>1, <2>1 DEF ClipRow
  <2>4. clips' \in Seq(ClipRow)
    BY <2>1, <2>3, RowsChanged
  <2> QED
    BY <2>1, <2>2, <2>4
<1>6. ASSUME NEW x \in Sweepers, Unlink(x)
      PROVE  StorageTyped'
  <2>1. sweep[x].todo # <<>> /\ sweep' = [sweep EXCEPT ![x].todo = Tail(@)] /\ UNCHANGED <<clips, thread, exports>>
    BY <1>6 DEF Unlink
  <2>3. disk' \in [Files -> {"none", "partial", "whole"}]
    BY <1>6 DEF Unlink, RemoveFile
  <2>2. Tail(sweep[x].todo) \in Seq(Files)
    BY <2>1, ElementsOfSequence
  <2> QED
    BY <2>1, <2>2, <2>3
<1>7. CASE Publish
  <2>1. PICK k \in DOMAIN clips, s \in PublicationStatuses :
          clips' = [clips EXCEPT ![k].status = s, ![k].late = s = "ready" /\ sweep["retention"].stage = "clips"]
    BY <1>7 DEF Publish
  <2>2. \A j \in DOMAIN clips : clips'[j] \in ClipRow
    BY <1>1, <2>1 DEF ClipRow
  <2>3. clips' = [j \in DOMAIN clips |-> clips'[j]]
    BY <2>1
  <2>4. clips' \in Seq(ClipRow)
    BY <2>2, <2>3, RowsChanged
  <2> QED
    BY <1>7, <2>4 DEF Publish
<1>8. CASE RestartWeb
  <2>1. Source \in Files /\ <<>> \in Seq(Files)
    BY DEF Files
  <2> QED
    BY <1>8, <2>1 DEF RestartWeb, Idle, Swept, Stages
<1>9. CASE RestartWorker
  <2>1. clips' = [k \in DOMAIN clips |-> [clips[k] EXCEPT !.late = FALSE]]
    BY <1>9 DEF RestartWorker
  <2>2. \A k \in DOMAIN clips : clips'[k] \in ClipRow
    BY <1>1, <2>1 DEF ClipRow
  <2>3. clips' \in Seq(ClipRow)
    BY <2>1, <2>2, RowsChanged
  <2>4. <<>> \in Seq(Files)
    OBVIOUS
  <2> QED
    BY <1>9, <2>3, <2>4 DEF RestartWorker, Swept, Stages
<1>10. CASE Age \/ LoseDisk \/ UNCHANGED storageVars
  BY <1>10 DEF Age, LoseDisk, storageVars
<1> QED
  BY <1>2, <1>3, <1>4, <1>5, <1>6, <1>7, <1>8, <1>9, <1>10 DEF StorageNext, Sweep

(* What a step of retention may take, it may still take after it.          *)
LEMMA SparedStays ==
  ASSUME StorageTyped, Spared, [StorageNext]_storageVars
  PROVE  Spared'
<1>1. PICK m \in Nat : Len(clips) = m /\ DOMAIN clips = 1..m /\ \A k \in 1..m : clips[k] \in ClipRow
  BY ElementsOfSequence DEF StorageTyped
<1>2. PICK stage \in Stages, todo \in Seq(Files) : sweep["retention"] = [stage |-> stage, todo |-> todo]
  BY DEF StorageTyped, Sweepers
<1>3. /\ stage = "off" => todo = <<>>
      /\ stage = "clips" => \A n \in DOMAIN todo : \E k \in 1..m : clips[k].file = todo[n] /\ Exposed(k)
      /\ stage \in {"job", "exports"} => \A n \in DOMAIN todo : todo[n] \notin ClipFiles
  BY <1>1, <1>2 DEF Spared
<1>4. ASSUME sweep'["retention"] = sweep["retention"],
             stage = "clips" =>
               \A k \in 1..m : Exposed(k) => k \in DOMAIN clips' /\ clips'[k].file = clips[k].file /\ Exposed(k)'
      PROVE  Spared'
  <2>1. sweep'["retention"] = [stage |-> stage, todo |-> todo]
    BY <1>2, <1>4
  <2>2. stage = "clips" => \A n \in DOMAIN todo : \E k \in DOMAIN clips' : clips'[k].file = todo[n] /\ Exposed(k)'
    BY <1>3, <1>4
  <2> QED
    BY <1>3, <2>1, <2>2 DEF Spared
<1>5. ASSUME UNCHANGED clips, sweep'["retention"] = sweep["retention"]
      PROVE  Spared'
  <2>1. \A k \in 1..m : Exposed(k) => k \in DOMAIN clips' /\ clips'[k].file = clips[k].file /\ Exposed(k)'
    BY <1>1, <1>5 DEF Exposed, Preserved
  <2> QED
    BY <1>4, <1>5, <2>1
<1>6. ASSUME NEW t \in Threads, CommitClip(t)
      PROVE  Spared'
  <2>1. PICK row : clips' = Append(clips, row) /\ UNCHANGED sweep
    BY <1>6 DEF CommitClip
  <2>2. \A k \in 1..m : k \in DOMAIN clips' /\ clips'[k] = clips[k]
    BY <1>1, <2>1 DEF StorageTyped
  <2> QED
    BY <1>4, <2>1, <2>2 DEF Exposed, Preserved
<1>7. CASE Publish
  <2>1. PICK j \in DOMAIN clips, s \in PublicationStatuses :
          clips' = [clips EXCEPT ![j].status = s, ![j].late = s = "ready" /\ sweep["retention"].stage = "clips"]
    BY <1>7 DEF Publish
  <2>2. ASSUME NEW k \in 1..m, Exposed(k), stage = "clips"
        PROVE  k \in DOMAIN clips' /\ clips'[k].file = clips[k].file /\ Exposed(k)'
    <3>1. CASE k # j
      BY <1>1, <2>1, <2>2, <3>1 DEF Exposed, Preserved
    <3>2. CASE k = j
      <4>1. clips'[k].status = s /\ clips'[k].file = clips[k].file /\ clips'[k].late = (s = "ready")
        BY <1>1, <1>2, <2>1, <2>2, <3>2 DEF ClipRow
      <4> QED
        BY <1>1, <2>1, <4>1 DEF Exposed, Preserved
    <3> QED
      BY <3>1, <3>2
  <2> QED
    BY <1>4, <1>7, <2>2 DEF Publish
<1>8. ASSUME NEW x \in Sweepers, Proceed(x)
      PROVE  Spared'
  <2>1. PICK next \in Stages :
           /\ sweep' = [sweep EXCEPT ![x] = [stage |-> next, todo |-> Todo(x, next)]]
           /\ clips' = [k \in DOMAIN clips |-> [clips[k] EXCEPT !.late = @ /\ x # "retention"]]
    BY <1>8, Proceeded
  <2>2. \A k \in 1..m : /\ k \in DOMAIN clips' /\ clips'[k].file = clips[k].file
                        /\ clips'[k].status = clips[k].status
                        /\ x = "delete" => clips'[k].late = clips[k].late
    BY <1>1, <2>1 DEF ClipRow
  <2>3. CASE x = "delete"
    <3>1. sweep'["retention"] = sweep["retention"]
      BY <2>1, <2>3 DEF StorageTyped, Sweepers
    <3>2. \A k \in 1..m : Exposed(k) => k \in DOMAIN clips' /\ clips'[k].file = clips[k].file /\ Exposed(k)'
      BY <2>2, <2>3 DEF Exposed, Preserved
    <3> QED
      BY <1>4, <3>1, <3>2
  <2>4. CASE x = "retention"
    <3>1. PICK new : new = Todo(x, next) /\ sweep'["retention"] = [stage |-> next, todo |-> new]
      BY <2>1, <2>4 DEF StorageTyped, Sweepers
    <3>2. /\ next = "off" => new = <<>>
          /\ next = "clips" => \A n \in DOMAIN new : \E k \in 1..m : clips[k].file = new[n] /\ ~Preserved(k)
          /\ next \in {"job", "exports"} => \A n \in DOMAIN new : new[n] \notin ClipFiles
      <4>1. next = "clips" => \A n \in DOMAIN new :
              \E k \in DOMAIN clips : clips[k].file = new[n] /\ (x = "delete" \/ ~Preserved(k))
        BY <3>1, <2>4, TodoOfStage
      <4>2. /\ next = "off" => new = <<>>
            /\ next \in {"job", "exports"} => \A n \in DOMAIN new : new[n] \notin ClipFiles
        BY <3>1, <2>4, TodoOfStage
      <4> QED
        BY <1>1, <2>4, <4>1, <4>2
    <3>3. \A k \in 1..m : ~Preserved(k) => Exposed(k)'
      BY <2>2 DEF Exposed, Preserved
    <3> QED
      BY <2>2, <3>1, <3>2, <3>3 DEF Spared
  <2> QED
    BY <2>3, <2>4 DEF Sweepers
<1>9. ASSUME NEW x \in Sweepers, Unlink(x)
      PROVE  Spared'
  <2>1. sweep[x].todo # <<>> /\ sweep' = [sweep EXCEPT ![x].todo = Tail(@)] /\ UNCHANGED clips
    BY <1>9 DEF Unlink
  <2>2. CASE x = "delete"
    <3>1. sweep'["retention"] = sweep["retention"]
      BY <2>1, <2>2 DEF StorageTyped, Sweepers
    <3> QED
      BY <1>5, <2>1, <3>1
  <2>3. CASE x = "retention"
    <3>1. PICK rest : rest = Tail(todo)
      OBVIOUS
    <3>2. sweep'["retention"] = [stage |-> stage, todo |-> rest]
      <4>1. DOMAIN sweep = Sweepers /\ "retention" \in Sweepers
        BY DEF StorageTyped, Sweepers
      <4>2. sweep' = [sweep EXCEPT !["retention"].todo = Tail(@)]
        BY <2>1, <2>3
      <4>3. sweep'["retention"] = [sweep["retention"] EXCEPT !.todo = Tail(@)]
        BY <4>1, <4>2
      <4>4. sweep["retention"] = [stage |-> stage, todo |-> todo]
        BY <1>2
      <4>5. rest = Tail(sweep["retention"].todo)
        BY <3>1, <4>4
      <4>6. sweep'["retention"] = [sweep["retention"] EXCEPT !.todo = rest]
        BY <4>3, <4>5
      <4> QED
        BY <4>4, <4>6
    <3>3. todo # <<>>
      BY <1>2, <2>1, <2>3
    <3>4. Len(todo) \in Nat \ {0} /\ DOMAIN todo = 1..Len(todo)
      BY <3>3, EmptySeq, LenProperties
    <3>5. rest \in Seq(Files) /\ Len(rest) = Len(todo) - 1 /\ DOMAIN rest = 1..Len(rest)
      BY <3>1, <3>3, HeadTailProperties, LenProperties
    <3>6. \A n \in DOMAIN rest : n + 1 \in DOMAIN todo /\ rest[n] = todo[n + 1]
      BY <3>1, <3>3, <3>4, <3>5
    <3>7. /\ stage = "off" => todo = <<>>
          /\ stage = "clips" => \A n \in DOMAIN rest : \E k \in 1..m : clips[k].file = rest[n] /\ Exposed(k)
          /\ stage \in {"job", "exports"} => \A n \in DOMAIN rest : rest[n] \notin ClipFiles
      BY <1>3, <3>6
    <3>8. \A k \in 1..m : k \in DOMAIN clips' /\ clips'[k] = clips[k] /\ (Exposed(k) => Exposed(k)')
      BY <1>1, <2>1 DEF Exposed, Preserved
    <3> QED
      BY <3>2, <3>3, <3>7, <3>8 DEF Spared
  <2> QED
    BY <2>2, <2>3 DEF Sweepers
<1>10. CASE RestartWorker
  <2>1. sweep'["retention"] = Swept
    BY <1>10 DEF RestartWorker, StorageTyped, Sweepers
  <2> QED
    BY <2>1 DEF Spared, Swept
<1>11. CASE RestartWeb
  <2>1. sweep'["retention"] = sweep["retention"] /\ UNCHANGED clips
    BY <1>11 DEF RestartWeb, StorageTyped, Sweepers
  <2> QED
    BY <1>5, <2>1
<1>12. CASE Age \/ LoseDisk \/ UNCHANGED storageVars
  BY <1>5, <1>12 DEF Age, LoseDisk, storageVars
<1>13. ASSUME NEW t \in Threads, StartClip(t) \/ EndEncode(t) \/ SyncClip(t) \/ StartExport(t) \/ EndExport(t)
       PROVE  Spared'
  BY <1>5, <1>13 DEF StartClip, EndEncode, SyncClip, StartExport, EndExport
<1> QED
  BY <1>6, <1>7, <1>8, <1>9, <1>10, <1>11, <1>12, <1>13 DEF StorageNext, Sweep

(* A clip that is protected keeps its file for any clips, threads, faults  *)
(* and restarts, whatever retention, the deletion of the job, renders and  *)
(* changes of status do meanwhile, but if it was protected while the clips *)
(* were being removed, or shares its file (retention.py 85-105).           *)
THEOREM ProtectedClipsStay == StorageSpec => ProtectedKept
<1>1. StorageInit => StorageTyped /\ Spared
  <2> SUFFICES ASSUME StorageInit
               PROVE  StorageTyped /\ Spared
    OBVIOUS
  <2>1. sweep["retention"] = Swept
    BY DEF StorageInit, Sweepers
  <2>2. clips \in Seq(ClipRow) /\ exports \in Nat
    BY DEF StorageInit
  <2>3. Swept \in [stage : Stages, todo : Seq(Files)] /\ Idle \in [pc : {"idle"}, file : Files]
    BY DEF Swept, Stages, Idle, Files
  <2> QED
    BY <2>1, <2>2, <2>3 DEF StorageInit, StorageTyped, Spared, Swept, Idle
<1>2. StorageTyped /\ Spared /\ [StorageNext]_storageVars => StorageTyped' /\ Spared'
  BY StorageStaysTyped, SparedStays
<1>3. ASSUME StorageTyped, Spared, [StorageNext]_storageVars
      PROVE  \A k \in DOMAIN clips :
               Removes(clips[k].file) => ~Preserved(k) \/ clips[k].late \/ Shared(k)
  <2> SUFFICES ASSUME NEW k \in DOMAIN clips, NEW f, f = clips[k].file, Removes(f)
               PROVE  Exposed(k) \/ Shared(k)
    BY DEF Exposed
  <2>1. f \in ClipFiles
    <3>1. clips \in Seq(ClipRow)
      BY <1>3 DEF StorageTyped
    <3>2. clips[k] \in ClipRow
      BY <3>1, ElementsOfSequence
    <3> QED
      BY <3>2 DEF ClipRow
  <2>2. f \in Files /\ sweep["retention"] # sweep'["retention"] /\ disk[f] # "none" /\ disk'[f] = "none"
    BY <2>1 DEF Files, Removes, On
  <2>3. Unlink("retention")
    <3>1. ~UNCHANGED disk /\ ~UNCHANGED sweep
      BY <2>2
    <3>2. \E x \in Sweepers : Unlink(x)
      BY <1>3, <3>1 DEF StorageNext, storageVars, StartClip, EndEncode, SyncClip, CommitClip, StartExport, EndExport,
                  Sweep, Proceed, Publish, Age, RestartWeb, RestartWorker, LoseDisk
    <3>3. ~Unlink("delete")
      BY <1>3, <2>2 DEF Unlink, StorageTyped, Sweepers
    <3> QED
      BY <3>2, <3>3 DEF Sweepers
  <2>4. PICK stage \in Stages, todo \in Seq(Files) : sweep["retention"] = [stage |-> stage, todo |-> todo]
    BY <1>3 DEF StorageTyped, Sweepers
  <2>5. todo # <<>> /\ f = Head(todo)
    <3>1. PICK g : g = Head(todo)
      OBVIOUS
    <3>2. todo # <<>> /\ (UNCHANGED disk \/ disk' = [disk EXCEPT ![g] = "none"])
      BY <2>3, <2>4, <3>1 DEF Unlink, RemoveFile
    <3> QED
      BY <1>3, <2>2, <3>1, <3>2 DEF StorageTyped
  <2>6. 1 \in DOMAIN todo /\ f = todo[1]
    BY <2>5, ElementsOfSequence
  <2>7. stage = "clips" /\ \E j \in DOMAIN clips : clips[j].file = f /\ Exposed(j)
    BY <1>3, <2>1, <2>4, <2>5, <2>6 DEF Spared, Stages
  <2> QED
    BY <2>7 DEF Shared
<1>4. StorageTyped /\ Spared /\ [StorageNext]_storageVars =>
        [\A k \in DOMAIN clips :
           Removes(clips[k].file) => ~Preserved(k) \/ clips[k].late \/ Shared(k)]_storageVars
  BY <1>3
<1> QED
  BY <1>1, <1>2, <1>4, PTL DEF StorageSpec, ProtectedKept
=============================================================================

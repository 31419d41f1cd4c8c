----------------------------- MODULE FieldsProofs -----------------------------
(***************************************************************************)
(* The numbers of an item, for a UINT64 and an int of any width: what is   *)
(* written digit by digit is read as it was given, and so get_multi()      *)
(* returns the fields that were stored and cas() stores what it should.    *)
(*                                                                         *)
(* A recursive function and a fold are pinned down by induction first: in  *)
(* a set of numbers, since no operator can be the parameter of a theorem.  *)
(***************************************************************************)
EXTENDS ItemFields, SequenceTheorems, FiniteSetTheorems, WellFoundedInduction, TLAPS

-----------------------------------------------------------------------------
(***************************************************************************)
(* Induction, without an operator as a parameter: of a set of numbers that *)
(* has each number all of whose predecessors it has.                       *)
(***************************************************************************)
LEMMA AllNumbers ==
    ASSUME NEW S, \A n \in Nat : (\A m \in 0 .. n - 1 : m \in S) => n \in S
    PROVE  \A n \in Nat : n \in S
<1> DEFINE R == { ss \in Nat \X Nat : ss[1] < ss[2] }
           T == Nat \ S
<1>1. IsWellFoundedOn(R, Nat)
      BY NatLessThanWellFounded DEF OpToRel
<1>2. \A i, m \in Nat : i < m => <<i, m>> \in R
      OBVIOUS
<1> HIDE DEF R
<1>3. SUFFICES ASSUME T # {} PROVE FALSE
      OBVIOUS
<1>4. T \subseteq Nat
      OBVIOUS
<1> HIDE DEF T
<1>5. PICK m \in T : \A i \in T : ~(<<i, m>> \in R)
      BY <1>1, <1>3, <1>4, WFMin
<1>6. m \in Nat /\ \A i \in 0 .. m - 1 : i \notin T
  <2>1. m \in Nat
        BY <1>4, <1>5
  <2>2. \A i \in 0 .. m - 1 : i \in Nat /\ i < m
        BY <2>1
  <2>. QED BY <1>2, <1>5, <2>1, <2>2
<1>7. \A i \in 0 .. m - 1 : i \in S
      BY <1>6 DEF T
<1>. QED BY <1>5, <1>6, <1>7 DEF T

\* And of a set that has 0 and with each number the next one, up to some n.
LEMMA UpTo ==
    ASSUME NEW n \in Nat, NEW S, 0 \in S, \A k \in 0 .. n - 1 : k \in S => k + 1 \in S
    PROVE  \A k \in 0 .. n : k \in S
<1> DEFINE T == S \cup { k \in Nat : k > n }
<1>1. ASSUME NEW k \in Nat, \A m \in 0 .. k - 1 : m \in T
      PROVE  k \in T
  <2>1. CASE k = 0 \/ k > n
        BY <2>1
  <2>2. CASE k # 0 /\ k <= n
    <3>1. k - 1 \in 0 .. k - 1 /\ k - 1 \in 0 .. n - 1 /\ (k - 1) + 1 = k
          BY <2>2
    <3>2. k - 1 \in S
          BY <1>1, <3>1
    <3>. QED BY <3>1, <3>2
  <2>. QED BY <2>1, <2>2
<1> HIDE DEF T
<1>2. \A k \in Nat : k \in T
      BY <1>1, AllNumbers
<1>. QED BY <1>2 DEF T

-----------------------------------------------------------------------------
(***************************************************************************)
(* Remainders.                                                             *)
(***************************************************************************)
LEMMA SmallRest ==
    ASSUME NEW w \in Nat \ {0}, NEW x \in 0 .. w - 1
    PROVE  x % w = x
OBVIOUS

LEMMA RestType ==
    ASSUME NEW w \in Nat \ {0}, NEW x \in Int
    PROVE  x % w \in 0 .. w - 1
OBVIOUS

LEMMA NegativeRest ==
    ASSUME NEW w \in Nat \ {0}, NEW x \in -w .. -1
    PROVE  x % w = x + w
OBVIOUS

LEMMA Times ==
    ASSUME NEW w \in Nat \ {0}, NEW y \in Nat, y % w = 0
    PROVE  \E q \in Nat : y = q * w
OBVIOUS

LEMMA RestOfSum ==
    ASSUME NEW w \in Nat \ {0}, NEW q \in Int, NEW x \in 0 .. w - 1
    PROVE  (q * w + x) % w = x
OBVIOUS

LEMMA RestOfRest ==
    ASSUME NEW w \in Nat \ {0}, NEW q \in Nat \ {0}, NEW x \in Nat
    PROVE  (x % (q * w)) % w = x % w
<1> DEFINE m == q * w
           r == x % m
           d == x \div m
           s == r % w
           e == r \div w
<1>1. m \in Nat \ {0}
      OBVIOUS
<1> HIDE DEF m
<1>2. r \in Nat /\ d \in Nat /\ x = d * m + r
      BY <1>1
<1> HIDE DEF r, d
<1>3. s \in 0 .. w - 1 /\ e \in Nat /\ r = e * w + s
      BY <1>2
<1> HIDE DEF s, e
<1>4. x = (d * q + e) * w + s
      BY <1>2, <1>3 DEF m
<1>5. (x % w) = s
  <2>1. PICK a \in Int : a = d * q + e
        BY <1>2, <1>3
  <2>2. x = a * w + s
        BY <1>4, <2>1
  <2>. QED BY <1>3, <2>1, <2>2, RestOfSum
<1>. QED BY <1>5 DEF s, r, m

\* An int goes out as a UINT64, has 32 bits at the server, and comes back.
LEMMA IntKept ==
    ASSUME NEW i \in Ints
    PROVE  /\ ToUInt64(i) \in 0 .. Word - 1
           /\ i >= 0 => ToUInt64(i) = i
           /\ ToUInt64(i) % IntRange \in 0 .. IntRange - 1
           /\ ToInt(ToUInt64(i) % IntRange) = i
<1>1. /\ Word \in Nat \ {0} /\ IntRange \in Nat \ {0} /\ Word > IntRange
      /\ IntRange \div 2 \in Nat /\ 2 * (IntRange \div 2) = IntRange
      BY NumberAssumption
<1>2. i \in Int /\ ToUInt64(i) \in 0 .. Word - 1
      BY <1>1, RestType DEF Ints, ToUInt64
<1>3. PICK q \in Nat : Word = q * IntRange
      BY <1>1, NumberAssumption, Times
<1>4. CASE i >= 0
  <2>1. i \in 0 .. Word - 1 /\ i \in 0 .. IntRange - 1 /\ i < IntRange \div 2
        BY <1>1, <1>4 DEF Ints
  <2>2. i % Word = i /\ i % IntRange = i
        BY <1>1, <2>1, SmallRest
  <2>. QED BY <1>2, <2>1, <2>2 DEF ToUInt64, ToInt
<1>5. CASE i < 0
  <2>1. i \in -Word .. -1 /\ i + IntRange \in 0 .. IntRange - 1
        /\ ~(i + IntRange < IntRange \div 2)
        BY <1>1, <1>5 DEF Ints
  <2>2. i % Word = i + Word
        BY <1>1, <2>1, NegativeRest
  <2>3. i + Word = (q - 1) * IntRange + (i + IntRange) /\ q - 1 \in Int
        BY <1>1, <1>2, <1>3
  <2>4. (i + Word) % IntRange = i + IntRange
        BY <1>1, <2>1, <2>3, RestOfSum
  <2>5. (i + IntRange) % IntRange = i + IntRange
        BY <1>1, <2>1, SmallRest
  <2>. QED BY <1>1, <1>2, <1>5, <2>1, <2>2, <2>4, <2>5 DEF ToUInt64, ToInt
<1>. QED BY <1>2, <1>4, <1>5

-----------------------------------------------------------------------------
(***************************************************************************)
(* Folds.                                                                  *)
(***************************************************************************)
LEMMA MaxIs ==
    ASSUME NEW n \in Nat, NEW t \in SUBSET (1 .. n), t # {}
    PROVE  Max(t) \in t /\ \A x \in t : Max(t) >= x
<1> DEFINE S == { k \in 0 .. n : t \cap (1 .. k) # {} => \E x \in t \cap (1 .. k) :
                                                           \A y \in t \cap (1 .. k) : x >= y }
<1>1. 0 \in S
      OBVIOUS
<1>2. ASSUME NEW k \in 0 .. n - 1, k \in S PROVE k + 1 \in S
  <2>1. k + 1 \in 0 .. n
        OBVIOUS
  <2>2. CASE k + 1 \in t
    <3>1. k + 1 \in t \cap (1 .. k + 1) /\ \A y \in t \cap (1 .. k + 1) : k + 1 >= y
          BY <2>2
    <3>. QED BY <2>1, <3>1
  <2>3. CASE k + 1 \notin t
    <3>1. t \cap (1 .. k + 1) = t \cap (1 .. k)
      <4>1. \A x \in t : x \in 1 .. n
            OBVIOUS
      <4>2. \A x \in t : x \in 1 .. k + 1 <=> x \in 1 .. k
            BY <2>3, <4>1
      <4>. QED BY <4>2
    <3>. QED BY <1>2, <2>1, <3>1
  <2>. QED BY <2>2, <2>3
<1>3. n \in S
  <2> HIDE DEF S
  <2>. QED BY <1>1, <1>2, UpTo
<1>4. t \cap (1 .. n) = t
      OBVIOUS
<1>5. \E x \in t : \A y \in t : x >= y
      BY <1>3, <1>4
<1>. QED BY <1>5 DEF Max

LEMMA MaxOfPrefix ==
    ASSUME NEW k \in Nat
    PROVE  /\ Max(1 .. k + 1) = k + 1 /\ (1 .. k + 1) \ {k + 1} = 1 .. k
           /\ 1 .. k + 1 # {}
<1>1. k + 1 \in 1 .. k + 1 /\ k + 1 \in Nat
      OBVIOUS
<1>2. PICK m \in 1 .. k + 1 : m = Max(1 .. k + 1) /\ m >= k + 1
      BY <1>1, MaxIs
<1>3. m = k + 1
      BY <1>2
<1>4. (1 .. k + 1) \ {k + 1} = 1 .. k
      OBVIOUS
<1>. QED BY <1>1, <1>2, <1>3, <1>4

\* FoldLeft is a function of sets of positions, and there is one.
LEMMA FoldExists ==
    ASSUME NEW Op \in [Nat \X Nat -> Nat], NEW n \in Nat, NEW s \in [1 .. n -> Nat]
    PROVE  \E iter \in [SUBSET (1 .. n) -> Nat] : \A t \in SUBSET (1 .. n) :
               iter[t] = IF t = {} THEN 0 ELSE Op[<<iter[t \ {Max(t)}], s[Max(t)]>>]
<1> DEFINE Folds(iter, k) == \A t \in SUBSET (1 .. k) :
               iter[t] = IF t = {} THEN 0 ELSE Op[<<iter[t \ {Max(t)}], s[Max(t)]>>]
           S == { k \in 0 .. n : \E iter \in [SUBSET (1 .. k) -> Nat] : Folds(iter, k) }
<1>1. 0 \in S
  <2> DEFINE g == [t \in SUBSET (1 .. 0) |-> 0]
  <2>1. \A t \in SUBSET (1 .. 0) : t = {}
        OBVIOUS
  <2>2. g \in [SUBSET (1 .. 0) -> Nat]
        OBVIOUS
  <2>3. Folds(g, 0)
        BY <2>1
  <2> HIDE DEF g
  <2>4. \E iter \in [SUBSET (1 .. 0) -> Nat] : Folds(iter, 0)
        BY <2>2, <2>3
  <2>5. 0 \in 0 .. n
        OBVIOUS
  <2>. QED BY <2>4, <2>5
<1>2. ASSUME NEW k \in 0 .. n - 1, k \in S PROVE k + 1 \in S
  <2>1. PICK g \in [SUBSET (1 .. k) -> Nat] : Folds(g, k)
        BY <1>2
  <2> DEFINE h == [t \in SUBSET (1 .. k + 1) |->
                      IF k + 1 \in t THEN Op[<<g[t \ {k + 1}], s[k + 1]>>] ELSE g[t]]
  <2>2. \A t \in SUBSET (1 .. k + 1) :
            /\ t \ {k + 1} \in SUBSET (1 .. k)
            /\ k + 1 \notin t => t \in SUBSET (1 .. k)
    <3>1. (1 .. k + 1) \ {k + 1} = 1 .. k
          OBVIOUS
    <3>. QED BY <3>1
  <2>3. k + 1 \in 0 .. n /\ k + 1 \in 1 .. n /\ k + 1 \in Nat /\ s[k + 1] \in Nat
        OBVIOUS
  <2>4. h \in [SUBSET (1 .. k + 1) -> Nat]
    <3>1. \A t \in SUBSET (1 .. k + 1) : g[t \ {k + 1}] \in Nat
          BY <2>2
    <3>2. \A t \in SUBSET (1 .. k + 1) : Op[<<g[t \ {k + 1}], s[k + 1]>>] \in Nat
          BY <2>3, <3>1
    <3>3. \A t \in SUBSET (1 .. k + 1) : k + 1 \notin t => g[t] \in Nat
          BY <2>2
    <3>4. \A t \in SUBSET (1 .. k + 1) :
              (IF k + 1 \in t THEN Op[<<g[t \ {k + 1}], s[k + 1]>>] ELSE g[t]) \in Nat
          BY <3>2, <3>3
    <3>. QED BY <3>4
  <2>5. ASSUME NEW t \in SUBSET (1 .. k + 1)
        PROVE  h[t] = IF t = {} THEN 0 ELSE Op[<<h[t \ {Max(t)}], s[Max(t)]>>]
    <3>1. CASE k + 1 \in t
      <4>1. PICK m \in 1 .. k + 1 : m = Max(t) /\ m >= k + 1
        <5>1. t # {} /\ k + 1 \in Nat /\ \A x \in t : x \in 1 .. k + 1
              BY <2>3, <3>1
        <5>2. Max(t) \in t /\ \A x \in t : Max(t) >= x
              BY <5>1, MaxIs
        <5>. QED BY <3>1, <5>1, <5>2
      <4>2. Max(t) = k + 1
        <5>1. m = k + 1
              BY <4>1
        <5>. QED BY <4>1, <5>1
      <4>3. t \ {k + 1} \in SUBSET (1 .. k + 1) /\ k + 1 \notin t \ {k + 1}
            OBVIOUS
      <4>4. h[t \ {k + 1}] = g[t \ {k + 1}]
            BY <4>3
      <4>5. h[t] = Op[<<g[t \ {k + 1}], s[k + 1]>>]
            BY <3>1
      <4>6. t # {}
            BY <3>1
      <4> HIDE DEF h
      <4>. QED BY <4>2, <4>4, <4>5, <4>6
    <3>2. CASE k + 1 \notin t
      <4>1. t \in SUBSET (1 .. k) /\ h[t] = g[t]
            BY <2>2, <3>2
      <4>2. g[t] = IF t = {} THEN 0 ELSE Op[<<g[t \ {Max(t)}], s[Max(t)]>>]
            BY <2>1, <4>1
      <4>3. h[t \ {Max(t)}] = g[t \ {Max(t)}]
            BY <3>2
      <4> HIDE DEF h
      <4>. QED BY <4>1, <4>2, <4>3
    <3>. QED BY <3>1, <3>2
  <2> HIDE DEF h
  <2>6. Folds(h, k + 1)
        BY <2>5
  <2>. QED BY <2>3, <2>4, <2>6
<1> HIDE DEF S
<1>3. \A k \in 0 .. n : k \in S
      BY <1>1, <1>2, UpTo
<1>4. n \in S
      BY <1>3
<1>. QED BY <1>4 DEF S

\* What the digits up to each place make.
Adds(val, chars) ==
    /\ val \in [0 .. Len(chars) -> Nat] /\ val[0] = 0
    /\ \A k \in 1 .. Len(chars) : val[k] = 10 * val[k - 1] + chars[k]

AddsModulo(val, chars) ==
    /\ val \in [0 .. Len(chars) -> Nat] /\ val[0] = 0
    /\ \A k \in 1 .. Len(chars) : val[k] = (10 * val[k - 1] + chars[k]) % Word

LEMMA DecimalIs ==
    ASSUME NEW chars \in Seq(Nat)
    PROVE  \E val : Adds(val, chars) /\ Decimal(chars) = val[Len(chars)]
<1> DEFINE n == Len(chars)
           Op == [p \in Nat \X Nat |-> 10 * p[1] + p[2]]
           Is(iter) == iter = [t \in SUBSET DOMAIN chars |->
                                  IF t = {} THEN 0 ELSE 10 * iter[t \ {Max(t)}] + chars[Max(t)]]
           c == CHOOSE iter : Is(iter)
<1>1. n \in Nat /\ DOMAIN chars = 1 .. n /\ chars \in [1 .. n -> Nat]
      BY LenProperties
<1>2. Op \in [Nat \X Nat -> Nat] /\ \A a, b \in Nat : Op[<<a, b>>] = 10 * a + b
      OBVIOUS
<1>3. Decimal(chars) = c[DOMAIN chars]
      BY DEF Decimal, FoldLeft, MapThenFoldSet
<1> HIDE DEF n, Op
<1>4. Is(c)
  <2>1. PICK iter \in [SUBSET (1 .. n) -> Nat] : \A t \in SUBSET (1 .. n) :
            iter[t] = IF t = {} THEN 0 ELSE Op[<<iter[t \ {Max(t)}], chars[Max(t)]>>]
        BY <1>1, <1>2, FoldExists
  <2>2. ASSUME NEW t \in SUBSET (1 .. n)
        PROVE  iter[t] = IF t = {} THEN 0 ELSE 10 * iter[t \ {Max(t)}] + chars[Max(t)]
    <3>1. t # {} => Max(t) \in 1 .. n
          BY <1>1, MaxIs
    <3>2. t # {} => chars[Max(t)] \in Nat
          BY <1>1, <3>1
    <3>3. iter[t \ {Max(t)}] \in Nat
          OBVIOUS
    <3>. QED BY <1>2, <2>1, <3>2, <3>3
  <2>3. Is(iter)
        BY <1>1, <2>2
  <2>. QED BY <2>3
<1> HIDE DEF c
<1>5. c[{}] = 0 /\ 1 .. 0 = {}
      BY <1>4
<1>6. ASSUME NEW k \in 0 .. n - 1
      PROVE  c[1 .. k + 1] = 10 * c[1 .. k] + chars[k + 1]
  <2>1. 1 .. k + 1 \in SUBSET DOMAIN chars /\ k \in Nat
        BY <1>1
  <2>2. c[1 .. k + 1] = IF 1 .. k + 1 = {} THEN 0
                        ELSE 10 * c[(1 .. k + 1) \ {Max(1 .. k + 1)}] + chars[Max(1 .. k + 1)]
        BY <1>4, <2>1
  <2>. QED BY <2>1, <2>2, MaxOfPrefix
<1>7. \A k \in 0 .. n : c[1 .. k] \in Nat
  <2> DEFINE S == { k \in 0 .. n : c[1 .. k] \in Nat }
  <2>1. 0 \in S
        BY <1>1, <1>5
  <2>2. ASSUME NEW k \in 0 .. n - 1, k \in S PROVE k + 1 \in S
    <3>1. chars[k + 1] \in Nat /\ k + 1 \in 0 .. n
          BY <1>1
    <3>. QED BY <1>6, <2>2, <3>1
  <2> HIDE DEF S
  <2>3. \A k \in 0 .. n : k \in S
        BY <1>1, <2>1, <2>2, UpTo
  <2>. QED BY <2>3 DEF S
<1> DEFINE val == [k \in 0 .. n |-> c[1 .. k]]
<1>8. val \in [0 .. n -> Nat] /\ val[0] = 0 /\ val[n] = c[1 .. n]
      BY <1>1, <1>5, <1>7
<1>9. ASSUME NEW k \in 1 .. n PROVE val[k] = 10 * val[k - 1] + chars[k]
  <2>1. k - 1 \in 0 .. n - 1 /\ (k - 1) + 1 = k /\ k \in 0 .. n /\ k - 1 \in 0 .. n
        BY <1>1
  <2>2. c[1 .. k] = 10 * c[1 .. k - 1] + chars[k]
        BY <1>6, <2>1
  <2>. QED BY <2>1, <2>2
<1> HIDE DEF val
<1>10. Adds(val, chars)
      BY <1>8, <1>9 DEF Adds, n
<1>. QED BY <1>1, <1>3, <1>8, <1>10 DEF n

LEMMA NumberIs ==
    ASSUME NEW chars \in Seq(Nat)
    PROVE  \E val : AddsModulo(val, chars) /\ Number(chars) = val[Len(chars)]
<1> DEFINE n == Len(chars)
           Op == [p \in Nat \X Nat |-> (10 * p[1] + p[2]) % Word]
           Is(iter) == iter = [t \in SUBSET DOMAIN chars |->
                                  IF t = {} THEN 0 ELSE (10 * iter[t \ {Max(t)}] + chars[Max(t)]) % Word]
           c == CHOOSE iter : Is(iter)
<1>1. n \in Nat /\ DOMAIN chars = 1 .. n /\ chars \in [1 .. n -> Nat]
      BY LenProperties
<1>2. \A a, b \in Nat : (10 * a + b) % Word \in Nat
      BY NumberAssumption
<1>3. Op \in [Nat \X Nat -> Nat] /\ \A a, b \in Nat : Op[<<a, b>>] = (10 * a + b) % Word
      BY <1>2
<1>4. Number(chars) = c[DOMAIN chars]
      BY DEF Number, FoldLeft, MapThenFoldSet
<1> HIDE DEF n, Op
<1>5. Is(c)
  <2>1. PICK iter \in [SUBSET (1 .. n) -> Nat] : \A t \in SUBSET (1 .. n) :
            iter[t] = IF t = {} THEN 0 ELSE Op[<<iter[t \ {Max(t)}], chars[Max(t)]>>]
        BY <1>1, <1>3, FoldExists
  <2>2. ASSUME NEW t \in SUBSET (1 .. n)
        PROVE  iter[t] = IF t = {} THEN 0 ELSE (10 * iter[t \ {Max(t)}] + chars[Max(t)]) % Word
    <3>1. t # {} => Max(t) \in 1 .. n
          BY <1>1, MaxIs
    <3>2. t # {} => chars[Max(t)] \in Nat
          BY <1>1, <3>1
    <3>3. iter[t \ {Max(t)}] \in Nat
          OBVIOUS
    <3>. QED BY <1>3, <2>1, <3>2, <3>3
  <2>3. Is(iter)
        BY <1>1, <2>2
  <2>. QED BY <2>3
<1> HIDE DEF c
<1>6. c[{}] = 0 /\ 1 .. 0 = {}
      BY <1>5
<1>7. ASSUME NEW k \in 0 .. n - 1
      PROVE  c[1 .. k + 1] = (10 * c[1 .. k] + chars[k + 1]) % Word
  <2>1. 1 .. k + 1 \in SUBSET DOMAIN chars /\ k \in Nat
        BY <1>1
  <2>2. c[1 .. k + 1] = IF 1 .. k + 1 = {} THEN 0
                        ELSE (10 * c[(1 .. k + 1) \ {Max(1 .. k + 1)}]
                              + chars[Max(1 .. k + 1)]) % Word
        BY <1>5, <2>1
  <2>. QED BY <2>1, <2>2, MaxOfPrefix
<1>8. \A k \in 0 .. n : c[1 .. k] \in Nat
  <2> DEFINE S == { k \in 0 .. n : c[1 .. k] \in Nat }
  <2>1. 0 \in S
        BY <1>1, <1>6
  <2>2. ASSUME NEW k \in 0 .. n - 1, k \in S PROVE k + 1 \in S
    <3>1. chars[k + 1] \in Nat /\ k + 1 \in 0 .. n
          BY <1>1
    <3>. QED BY <1>2, <1>7, <2>2, <3>1
  <2> HIDE DEF S
  <2>3. \A k \in 0 .. n : k \in S
        BY <1>1, <2>1, <2>2, UpTo
  <2>. QED BY <2>3 DEF S
<1> DEFINE val == [k \in 0 .. n |-> c[1 .. k]]
<1>9. val \in [0 .. n -> Nat] /\ val[0] = 0 /\ val[n] = c[1 .. n]
      BY <1>1, <1>6, <1>8
<1>10. ASSUME NEW k \in 1 .. n PROVE val[k] = (10 * val[k - 1] + chars[k]) % Word
  <2>1. k - 1 \in 0 .. n - 1 /\ (k - 1) + 1 = k /\ k \in 0 .. n /\ k - 1 \in 0 .. n
        BY <1>1
  <2>2. c[1 .. k] = (10 * c[1 .. k - 1] + chars[k]) % Word
        BY <1>7, <2>1
  <2>. QED BY <2>1, <2>2
<1> HIDE DEF val
<1>11. AddsModulo(val, chars)
      BY <1>9, <1>10 DEF AddsModulo, n
<1>. QED BY <1>1, <1>4, <1>9, <1>11 DEF n

-----------------------------------------------------------------------------
(***************************************************************************)
(* What writeNumeric() writes.  The recursive definition of the digits has *)
(* a solution: one up to each number, which agree where they meet.         *)
(***************************************************************************)
DigitsUpTo(f, n) ==
    /\ f \in [0 .. n -> Seq(Digit)]
    /\ \A v \in 0 .. n : f[v] = IF v < 10 THEN <<v>> ELSE <<v % 10>> \o f[v \div 10]

LEMMA DigitTypes ==
    ASSUME NEW v \in Nat
    PROVE  /\ v < 10 => <<v>> \in Seq(Digit)
           /\ <<v % 10>> \in Seq(Digit)
           /\ v >= 10 => v \div 10 \in 0 .. v - 1
           /\ v \div 10 \in Nat /\ v % 10 \in Digit /\ v = 10 * (v \div 10) + (v % 10)
<1>1. /\ v < 10 => v \in Digit
      /\ v % 10 \in Digit /\ v \div 10 \in Nat /\ v = 10 * (v \div 10) + (v % 10)
      /\ v >= 10 => v \div 10 \in 0 .. v - 1
      BY DEF Digit
<1>2. v < 10 => <<v>> \in Seq(Digit)
      BY <1>1
<1>3. <<v % 10>> \in Seq(Digit)
      BY <1>1
<1>. QED BY <1>1, <1>2, <1>3

LEMMA DigitsExist ==
    ASSUME NEW n \in Nat
    PROVE  \E f : DigitsUpTo(f, n)
<1> DEFINE S == { k \in 0 .. n : \E f : DigitsUpTo(f, k) }
<1>1. 0 \in S
  <2> DEFINE f == [v \in 0 .. 0 |-> <<v>>]
  <2>1. \A v \in 0 .. 0 : v < 10 /\ v \in Nat
        OBVIOUS
  <2>2. f \in [0 .. 0 -> Seq(Digit)]
        BY <2>1, DigitTypes
  <2>3. DigitsUpTo(f, 0)
        BY <2>1, <2>2 DEF DigitsUpTo
  <2>. QED BY <2>3
<1>2. ASSUME NEW k \in 0 .. n - 1, k \in S PROVE k + 1 \in S
  <2>1. PICK f : DigitsUpTo(f, k)
        BY <1>2
  <2> DEFINE new == IF k + 1 < 10 THEN <<k + 1>> ELSE <<(k + 1) % 10>> \o f[(k + 1) \div 10]
             g == [v \in 0 .. k + 1 |-> IF v = k + 1 THEN new ELSE f[v]]
  <2>2. k + 1 \in Nat /\ k + 1 \in 0 .. n /\ (k + 1) - 1 = k
        OBVIOUS
  <2>3. \A v \in 0 .. k + 1 : v # k + 1 => v \in 0 .. k
        OBVIOUS
  <2>4. new \in Seq(Digit)
    <3>1. CASE k + 1 < 10
          BY <2>2, <3>1, DigitTypes
    <3>2. CASE ~(k + 1 < 10)
      <4>1. k + 1 >= 10 /\ <<(k + 1) % 10>> \in Seq(Digit)
            BY <2>2, <3>2, DigitTypes
      <4>2. (k + 1) \div 10 \in 0 .. k
            BY <2>2, <4>1, DigitTypes
      <4>3. f[(k + 1) \div 10] \in Seq(Digit)
            BY <2>1, <4>2 DEF DigitsUpTo
      <4>. QED BY <3>2, <4>1, <4>3, ConcatProperties
    <3>. QED BY <3>1, <3>2
  <2>5. g \in [0 .. k + 1 -> Seq(Digit)]
        BY <2>1, <2>3, <2>4 DEF DigitsUpTo
  <2>6. ASSUME NEW v \in 0 .. k + 1
        PROVE  g[v] = IF v < 10 THEN <<v>> ELSE <<v % 10>> \o g[v \div 10]
    <3>1. v \in Nat /\ (v >= 10 => v \div 10 \in 0 .. k /\ v \div 10 # k + 1)
          OBVIOUS
    <3>2. v >= 10 => g[v \div 10] = f[v \div 10]
          BY <3>1
    <3>3. g[v] = IF v = k + 1 THEN new ELSE f[v]
          OBVIOUS
    <3> HIDE DEF g
    <3>4. CASE v = k + 1
          BY <3>1, <3>2, <3>3, <3>4
    <3>5. CASE v # k + 1
      <4>1. f[v] = IF v < 10 THEN <<v>> ELSE <<v % 10>> \o f[v \div 10]
            BY <2>1, <2>3, <3>5 DEF DigitsUpTo
      <4>. QED BY <3>1, <3>2, <3>3, <3>5, <4>1
    <3>. QED BY <3>4, <3>5
  <2> HIDE DEF g
  <2>7. DigitsUpTo(g, k + 1)
        BY <2>5, <2>6 DEF DigitsUpTo
  <2>. QED BY <2>2, <2>7
<1> HIDE DEF S
<1>3. \A k \in 0 .. n : k \in S
      BY <1>1, <1>2, UpTo
<1>4. n \in S
      BY <1>3
<1>. QED BY <1>4 DEF S

LEMMA DigitsAgree ==
    ASSUME NEW m \in Nat, NEW n \in Nat, NEW f, NEW g, DigitsUpTo(f, m), DigitsUpTo(g, n)
    PROVE  \A v \in Nat : v <= m /\ v <= n => f[v] = g[v]
<1> DEFINE S == { v \in Nat : v <= m /\ v <= n => f[v] = g[v] }
<1>1. ASSUME NEW v \in Nat, \A w \in 0 .. v - 1 : w \in S PROVE v \in S
  <2>1. SUFFICES ASSUME v <= m, v <= n PROVE f[v] = g[v]
        OBVIOUS
  <2>2. v \in 0 .. m /\ v \in 0 .. n
        BY <2>1
  <2>3. /\ f[v] = IF v < 10 THEN <<v>> ELSE <<v % 10>> \o f[v \div 10]
        /\ g[v] = IF v < 10 THEN <<v>> ELSE <<v % 10>> \o g[v \div 10]
        BY <2>2 DEF DigitsUpTo
  <2>4. ASSUME v >= 10 PROVE f[v \div 10] = g[v \div 10]
    <3>1. v \div 10 \in 0 .. v - 1 /\ v \div 10 <= m /\ v \div 10 <= n
          BY <2>1, <2>4
    <3>. QED BY <1>1, <3>1
  <2>. QED BY <2>3, <2>4
<1> HIDE DEF S
<1>2. \A v \in Nat : v \in S
      BY <1>1, AllNumbers
<1>. QED BY <1>2 DEF S

LEMMA LastDigits ==
    ASSUME NEW v \in Nat
    PROVE  /\ LastDigitFirst[v] \in Seq(Digit)
           /\ LastDigitFirst[v] = IF v < 10 THEN <<v>>
                                  ELSE <<v % 10>> \o LastDigitFirst[v \div 10]
<1> DEFINE Is(f) == f = [u \in Nat |-> IF u < 10 THEN <<u>> ELSE <<u % 10>> \o f[u \div 10]]
           F == [u \in Nat |-> (CHOOSE f : DigitsUpTo(f, u))[u]]
<1>1. LastDigitFirst = CHOOSE f : Is(f)
      BY DEF LastDigitFirst
<1>2. ASSUME NEW u \in Nat
      PROVE  /\ F[u] \in Seq(Digit)
             /\ F[u] = IF u < 10 THEN <<u>> ELSE <<u % 10>> \o F[u \div 10]
  <2>1. PICK f : f = CHOOSE g : DigitsUpTo(g, u)
        OBVIOUS
  <2>2. DigitsUpTo(f, u) /\ F[u] = f[u] /\ u \in 0 .. u
        BY <2>1, DigitsExist
  <2>3. F[u] \in Seq(Digit) /\ f[u] = IF u < 10 THEN <<u>> ELSE <<u % 10>> \o f[u \div 10]
        BY <2>2 DEF DigitsUpTo
  <2>4. ASSUME u >= 10 PROVE F[u \div 10] = f[u \div 10]
    <3>1. PICK w \in Nat : w = u \div 10 /\ w <= u
          BY <2>4
    <3>2. PICK g : g = CHOOSE h : DigitsUpTo(h, w)
          OBVIOUS
    <3>3. DigitsUpTo(g, w) /\ F[w] = g[w]
          BY <3>2, DigitsExist
    <3>4. g[w] = f[w]
          BY <2>2, <3>1, <3>3, DigitsAgree
    <3>. QED BY <3>1, <3>3, <3>4
  <2>. QED BY <2>2, <2>3, <2>4
<1>3. Is(F)
  <2> DEFINE G == [u \in Nat |-> IF u < 10 THEN <<u>> ELSE <<u % 10>> \o F[u \div 10]]
  <2>1. \A u \in Nat : F[u] = G[u]
        BY <1>2
  <2>2. DOMAIN F = Nat /\ DOMAIN G = Nat
        OBVIOUS
  <2>3. F = [u \in Nat |-> F[u]] /\ G = [u \in Nat |-> G[u]]
        OBVIOUS
  <2> HIDE DEF F
  <2>. QED BY <2>1, <2>3
<1> HIDE DEF F
<1>4. Is(LastDigitFirst)
      BY <1>1, <1>3
<1>5. \A u \in Nat : LastDigitFirst[u] = F[u]
  <2> DEFINE S == { u \in Nat : LastDigitFirst[u] = F[u] }
             L == LastDigitFirst
  <2>1. \A u \in Nat : L[u] = IF u < 10 THEN <<u>> ELSE <<u % 10>> \o L[u \div 10]
        BY <1>4
  <2>2. ASSUME NEW u \in Nat, \A w \in 0 .. u - 1 : w \in S PROVE u \in S
    <3>1. u >= 10 => u \div 10 \in 0 .. u - 1
          OBVIOUS
    <3>2. u >= 10 => L[u \div 10] = F[u \div 10]
          BY <2>2, <3>1
    <3> HIDE DEF L
    <3>3. L[u] = F[u]
      <4>1. CASE u < 10
        <5>1. F[u] = <<u>>
              BY <1>2, <4>1
        <5>2. L[u] = <<u>>
              BY <2>1, <4>1
        <5>. QED BY <5>1, <5>2
      <4>2. CASE ~(u < 10)
        <5>1. L[u] = <<u % 10>> \o L[u \div 10] /\ F[u] = <<u % 10>> \o F[u \div 10]
              BY <1>2, <2>1, <4>2
        <5>2. u >= 10
              BY <4>2
        <5>. QED BY <3>2, <5>1, <5>2
      <4>. QED BY <4>1, <4>2
    <3>. QED BY <3>3 DEF L
  <2> HIDE DEF S
  <2>3. \A u \in Nat : u \in S
        BY <2>2, AllNumbers
  <2>. QED BY <2>3 DEF S
<1>6. LastDigitFirst[v] \in Seq(Digit)
      BY <1>2, <1>5
<1>7. LastDigitFirst[v] = IF v < 10 THEN <<v>> ELSE <<v % 10>> \o LastDigitFirst[v \div 10]
      BY <1>4
<1>. QED BY <1>6, <1>7

\* What the digits of u make, from the first to each place.
AddsBack(val, u) ==
    LET s == LastDigitFirst[u]
    IN  /\ val \in [0 .. Len(s) -> Nat] /\ val[0] = 0
        /\ \A k \in 1 .. Len(s) : val[k] = 10 * val[k - 1] + s[Len(s) - k + 1]

LEMMA DigitsMakeIt ==
    ASSUME NEW v \in Nat
    PROVE  \A val : AddsBack(val, v) =>
               /\ Len(LastDigitFirst[v]) \in Nat \ {0}
               /\ val[Len(LastDigitFirst[v])] = v
               /\ \A k \in 0 .. Len(LastDigitFirst[v]) : val[k] <= v
<1> DEFINE Makes(val, u) == /\ Len(LastDigitFirst[u]) \in Nat \ {0}
                            /\ val[Len(LastDigitFirst[u])] = u
                            /\ \A k \in 0 .. Len(LastDigitFirst[u]) : val[k] <= u
           S == { u \in Nat : \A val : AddsBack(val, u) => Makes(val, u) }
<1>1. ASSUME NEW u \in Nat, \A w \in 0 .. u - 1 : w \in S PROVE u \in S
  <2> SUFFICES ASSUME NEW val, AddsBack(val, u) PROVE Makes(val, u)
      OBVIOUS
  <2> DEFINE s == LastDigitFirst[u]
             n == Len(s)
  <2>1. s \in Seq(Digit) /\ n \in Nat
        BY LastDigits, LenProperties
  <2>2. /\ val \in [0 .. n -> Nat] /\ val[0] = 0
        /\ \A k \in 1 .. n : val[k] = 10 * val[k - 1] + s[n - k + 1]
        BY DEF AddsBack
  <2>3. CASE u < 10
    <3>1. s = <<u>>
          BY <2>3, LastDigits
    <3>2. n = 1 /\ s[1] = u
          BY <3>1
    <3>3. val[1] = 10 * val[1 - 1] + s[n - 1 + 1]
          BY <2>2, <3>2
    <3>4. val[1] = u
          BY <2>2, <3>2, <3>3
    <3>5. \A k \in 0 .. n : k = 0 \/ k = 1
          BY <3>2
    <3>. QED BY <2>2, <3>2, <3>4, <3>5
  <2>4. CASE ~(u < 10)
    <3>1. PICK w \in Nat : w = u \div 10 /\ w \in 0 .. u - 1 /\ u = 10 * w + (u % 10)
          BY <2>4
    <3> DEFINE t == LastDigitFirst[w]
               m == Len(t)
    <3>2. s = <<u % 10>> \o t
          BY <2>4, <3>1, LastDigits
    <3>3. t \in Seq(Digit) /\ m \in Nat /\ <<u % 10>> \in Seq(Digit)
          BY <3>1, LastDigits, LenProperties, DigitTypes
    <3> HIDE DEF s, t
    <3>4. /\ n = m + 1 /\ s[1] = u % 10
          /\ \A k \in 1 .. m : s[k + 1] = t[k]
      <4>1. Len(<<u % 10>>) = 1 /\ <<u % 10>>[1] = u % 10
            OBVIOUS
      <4>2. /\ n = 1 + m
            /\ \A k \in 1 .. 1 + m : s[k] = IF k <= 1 THEN <<u % 10>>[k] ELSE t[k - 1]
            BY <3>2, <3>3, <4>1, ConcatProperties
      <4>3. \A k \in 1 .. m : k + 1 \in 1 .. 1 + m /\ ~(k + 1 <= 1) /\ (k + 1) - 1 = k
            BY <3>3
      <4>4. \A k \in 1 .. m : s[k + 1] = t[k]
            BY <4>2, <4>3
      <4>5. 1 \in 1 .. 1 + m
            BY <3>3
      <4>6. s[1] = u % 10
            BY <4>1, <4>2, <4>5
      <4>. QED BY <3>3, <4>2, <4>4, <4>6
    <3> DEFINE sub == [k \in 0 .. m |-> val[k]]
    <3>5. \A k \in 0 .. m : k \in 0 .. n /\ val[k] \in Nat
          BY <2>2, <3>3, <3>4
    <3>6. sub \in [0 .. m -> Nat] /\ sub[0] = 0 /\ \A k \in 0 .. m : sub[k] = val[k]
          BY <2>2, <3>3, <3>5
    <3> HIDE DEF sub, n, m
    <3>7. ASSUME NEW k \in 1 .. m
          PROVE  sub[k] = 10 * sub[k - 1] + t[m - k + 1]
      <4>1. /\ k \in 1 .. n /\ k \in 0 .. m /\ k - 1 \in 0 .. m /\ m - k + 1 \in 1 .. m
            /\ n - k + 1 = (m - k + 1) + 1
            BY <3>3, <3>4
      <4>2. val[k] = 10 * val[k - 1] + s[n - k + 1]
            BY <2>2, <4>1
      <4>3. s[n - k + 1] = t[m - k + 1]
            BY <3>4, <4>1
      <4>. QED BY <3>6, <4>1, <4>2, <4>3
    <3>8. AddsBack(sub, w)
          BY <3>6, <3>7 DEF AddsBack, m, t
    <3>9. Makes(sub, w)
          BY <1>1, <3>1, <3>8
    <3>10. sub[m] = w /\ \A k \in 0 .. m : sub[k] <= w
          BY <3>9 DEF m, t
    <3>11. val[n] = u
      <4>1. n \in 1 .. n /\ n - 1 = m /\ n - n + 1 = 1 /\ m \in 0 .. m
            BY <3>3, <3>4
      <4>2. val[n] = 10 * val[m] + s[1]
            BY <2>2, <4>1
      <4>3. val[m] = w
            BY <3>6, <3>10, <4>1
      <4>. QED BY <3>1, <3>4, <4>2, <4>3
    <3>12. ASSUME NEW k \in 0 .. n PROVE val[k] <= u
      <4>1. k \in 0 .. m \/ k = n
            BY <3>3, <3>4
      <4>2. ASSUME k \in 0 .. m PROVE val[k] <= u
        <5>1. val[k] \in Nat /\ val[k] <= w
              BY <3>5, <3>6, <3>10, <4>2
        <5>. QED BY <3>1, <5>1
      <4>. QED BY <3>11, <4>1, <4>2
    <3>13. n \in Nat \ {0}
          BY <3>3, <3>4
    <3>. QED BY <3>11, <3>12, <3>13 DEF n, s
  <2>. QED BY <2>3, <2>4
<1> HIDE DEF S
<1>2. \A u \in Nat : u \in S
      BY <1>1, AllNumbers
<1>. QED BY <1>2 DEF S

\* A remainder may be taken at every digit.
LEMMA RestOfDigit ==
    ASSUME NEW w \in Nat \ {0}, NEW x \in Nat, NEW d \in Nat
    PROVE  (10 * (x % w) + d) % w = (10 * x + d) % w
<1>1. PICK q \in Int, r \in 0 .. w - 1 : x = q * w + r /\ x % w = r
  <2>1. x % w \in 0 .. w - 1 /\ x \div w \in Int /\ x = (x \div w) * w + (x % w)
        OBVIOUS
  <2>. QED BY <2>1
<1>2. PICK p \in Int, e \in 0 .. w - 1 : 10 * r + d = p * w + e
  <2>1. PICK y \in Nat : y = 10 * r + d
        OBVIOUS
  <2>2. y % w \in 0 .. w - 1 /\ y \div w \in Int /\ y = (y \div w) * w + (y % w)
        OBVIOUS
  <2>. QED BY <2>1, <2>2
<1>3. 10 * x + d = (10 * q + p) * w + e /\ 10 * q + p \in Int
  <2>1. 10 * x + d = 10 * (q * w) + (10 * r + d)
        BY <1>1
  <2>. QED BY <1>2, <2>1
<1>4. (p * w + e) % w = e /\ ((10 * q + p) * w + e) % w = e
      BY <1>3, RestOfSum
<1>. QED BY <1>1, <1>2, <1>3, <1>4

(***************************************************************************)
(* The digits of a number are at least one; Decimal() makes the number of  *)
(* them, and readNumeric() its remainder.                                  *)
(***************************************************************************)
LEMMA DigitsRead ==
    ASSUME NEW u \in Nat
    PROVE  /\ Digits(u) \in Seq(Digit) /\ Digits(u) \in Seq(Nat)
           /\ Len(Digits(u)) \in Nat \ {0}
           /\ Decimal(Digits(u)) = u /\ Number(Digits(u)) = u % Word
<1> DEFINE s == LastDigitFirst[u]
           n == Len(s)
           w == Digits(u)
<1>1. Word \in Nat \ {0}
      BY NumberAssumption
<1>2. s \in Seq(Digit) /\ n \in Nat /\ DOMAIN s = 1 .. n /\ Digit \subseteq Nat
  <2>1. s \in Seq(Digit)
        BY LastDigits
  <2>2. Digit \subseteq Nat
        BY DEF Digit
  <2> HIDE DEF s
  <2>. QED BY <2>1, <2>2, LenProperties
<1>3. w = [k \in 1 .. n |-> s[(n - k) + 1]]
      BY DEF Digits, Reverse
<1> HIDE DEF w, s, n
<1>4. \A k \in 1 .. n : (n - k) + 1 \in 1 .. n
      BY <1>2
<1>5. \A k \in 1 .. n : s[k] \in Digit
      BY <1>2, ElementOfSeq DEF n
<1>6. w \in Seq(Digit) /\ Len(w) = n /\ \A k \in 1 .. n : w[k] = s[(n - k) + 1]
  <2>1. w \in [1 .. n -> Digit]
        BY <1>3, <1>4, <1>5
  <2>2. w \in Seq(Digit) /\ Len(w) = n
        BY <1>2, <2>1, IsASeq, LenProperties
  <2>. QED BY <1>3, <2>2
<1>7. w \in Seq(Nat)
  <2>1. \A k \in 1 .. n : w[k] \in Nat
        BY <1>2, <1>4, <1>5, <1>6
  <2>. QED BY <1>2, <1>3, <2>1, IsASeq
<1>8. \A val : AddsBack(val, u) => n \in Nat \ {0} /\ val[n] = u /\ \A k \in 0 .. n : val[k] <= u
      BY DigitsMakeIt DEF n, s
<1>9. \A val : Adds(val, w) => AddsBack(val, u)
  <2>1. ASSUME NEW val, Adds(val, w) PROVE AddsBack(val, u)
    <3>1. /\ val \in [0 .. n -> Nat] /\ val[0] = 0
          /\ \A k \in 1 .. n : val[k] = 10 * val[k - 1] + w[k]
          BY <1>6, <2>1 DEF Adds
    <3>2. \A k \in 1 .. n : val[k] = 10 * val[k - 1] + s[n - k + 1]
          BY <1>6, <3>1
    <3>. QED BY <3>1, <3>2 DEF AddsBack, n, s
  <2>. QED BY <2>1
<1>10. PICK val : Adds(val, w) /\ Decimal(w) = val[Len(w)]
      BY <1>7, DecimalIs
<1>11. n \in Nat \ {0} /\ val[n] = u /\ \A k \in 0 .. n : val[k] <= u
      BY <1>8, <1>9, <1>10
<1>12. PICK mod : AddsModulo(mod, w) /\ Number(w) = mod[Len(w)]
      BY <1>7, NumberIs
<1>13. \A k \in 0 .. n : mod[k] = val[k] % Word
  <2> DEFINE S == { k \in 0 .. n : mod[k] = val[k] % Word }
  <2>1. /\ val \in [0 .. n -> Nat] /\ val[0] = 0
        /\ \A k \in 1 .. n : val[k] = 10 * val[k - 1] + w[k]
        BY <1>6, <1>10 DEF Adds
  <2>2. /\ mod[0] = 0
        /\ \A k \in 1 .. n : mod[k] = (10 * mod[k - 1] + w[k]) % Word
        BY <1>6, <1>12 DEF AddsModulo
  <2>3. 0 \in S
    <3>1. 0 % Word = 0
          BY <1>1, SmallRest
    <3>. QED BY <1>2, <2>1, <2>2, <3>1
  <2>4. ASSUME NEW k \in 0 .. n - 1, k \in S PROVE k + 1 \in S
    <3>1. k + 1 \in 1 .. n /\ (k + 1) - 1 = k /\ k + 1 \in 0 .. n /\ k \in 0 .. n
          BY <1>2
    <3>2. PICK x \in Nat, d \in Nat : x = val[k] /\ d = w[k + 1]
      <4>1. val[k] \in Nat /\ w[k + 1] \in Nat
            BY <1>2, <1>4, <1>5, <1>6, <2>1, <3>1
      <4>. QED BY <4>1
    <3>3. val[k + 1] = 10 * x + d
          BY <2>1, <3>1, <3>2
    <3>4. mod[k + 1] = (10 * (x % Word) + d) % Word
          BY <2>2, <2>4, <3>1, <3>2
    <3>5. (10 * (x % Word) + d) % Word = (10 * x + d) % Word
          BY <1>1, RestOfDigit
    <3>. QED BY <3>1, <3>3, <3>4, <3>5
  <2> HIDE DEF S
  <2>5. \A k \in 0 .. n : k \in S
        BY <1>2, <2>3, <2>4, UpTo
  <2>. QED BY <2>5 DEF S
<1>14. Decimal(w) = u /\ Number(w) = u % Word
  <2>1. n \in 0 .. n
        BY <1>2
  <2>. QED BY <1>6, <1>10, <1>11, <1>12, <1>13, <2>1
<1>. QED BY <1>6, <1>7, <1>11, <1>14 DEF w

\* What writeNumeric() writes is read as the UINT64 it was given.
LEMMA NumberWritten ==
    ASSUME NEW i \in Int
    PROVE  /\ WriteNumeric(i) \in Seq(Digit) /\ Len(WriteNumeric(i)) \in Nat \ {0}
           /\ Decimal(WriteNumeric(i)) = ToUInt64(i)
           /\ Number(WriteNumeric(i)) = ToUInt64(i)
<1>1. Word \in Nat \ {0}
      BY NumberAssumption
<1>2. PICK u \in 0 .. Word - 1 : u = ToUInt64(i)
      BY <1>1, RestType DEF ToUInt64
<1>3. u \in Nat /\ u % Word = u
      BY <1>1, SmallRest
<1>. QED BY <1>2, <1>3, DigitsRead DEF WriteNumeric

-----------------------------------------------------------------------------
(***************************************************************************)
(* What getReadNext() reads.                                               *)
(***************************************************************************)
LEMMA MinIs ==
    ASSUME NEW S \in SUBSET Int, NEW m \in S, \A x \in S : m <= x
    PROVE  Min(S) = m
<1>1. \A x \in S : (\A y \in S : x <= y) => x = m
      OBVIOUS
<1>. QED BY <1>1 DEF Min

LEMMA MinIn ==
    ASSUME NEW n \in Nat, NEW S \in SUBSET (0 .. n), S # {}
    PROVE  Min(S) \in S
<1> DEFINE T == { k \in Nat : k \notin S }
<1>1. PICK x \in S : TRUE
      OBVIOUS
<1>2. ~(\A k \in Nat : k \in T)
      BY <1>1
<1>3. PICK m \in Nat : m \notin T /\ \A k \in 0 .. m - 1 : k \in T
  <2> HIDE DEF T
  <2>. QED BY <1>2, AllNumbers
<1>4. m \in S /\ \A y \in S : m <= y
  <2>1. m \in S
        BY <1>3
  <2>2. \A y \in S : y \in Nat /\ ~(y \in 0 .. m - 1)
        BY <1>3
  <2>3. \A y \in S : m <= y
        BY <2>2
  <2>. QED BY <2>1, <2>3
<1>5. S \in SUBSET Int
      OBVIOUS
<1>. QED BY <1>4, <1>5, MinIs

\* The scan has come to an offset, and read a number.
At(p, num) == [at |-> p, ok |-> TRUE, num |-> num]

\* The digits of u are at offset p of a line, and something else after them.
NumberAt(line, p, u) ==
    /\ p + Len(Digits(u)) < Len(line)
    /\ \A k \in 1 .. Len(Digits(u)) : line[p + k] = Digits(u)[k]
    /\ line[p + Len(Digits(u)) + 1] \notin Digit

LEMMA ByteRead ==
    ASSUME NEW line, NEW p \in Nat, NEW num, Len(line) \in Nat, p + 1 <= Len(line)
    PROVE  ReadBytes(line, At(p, num), 1) = At(p + 1, num)
<1>1. At(p, num).ok /\ At(p, num).at = p
      BY DEF At
<1>2. ~(p + 1 > Len(line))
      OBVIOUS
<1>3. ReadBytes(line, At(p, num), 1) = [At(p, num) EXCEPT !.at = p + 1]
      BY <1>1, <1>2 DEF ReadBytes
<1>. QED BY <1>3 DEF At

LEMMA KeyRead ==
    ASSUME NEW line, Len(line) \in Nat, 3 <= Len(line), line[2] # SP, line[3] = SP
    PROVE  ReadUntil(line, At(1, 0), SP) = At(2, 0)
<1> DEFINE S == { p \in 1 .. Len(line) - 1 : line[p + 1] = SP }
<1>1. 2 \in S
      OBVIOUS
<1>2. \A x \in S : 2 <= x
  <2>1. 1 \notin S
        OBVIOUS
  <2>2. \A x \in S : x \in 1 .. Len(line) - 1 /\ x # 1
        BY <2>1
  <2>. QED BY <2>2
<1>3. S \in SUBSET Int
      OBVIOUS
<1> HIDE DEF S
<1>4. Min(S) = 2 /\ S # {}
      BY <1>1, <1>2, <1>3, MinIs
<1>. QED BY <1>4 DEF ReadUntil, At, S

LEMMA NumberRead ==
    ASSUME NEW line \in Seq(Nat), NEW p \in Nat, NEW num, NEW u \in Nat, NumberAt(line, p, u)
    PROVE  /\ ReadNumeric(line, At(p, num)) = At(p + Len(Digits(u)), u % Word)
           /\ Len(Digits(u)) \in Nat \ {0}
<1> DEFINE d == Digits(u)
           n == Len(d)
           S == { q \in p .. Len(line) - 1 : line[q + 1] \notin Digit } \cup {Len(line)}
<1>1. /\ d \in Seq(Digit) /\ n \in Nat \ {0} /\ Number(d) = u % Word
      /\ Len(line) \in Nat
      BY DigitsRead, LenProperties
<1>2. /\ p + n < Len(line) /\ line[p + n + 1] \notin Digit
      /\ \A k \in 1 .. n : line[p + k] = d[k]
      BY DEF NumberAt
<1> HIDE DEF d, n
<1>3. AfterDigits(line, p) = p + n
  <2>1. p + n \in S
        BY <1>1, <1>2
  <2>2. \A k \in 1 .. n : line[p + k] \in Digit
        BY <1>1, <1>2, ElementOfSeq DEF n
  <2>3. ASSUME NEW q \in S PROVE p + n <= q
    <3>1. CASE q = Len(line)
          BY <1>1, <1>2, <3>1
    <3>2. CASE q \in p .. Len(line) - 1 /\ line[q + 1] \notin Digit
      <4>1. ASSUME q < p + n PROVE FALSE
        <5>1. (q - p) + 1 \in 1 .. n /\ p + ((q - p) + 1) = q + 1
              BY <1>1, <3>2, <4>1
        <5>. QED BY <2>2, <3>2, <5>1
      <4>. QED BY <1>1, <3>2, <4>1
    <3>. QED BY <3>1, <3>2
  <2>4. S \in SUBSET Int
        BY <1>1
  <2>5. AfterDigits(line, p) = Min(S)
        BY DEF AfterDigits
  <2> HIDE DEF S
  <2>. QED BY <2>1, <2>3, <2>4, <2>5, MinIs
<1>4. SubSeq(line, p + 1, p + n) = d
  <2>1. \A i \in p + 1 .. p + n : line[i] \in Nat
    <3>1. \A i \in p + 1 .. p + n : i \in 1 .. Len(line)
          BY <1>1, <1>2
    <3>. QED BY <3>1, ElementOfSeq
  <2> DEFINE t == SubSeq(line, p + 1, p + n)
  <2>2. /\ t \in Seq(Nat) /\ Len(t) = n
        /\ \A i \in 1 .. n : t[i] = line[p + i]
    <3>1. /\ t \in Seq(Nat)
          /\ Len(t) = IF p + 1 <= p + n THEN (p + n) - (p + 1) + 1 ELSE 0
          /\ \A i \in 1 .. (p + n) - (p + 1) + 1 : t[i] = line[p + 1 + i - 1]
          BY <1>1, <2>1, SubSeqProperties
    <3>2. /\ (p + n) - (p + 1) + 1 = n /\ p + 1 <= p + n
          /\ \A i \in 1 .. n : p + 1 + i - 1 = p + i
          BY <1>1
    <3>. QED BY <3>1, <3>2
  <2>3. d \in Seq(Nat)
        BY DigitsRead DEF d
  <2>4. \A i \in 1 .. n : t[i] = d[i]
        BY <1>2, <2>2
  <2> HIDE DEF t
  <2>5. t = d
        BY <2>2, <2>3, <2>4, SeqEqual DEF n
  <2>. QED BY <2>5 DEF t
<1>5. ReadNumeric(line, At(p, num)) = [At(p, num) EXCEPT !.at = p + n, !.num = Number(d)]
  <2>1. At(p, num).at = p /\ At(p, num).ok
        BY DEF At
  <2>2. p + n # Len(line)
        BY <1>1, <1>2
  <2>. QED BY <1>3, <1>4, <2>1, <2>2 DEF ReadNumeric
<1>. QED BY <1>1, <1>5 DEF At, d, n

-----------------------------------------------------------------------------
(***************************************************************************)
(* A VALUE line.                                                           *)
(***************************************************************************)
\* One sequence is another two, one after the other.
Joins(t, r, s) ==
    /\ t \in Seq(Nat) /\ Len(t) = Len(r) + Len(s)
    /\ \A i \in 1 .. Len(r) : t[i] = r[i]
    /\ \A i \in 1 .. Len(s) : t[Len(r) + i] = s[i]

LEMMA Parts ==
    ASSUME NEW r \in Seq(Nat), NEW s \in Seq(Nat)
    PROVE  Joins(r \o s, r, s)
<1>1. Len(r) \in Nat /\ Len(s) \in Nat
      BY LenProperties
<1>2. /\ r \o s \in Seq(Nat) /\ Len(r \o s) = Len(r) + Len(s)
      /\ \A i \in 1 .. Len(r) + Len(s) :
            (r \o s)[i] = IF i <= Len(r) THEN r[i] ELSE s[i - Len(r)]
      BY ConcatProperties
<1>3. \A i \in 1 .. Len(r) : i \in 1 .. Len(r) + Len(s) /\ i <= Len(r)
      BY <1>1
<1>4. \A i \in 1 .. Len(s) : /\ Len(r) + i \in 1 .. Len(r) + Len(s)
                             /\ ~(Len(r) + i <= Len(r)) /\ (Len(r) + i) - Len(r) = i
      BY <1>1
<1>5. \A i \in 1 .. Len(r) : (r \o s)[i] = r[i]
      BY <1>2, <1>3
<1>6. \A i \in 1 .. Len(s) : (r \o s)[Len(r) + i] = s[i]
      BY <1>2, <1>4
<1>. QED BY <1>2, <1>5, <1>6 DEF Joins

\* Where each part of it stands.
LaidOut(line, k, fs, ns, cs) ==
    /\ line \in Seq(Nat) /\ Len(line) = Len(fs) + Len(ns) + Len(cs) + 6
    /\ line[2] = k /\ line[3] = SP
    /\ \A i \in 1 .. Len(fs) : line[3 + i] = fs[i]
    /\ line[Len(fs) + 4] = SP
    /\ \A i \in 1 .. Len(ns) : line[(Len(fs) + 4) + i] = ns[i]
    /\ \A i \in 1 .. Len(cs) : line[(Len(fs) + Len(ns) + 4) + i] = cs[i]
    /\ line[Len(fs) + Len(ns) + Len(cs) + 5] = CR

LEMMA LineLayout ==
    ASSUME NEW k \in Nat, NEW fs \in Seq(Nat), NEW ns \in Seq(Nat), NEW cs \in Seq(Nat)
    PROVE  LaidOut(LineText(k, fs, ns, cs), k, fs, ns, cs)
<1> DEFINE line == LineText(k, fs, ns, cs)
           a == Len(fs)
           b == Len(ns)
           c == Len(cs)
           q0 == <<VALUE, k, SP>>
           q1 == q0 \o fs
           q2 == q1 \o <<SP>>
           q3 == q2 \o ns
           q4 == q3 \o cs
           e == <<CR, LF>>
<1>1. a \in Nat /\ b \in Nat /\ c \in Nat
      BY LenProperties
<1>2. /\ q0 \in Seq(Nat) /\ Len(q0) = 3 /\ q0[2] = k /\ q0[3] = SP
      /\ <<SP>> \in Seq(Nat) /\ Len(<<SP>>) = 1 /\ <<SP>>[1] = SP
      /\ e \in Seq(Nat) /\ Len(e) = 2 /\ e[1] = CR
  <2>1. VALUE \in Nat /\ SP \in Nat /\ CR \in Nat /\ LF \in Nat
        BY DEF VALUE, SP, CR, LF
  <2>. QED BY <2>1
<1>3. line = q4 \o e
      BY DEF LineText
<1> HIDE DEF line, q0, e, a, b, c
<1>4. /\ q1 \in Seq(Nat) /\ Len(q1) = 3 + a
      /\ \A i \in 1 .. 3 : q1[i] = q0[i]
      /\ \A i \in 1 .. a : q1[3 + i] = fs[i]
  <2>1. Joins(q1, q0, fs)
        BY <1>2, Parts
  <2> HIDE DEF q1
  <2>2. Len(q0) = 3 /\ Len(fs) = a
        BY <1>2 DEF a
  <2>. QED BY <2>1, <2>2 DEF Joins
<1> HIDE DEF q1
<1>5. /\ q2 \in Seq(Nat) /\ Len(q2) = (3 + a) + 1
      /\ \A i \in 1 .. 3 + a : q2[i] = q1[i]
      /\ q2[(3 + a) + 1] = SP
  <2>1. Joins(q2, q1, <<SP>>)
        BY <1>2, <1>4, Parts
  <2> HIDE DEF q2
  <2>2. Len(q1) = 3 + a /\ Len(<<SP>>) = 1 /\ <<SP>>[1] = SP /\ 1 \in 1 .. 1
        BY <1>2, <1>4
  <2>3. q2[Len(q1) + 1] = SP
        BY <2>1, <2>2 DEF Joins
  <2>. QED BY <2>1, <2>2, <2>3 DEF Joins
<1> HIDE DEF q2
<1>6. /\ q3 \in Seq(Nat) /\ Len(q3) = ((3 + a) + 1) + b
      /\ \A i \in 1 .. (3 + a) + 1 : q3[i] = q2[i]
      /\ \A i \in 1 .. b : q3[((3 + a) + 1) + i] = ns[i]
  <2>1. Joins(q3, q2, ns)
        BY <1>5, Parts
  <2> HIDE DEF q3
  <2>2. Len(q2) = (3 + a) + 1 /\ Len(ns) = b
        BY <1>5 DEF b
  <2>. QED BY <2>1, <2>2 DEF Joins
<1> HIDE DEF q3
<1>7. /\ q4 \in Seq(Nat) /\ Len(q4) = (((3 + a) + 1) + b) + c
      /\ \A i \in 1 .. ((3 + a) + 1) + b : q4[i] = q3[i]
      /\ \A i \in 1 .. c : q4[(((3 + a) + 1) + b) + i] = cs[i]
  <2>1. Joins(q4, q3, cs)
        BY <1>6, Parts
  <2> HIDE DEF q4
  <2>2. Len(q3) = ((3 + a) + 1) + b /\ Len(cs) = c
        BY <1>6 DEF c
  <2>. QED BY <2>1, <2>2 DEF Joins
<1> HIDE DEF q4
<1>8. /\ line \in Seq(Nat) /\ Len(line) = ((((3 + a) + 1) + b) + c) + 2
      /\ \A i \in 1 .. (((3 + a) + 1) + b) + c : line[i] = q4[i]
      /\ line[((((3 + a) + 1) + b) + c) + 1] = CR
  <2>1. Joins(line, q4, e)
    <3>1. Joins(q4 \o e, q4, e)
          BY <1>2, <1>7, Parts
    <3>. QED BY <1>3, <3>1
  <2>2. Len(q4) = (((3 + a) + 1) + b) + c /\ Len(e) = 2 /\ e[1] = CR /\ 1 \in 1 .. 2
        BY <1>2, <1>7
  <2>3. line[Len(q4) + 1] = CR
        BY <2>1, <2>2 DEF Joins
  <2>. QED BY <2>1, <2>2, <2>3 DEF Joins
<1>9. /\ \A i \in 1 .. 3 : /\ i \in 1 .. 3 + a /\ i \in 1 .. (3 + a) + 1
                           /\ i \in 1 .. ((3 + a) + 1) + b /\ i \in 1 .. (((3 + a) + 1) + b) + c
      /\ 2 \in 1 .. 3 /\ 3 \in 1 .. 3
      BY <1>1
<1>10. line[2] = k /\ line[3] = SP
  <2>1. ASSUME NEW i \in 1 .. 3 PROVE line[i] = q0[i]
    <3>1. line[i] = q4[i] /\ q4[i] = q3[i]
          BY <1>7, <1>8, <1>9
    <3>2. q3[i] = q2[i] /\ q2[i] = q1[i]
          BY <1>5, <1>6, <1>9
    <3>3. q1[i] = q0[i]
          BY <1>4
    <3>. QED BY <3>1, <3>2, <3>3
  <2>. QED BY <1>2, <1>9, <2>1
<1>11. \A i \in 1 .. a : line[3 + i] = fs[i]
  <2>1. \A i \in 1 .. a : /\ 3 + i \in 1 .. 3 + a /\ 3 + i \in 1 .. (3 + a) + 1
                          /\ 3 + i \in 1 .. ((3 + a) + 1) + b
                          /\ 3 + i \in 1 .. (((3 + a) + 1) + b) + c
        BY <1>1
  <2>2. ASSUME NEW i \in 1 .. a PROVE line[3 + i] = fs[i]
    <3>1. line[3 + i] = q4[3 + i] /\ q4[3 + i] = q3[3 + i]
          BY <1>7, <1>8, <2>1
    <3>2. q3[3 + i] = q2[3 + i] /\ q2[3 + i] = q1[3 + i]
          BY <1>5, <1>6, <2>1
    <3>3. q1[3 + i] = fs[i]
          BY <1>4
    <3>. QED BY <3>1, <3>2, <3>3
  <2>. QED BY <2>2
<1>12. line[a + 4] = SP
  <2>1. /\ a + 4 = (3 + a) + 1 /\ a + 4 \in 1 .. (3 + a) + 1
        /\ a + 4 \in 1 .. ((3 + a) + 1) + b /\ a + 4 \in 1 .. (((3 + a) + 1) + b) + c
        BY <1>1
  <2>2. line[a + 4] = q4[a + 4] /\ q4[a + 4] = q3[a + 4]
        BY <1>7, <1>8, <2>1
  <2>3. q3[a + 4] = q2[a + 4] /\ q2[a + 4] = SP
        BY <1>5, <1>6, <2>1
  <2>. QED BY <2>2, <2>3
<1>13. \A i \in 1 .. b : line[(a + 4) + i] = ns[i]
  <2>1. \A i \in 1 .. b : /\ (a + 4) + i = ((3 + a) + 1) + i
                          /\ (a + 4) + i \in 1 .. ((3 + a) + 1) + b
                          /\ (a + 4) + i \in 1 .. (((3 + a) + 1) + b) + c
        BY <1>1
  <2>2. ASSUME NEW i \in 1 .. b PROVE line[(a + 4) + i] = ns[i]
    <3>1. line[(a + 4) + i] = q4[(a + 4) + i] /\ q4[(a + 4) + i] = q3[(a + 4) + i]
          BY <1>7, <1>8, <2>1
    <3>2. q3[((3 + a) + 1) + i] = ns[i]
          BY <1>6
    <3>. QED BY <2>1, <3>1, <3>2
  <2>. QED BY <2>2
<1>14. \A i \in 1 .. c : line[(a + b + 4) + i] = cs[i]
  <2>1. \A i \in 1 .. c : /\ (a + b + 4) + i = (((3 + a) + 1) + b) + i
                          /\ (a + b + 4) + i \in 1 .. (((3 + a) + 1) + b) + c
        BY <1>1
  <2>. QED BY <1>7, <1>8, <2>1
<1>15. /\ Len(line) = a + b + c + 6
       /\ line[a + b + c + 5] = CR
  <2>1. /\ ((((3 + a) + 1) + b) + c) + 2 = a + b + c + 6
        /\ ((((3 + a) + 1) + b) + c) + 1 = a + b + c + 5
        BY <1>1
  <2>. QED BY <1>8, <2>1
<1>16. LaidOut(line, k, fs, ns, cs)
      BY <1>8, <1>10, <1>11, <1>12, <1>13, <1>14, <1>15 DEF LaidOut, a, b, c
<1>. QED BY <1>16 DEF line

\* The steps of ReadValueLine up to the length.
KeyOf(line) == ReadUntil(line, ReadBytes(line, Start, 1), SP)

FlagsOf(line) == ReadNumeric(line, ReadBytes(line, KeyOf(line), 1))

LengthOf(line) == ReadNumeric(line, ReadBytes(line, FlagsOf(line), 1))

LastOf(line) ==
    IF LengthOf(line).ok /\ MoreThanLineEnd(line, LengthOf(line))
    THEN ReadNumeric(line, ReadBytes(line, LengthOf(line), 1))
    ELSE LengthOf(line)

LEMMA LineSteps ==
    ASSUME NEW line, NEW old
    PROVE  ReadValueLine(line, old) =
              [ok |-> LastOf(line).ok, at |-> LastOf(line).at,
               flags |-> ToInt(FlagsOf(line).num), bytes |-> LengthOf(line).num,
               cas |-> IF LastOf(line) = LengthOf(line) THEN old ELSE LastOf(line).num]
BY DEF ReadValueLine, LastOf, LengthOf, FlagsOf, KeyOf

\* The line up to its length, with what follows it, which begins with no digit.
ReadUpToLength(line, f, n, cs) ==
    LET p == Len(Digits(f)) + Len(Digits(n)) + 4
    IN  /\ p \in Nat /\ p + Len(cs) + 2 = Len(line)
        /\ FlagsOf(line).num = f % Word /\ LengthOf(line) = At(p, n % Word)

LEMMA LengthRead ==
    ASSUME NEW k \in Nat, k # SP, NEW f \in Nat, NEW n \in Nat, NEW cs \in Seq(Nat),
           Len(cs) > 0 => cs[1] = SP
    PROVE  ReadUpToLength(LineText(k, Digits(f), Digits(n), cs), f, n, cs)
<1> DEFINE line == LineText(k, Digits(f), Digits(n), cs)
           a == Len(Digits(f))
           b == Len(Digits(n))
           c == Len(cs)
<1>1. /\ Digits(f) \in Seq(Nat) /\ Digits(n) \in Seq(Nat)
      /\ a \in Nat \ {0} /\ b \in Nat \ {0} /\ c \in Nat
      BY DigitsRead, LenProperties
<1>2. /\ line \in Seq(Nat) /\ Len(line) = a + b + c + 6
      /\ line[2] = k /\ line[3] = SP
      /\ \A i \in 1 .. a : line[3 + i] = Digits(f)[i]
      /\ line[a + 4] = SP
      /\ \A i \in 1 .. b : line[(a + 4) + i] = Digits(n)[i]
      /\ \A i \in 1 .. c : line[(a + b + 4) + i] = cs[i]
      /\ line[a + b + c + 5] = CR
  <2>1. LaidOut(line, k, Digits(f), Digits(n), cs)
        BY <1>1, LineLayout
  <2> HIDE DEF line
  <2>. QED BY <2>1 DEF LaidOut
<1>3. SP \notin Digit /\ CR \notin Digit
      BY DEF SP, CR, Digit
<1> HIDE DEF line, a, b, c
<1>4. NumberAt(line, 3, f)
  <2>1. 3 + a < Len(line) /\ 3 + a + 1 = a + 4
        BY <1>1, <1>2
  <2>2. line[3 + a + 1] \notin Digit
        BY <1>2, <1>3, <2>1
  <2>. QED BY <1>2, <2>1, <2>2 DEF NumberAt, a
<1>5. NumberAt(line, a + 4, n)
  <2>1. (a + 4) + b < Len(line)
        BY <1>1, <1>2
  <2>2. line[(a + 4) + b + 1] \notin Digit
    <3>1. CASE c = 0
      <4>1. (a + 4) + b + 1 = a + b + c + 5
            BY <1>1, <3>1
      <4>. QED BY <1>2, <1>3, <4>1
    <3>2. CASE c > 0
      <4>1. (a + 4) + b + 1 = (a + b + 4) + 1 /\ 1 \in 1 .. c
            BY <1>1, <3>2
      <4>2. line[(a + b + 4) + 1] = SP
            BY <1>2, <3>2, <4>1 DEF c
      <4>. QED BY <1>3, <4>1, <4>2
    <3>. QED BY <1>1, <3>1, <3>2
  <2>. QED BY <1>2, <2>1, <2>2 DEF NumberAt, b
<1>6. KeyOf(line) = At(2, 0)
  <2>1. Start = At(0, 0)
        BY DEF Start, At
  <2>2. Len(line) \in Nat /\ 0 + 1 <= Len(line) /\ 3 <= Len(line)
        BY <1>1, <1>2
  <2>3. ReadBytes(line, Start, 1) = At(1, 0)
    <3>1. ReadBytes(line, At(0, 0), 1) = At(0 + 1, 0)
          BY <2>2, ByteRead
    <3>. QED BY <2>1, <3>1
  <2>. QED BY <1>2, <2>2, <2>3, KeyRead DEF KeyOf
<1>7. FlagsOf(line) = At(3 + a, f % Word)
  <2>1. ReadBytes(line, At(2, 0), 1) = At(2 + 1, 0)
    <3>1. Len(line) \in Nat /\ 2 + 1 <= Len(line)
          BY <1>1, <1>2
    <3>. QED BY <3>1, ByteRead
  <2>2. ReadNumeric(line, At(3, 0)) = At(3 + a, f % Word)
        BY <1>2, <1>4, NumberRead DEF a
  <2>. QED BY <1>6, <2>1, <2>2 DEF FlagsOf
<1>8. LengthOf(line) = At((a + 4) + b, n % Word)
  <2> DEFINE u == f % Word
  <2> HIDE DEF u
  <2>1. ReadBytes(line, At(3 + a, u), 1) = At((3 + a) + 1, u)
    <3>1. Len(line) \in Nat /\ 3 + a \in Nat /\ (3 + a) + 1 <= Len(line)
          BY <1>1, <1>2
    <3>. QED BY <3>1, ByteRead
  <2>2. ReadNumeric(line, At(a + 4, u)) = At((a + 4) + b, n % Word)
    <3>1. a + 4 \in Nat
          BY <1>1
    <3>. QED BY <1>2, <1>5, <3>1, NumberRead DEF b
  <2>3. (3 + a) + 1 = a + 4
        BY <1>1
  <2>4. ReadBytes(line, FlagsOf(line), 1) = At(a + 4, u)
        BY <1>7, <2>1, <2>3 DEF u
  <2>. QED BY <2>2, <2>4 DEF LengthOf
<1>9. FlagsOf(line).num = f % Word
      BY <1>7 DEF At
<1>10. /\ a + b + 4 \in Nat /\ (a + b + 4) + c + 2 = Len(line)
       /\ (a + 4) + b = a + b + 4
       BY <1>1, <1>2
<1>. QED BY <1>8, <1>9, <1>10 DEF ReadUpToLength, line, a, b, c

LEMMA PlainLineRead ==
    ASSUME NEW k \in Nat, k # SP, NEW f \in Nat, NEW n \in Nat, NEW old
    PROVE  LET read == ReadValueLine(LineText(k, Digits(f), Digits(n), <<>>), old)
           IN  /\ read.ok /\ read.flags = ToInt(f % Word)
               /\ read.bytes = n % Word /\ read.cas = old
<1> DEFINE line == LineText(k, Digits(f), Digits(n), <<>>)
           p == Len(Digits(f)) + Len(Digits(n)) + 4
<1>1. ReadUpToLength(line, f, n, <<>>)
  <2>1. <<>> \in Seq(Nat) /\ (Len(<<>>) > 0 => <<>>[1] = SP)
        OBVIOUS
  <2>. QED BY <2>1, LengthRead
<1> HIDE DEF line
<1>2. /\ p \in Nat /\ p + 2 = Len(line)
      /\ FlagsOf(line).num = f % Word /\ LengthOf(line) = At(p, n % Word)
      BY <1>1 DEF ReadUpToLength
<1> HIDE DEF p
<1>3. LengthOf(line).ok /\ LengthOf(line).num = n % Word /\ LengthOf(line).at = p
      BY <1>2 DEF At
<1>4. ~MoreThanLineEnd(line, LengthOf(line))
      BY <1>2, <1>3 DEF MoreThanLineEnd
<1>5. LastOf(line) = LengthOf(line)
      BY <1>4 DEF LastOf
<1>. QED BY <1>2, <1>3, <1>5, LineSteps DEF line

LEMMA CasLineRead ==
    ASSUME NEW k \in Nat, k # SP, NEW f \in Nat, NEW n \in Nat, NEW c \in Nat, NEW old
    PROVE  LET read == ReadValueLine(LineText(k, Digits(f), Digits(n), <<SP>> \o Digits(c)), old)
           IN  /\ read.ok /\ read.flags = ToInt(f % Word)
               /\ read.bytes = n % Word /\ read.cas = c % Word
<1> DEFINE cs == <<SP>> \o Digits(c)
           d == Len(Digits(c))
           line == LineText(k, Digits(f), Digits(n), cs)
           p == Len(Digits(f)) + Len(Digits(n)) + 4
<1>1. /\ Digits(c) \in Seq(Nat) /\ d \in Nat \ {0}
      /\ Digits(f) \in Seq(Nat) /\ Digits(n) \in Seq(Nat)
      BY DigitsRead
<1>2. /\ cs \in Seq(Nat) /\ Len(cs) = 1 + d /\ cs[1] = SP
      /\ \A i \in 1 .. d : cs[1 + i] = Digits(c)[i]
  <2> DEFINE s == <<SP>>
  <2>1. s \in Seq(Nat) /\ Len(s) = 1 /\ s[1] = SP
    <3>1. SP \in Nat
          BY DEF SP
    <3>. QED BY <3>1
  <2> HIDE DEF s
  <2>2. Joins(s \o Digits(c), s, Digits(c))
        BY <1>1, <2>1, Parts
  <2>3. Joins(cs, s, Digits(c))
        BY <2>2 DEF s
  <2> HIDE DEF cs
  <2>4. 1 \in 1 .. Len(s)
        BY <2>1
  <2>. QED BY <2>1, <2>3, <2>4 DEF Joins
<1> HIDE DEF cs
<1>3. ReadUpToLength(line, f, n, cs)
      BY <1>2, LengthRead
<1>4. LaidOut(line, k, Digits(f), Digits(n), cs)
  <2>1. k \in Nat
        OBVIOUS
  <2>. QED BY <1>1, <1>2, <2>1, LineLayout
<1> HIDE DEF line
<1>5. /\ p \in Nat /\ p + Len(cs) + 2 = Len(line)
       /\ FlagsOf(line).num = f % Word /\ LengthOf(line) = At(p, n % Word)
       BY <1>3 DEF ReadUpToLength
<1>6. /\ line \in Seq(Nat)
      /\ \A i \in 1 .. Len(cs) : line[p + i] = cs[i]
      /\ line[p + Len(cs) + 1] = CR
  <2>1. /\ line \in Seq(Nat)
        /\ \A i \in 1 .. Len(cs) : line[(Len(Digits(f)) + Len(Digits(n)) + 4) + i] = cs[i]
        /\ line[Len(Digits(f)) + Len(Digits(n)) + Len(cs) + 5] = CR
        BY <1>4 DEF LaidOut
  <2>2. Len(Digits(f)) \in Nat /\ Len(Digits(n)) \in Nat /\ Len(cs) \in Nat
        BY <1>1, <1>2, LenProperties
  <2>3. p + Len(cs) + 1 = Len(Digits(f)) + Len(Digits(n)) + Len(cs) + 5
        BY <2>2
  <2>. QED BY <2>1, <2>3
<1> HIDE DEF p
<1>7. LengthOf(line).ok /\ LengthOf(line).num = n % Word /\ LengthOf(line).at = p
      BY <1>5 DEF At
<1>8. MoreThanLineEnd(line, LengthOf(line))
  <2>1. Len(line) - p > 2
        BY <1>1, <1>2, <1>5
  <2>. QED BY <1>7, <2>1 DEF MoreThanLineEnd
<1>9. NumberAt(line, p + 1, c)
  <2>1. (p + 1) + d < Len(line)
        BY <1>1, <1>2, <1>5
  <2>2. \A i \in 1 .. d : line[(p + 1) + i] = Digits(c)[i]
    <3>1. \A i \in 1 .. d : 1 + i \in 1 .. Len(cs) /\ (p + 1) + i = p + (1 + i)
          BY <1>1, <1>2, <1>5
    <3>. QED BY <1>2, <1>6, <3>1
  <2>3. line[(p + 1) + d + 1] \notin Digit
    <3>1. (p + 1) + d + 1 = p + Len(cs) + 1
          BY <1>1, <1>2, <1>5
    <3>2. CR \notin Digit
          BY DEF CR, Digit
    <3>. QED BY <1>6, <3>1, <3>2
  <2>. QED BY <2>1, <2>2, <2>3 DEF NumberAt
<1>10. ReadNumeric(line, ReadBytes(line, LengthOf(line), 1)) = At((p + 1) + d, c % Word)
  <2> DEFINE u == n % Word
  <2> HIDE DEF u
  <2>1. Len(line) \in Nat /\ p + 1 <= Len(line) /\ p + 1 \in Nat
        BY <1>1, <1>2, <1>5
  <2>2. ReadBytes(line, At(p, u), 1) = At(p + 1, u)
        BY <1>5, <2>1, ByteRead
  <2>3. ReadNumeric(line, At(p + 1, u)) = At((p + 1) + d, c % Word)
        BY <1>6, <1>9, <2>1, NumberRead
  <2>. QED BY <1>5, <2>2, <2>3 DEF u
<1>11. LastOf(line) = At((p + 1) + d, c % Word)
       BY <1>7, <1>8, <1>10 DEF LastOf
<1>12. LastOf(line).ok /\ LastOf(line).num = c % Word /\ LastOf(line).at = (p + 1) + d
       BY <1>11 DEF At
<1>13. LastOf(line) # LengthOf(line)
       BY <1>1, <1>5, <1>7, <1>12
<1>. QED BY <1>5, <1>7, <1>12, <1>13, LineSteps DEF line, cs

-----------------------------------------------------------------------------
(***************************************************************************)
(* Any line: where the scan stops.                                         *)
(***************************************************************************)
\* A scan of a line: the word VALUE is behind it, and it stands at the end only
\* when it has failed.
Ends(line, s) ==
    /\ s \in [at : Nat, ok : BOOLEAN, num : Int]
    /\ IF s.ok THEN s.at \in 1 .. Len(line) - 1 ELSE s.at \in {1, Len(line)}

LEMMA NumberEnds ==
    ASSUME NEW line \in Seq(Nat), NEW s, Ends(line, s)
    PROVE  /\ Ends(line, ReadNumeric(line, ReadBytes(line, s, 1)))
           /\ ReadNumeric(line, ReadBytes(line, s, 1)).ok => s.ok
<1> DEFINE r == ReadBytes(line, s, 1)
           p == AfterDigits(line, r.at)
           t == ReadNumeric(line, r)
<1>1. /\ Len(line) \in Nat /\ s \in [at : Nat, ok : BOOLEAN, num : Int]
      /\ s.at \in Nat /\ s.num \in Int /\ s.ok \in BOOLEAN
      BY LenProperties DEF Ends
<1>2. CASE ~s.ok
  <2>1. r = s
        BY <1>1, <1>2 DEF ReadBytes, Failed
  <2>2. t = s
        BY <1>2, <2>1 DEF ReadNumeric
  <2>. QED BY <1>2, <2>2
<1>3. CASE s.ok
  <2>1. s.at \in 1 .. Len(line) - 1
        BY <1>3 DEF Ends
  <2>2. r = [s EXCEPT !.at = s.at + 1]
    <3>1. ~(s.at + 1 > Len(line))
          BY <1>1, <2>1
    <3>. QED BY <1>3, <3>1 DEF ReadBytes
  <2>3. r.at = s.at + 1 /\ r.ok /\ r \in [at : Nat, ok : BOOLEAN, num : Int]
    <3> HIDE DEF r
    <3>1. s.at + 1 \in Nat
          BY <1>1
    <3>2. r.at = s.at + 1 /\ r.ok
          BY <1>1, <1>3, <2>2
    <3>3. r \in [at : Nat, ok : BOOLEAN, num : Int]
          BY <1>1, <2>2, <3>1
    <3>. QED BY <3>2, <3>3
  <2>4. p \in 0 .. Len(line) /\ p >= 1
    <3> DEFINE S == { q \in r.at .. Len(line) - 1 : line[q + 1] \notin Digit } \cup {Len(line)}
    <3>1. S \in SUBSET (0 .. Len(line)) /\ S # {} /\ \A x \in S : x >= 1
      <4>1. s.at \in Nat /\ Len(line) >= 1
            BY <1>1, <2>1
      <4> HIDE DEF r
      <4>2. s.at + 1 \in Nat /\ s.at + 1 >= 1
            BY <4>1
      <4> HIDE DEF S
      <4>3. r.at \in Nat /\ r.at >= 1
            BY <2>3, <4>2, Zenon
      <4> USE DEF S
      <4>. QED BY <1>1, <4>1, <4>3
    <3>2. p = Min(S)
          BY DEF AfterDigits
    <3> HIDE DEF S
    <3>3. Min(S) \in S
          BY <1>1, <3>1, MinIn
    <3>. QED BY <3>1, <3>2, <3>3
  <2>5. CASE p = Len(line)
    <3>1. t = [r EXCEPT !.at = p, !.ok = FALSE]
          BY <2>3, <2>5 DEF ReadNumeric
    <3> HIDE DEF t, r, p
    <3>2. p \in Nat
          BY <1>1, <2>5
    <3>3. t \in [at : Nat, ok : BOOLEAN, num : Int] /\ ~t.ok /\ t.at = Len(line)
          BY <2>3, <2>5, <3>1, <3>2
    <3>4. Ends(line, t)
          BY <3>3 DEF Ends
    <3>. QED BY <1>3, <3>4 DEF t, r
  <2>6. CASE p # Len(line)
    <3> DEFINE m == Number(SubSeq(line, r.at + 1, p))
    <3>1. t = [r EXCEPT !.at = p, !.num = m]
          BY <2>3, <2>6 DEF ReadNumeric
    <3>2. m \in Int
      <4>1. r.at + 1 \in Nat /\ r.at + 1 >= 1 /\ p <= Len(line) /\ p \in Nat
            BY <1>1, <2>3, <2>4
      <4>2. SubSeq(line, r.at + 1, p) \in Seq(Nat)
        <5>1. \A i \in r.at + 1 .. p : i \in 1 .. Len(line)
              BY <1>1, <2>3, <2>4
        <5>2. \A i \in r.at + 1 .. p : line[i] \in Nat
              BY <5>1, ElementOfSeq
        <5>. QED BY <4>1, <5>2, SubSeqProperties
      <4> DEFINE chars == SubSeq(line, r.at + 1, p)
      <4> HIDE DEF chars
      <4>3. PICK val : AddsModulo(val, chars) /\ Number(chars) = val[Len(chars)]
            BY <4>2, NumberIs DEF chars
      <4>4. Len(chars) \in 0 .. Len(chars)
            BY <4>2, LenProperties DEF chars
      <4>5. Number(chars) \in Int
            BY <4>3, <4>4 DEF AddsModulo
      <4>. QED BY <4>5 DEF chars
    <3>3. p \in 1 .. Len(line) - 1
          BY <1>1, <2>4, <2>6
    <3> HIDE DEF t, r, p, m
    <3>4. p \in Nat
          BY <1>1, <3>3
    <3>5. t \in [at : Nat, ok : BOOLEAN, num : Int] /\ t.ok /\ t.at = p
          BY <2>3, <3>1, <3>2, <3>4
    <3>6. Ends(line, t)
          BY <3>3, <3>5 DEF Ends
    <3>. QED BY <1>3, <3>6 DEF t, r
  <2>. QED BY <2>5, <2>6
<1>. QED BY <1>1, <1>2, <1>3

-----------------------------------------------------------------------------
(***************************************************************************)
(* The invariant. An item holds what it was given, and     *)
(* every cas value has been used once: an item that gets_multi() has read  *)
(* is the one the server has, or has a smaller cas value than that one.    *)
(* While lines remain to be read nobody stores anything.                   *)
(***************************************************************************)
Items ==
    { item \in [flags : 0 .. IntRange - 1, exp : UInts, size : UInts, cas : UInts,
                given : [flags : Ints, exp : Ints, size : UInts]] :
          /\ ToInt(item.flags) = item.given.flags /\ item.size = item.given.size
          /\ item.given.exp >= 0 => item.exp = item.given.exp }

Reads ==
    { g \in [flags : Ints, size : UInts, cas : UInts, item : Items, withCas : BOOLEAN] :
          /\ g.flags = g.item.given.flags /\ g.size = g.item.given.size
          /\ g.withCas => g.cas = g.item.cas }

StoredOnce(k) == items[k] # Absent => items[k] \in Items /\ items[k].cas < nextCas

\* The lines of the items the server has.
TrueLines ==
    { [key |-> l[1], item |-> items[l[1]], line |-> LineOf(l[1], l[2]), withCas |-> l[2]] :
          l \in { k \in ItemKeys : items[k] # Absent } \X BOOLEAN }

ReadEarlier(k) ==
    got[k] # Absent =>
        /\ got[k] \in Reads /\ items[k] # Absent
        /\ got[k].item = items[k] \/ got[k].item.cas < items[k].cas

FieldsInv ==
    /\ pc \in {"new", "idle", "values"} /\ (pc # "values" => lines = <<>>)
    /\ maxSize = limit /\ limit \in Ints \cap Nat /\ cas \in UInts
    /\ nextCas \in FirstCas .. FirstCas + MaxStores
    /\ DOMAIN items = ItemKeys /\ \A k \in ItemKeys : StoredOnce(k)
    /\ lines \in Seq(TrueLines)
    /\ DOMAIN got = ItemKeys /\ \A k \in ItemKeys : ReadEarlier(k)
    /\ verdict.right

-----------------------------------------------------------------------------
\* The ranges of the machine's numbers.
LEMMA Ranges ==
    /\ Word \in Nat \ {0} /\ IntRange \in Nat \ {0} /\ Word > IntRange /\ IntRange >= 2
    /\ IntRange \div 2 \in Nat \ {0} /\ 2 * (IntRange \div 2) = IntRange
    /\ Ints \subseteq Int /\ UInts \subseteq Nat /\ Ints \cap Nat \subseteq UInts
    /\ 0 \in Ints /\ 0 \in UInts /\ 1 \in UInts
<1>1. /\ Word \in Nat \ {0} /\ IntRange \in Nat \ {0} /\ Word > IntRange /\ IntRange >= 2
      /\ IntRange \div 2 \in Nat \ {0} /\ 2 * (IntRange \div 2) = IntRange
      BY NumberAssumption
<1>2. PICK h \in Nat : h = IntRange \div 2
      BY <1>1
<1>3. Ints = -h .. h - 1
      BY <1>2 DEF Ints
<1>4. /\ Ints \subseteq Int /\ Ints \cap Nat \subseteq 0 .. Word - 1
      /\ 0 \in Ints /\ 0 \in 0 .. Word - 1 /\ 1 \in 0 .. Word - 1
      BY <1>1, <1>2, <1>3
<1>. QED BY <1>1, <1>4 DEF UInts

\* One digit is the number it stands for.
LEMMA OneDigit ==
    ASSUME NEW d \in Nat
    PROVE  Decimal(<<d>>) = d
<1> DEFINE chars == <<d>>
<1>1. chars \in Seq(Nat) /\ Len(chars) = 1 /\ chars[1] = d
      OBVIOUS
<1> HIDE DEF chars
<1>2. PICK val : Adds(val, chars) /\ Decimal(chars) = val[Len(chars)]
      BY <1>1, DecimalIs
<1>3. val[0] = 0 /\ val[1] = 10 * val[0] + chars[1]
  <2>1. 1 \in 1 .. Len(chars) /\ 1 - 1 = 0
        BY <1>1
  <2>2. val[0] = 0 /\ val[1] = 10 * val[1 - 1] + chars[1]
        BY <1>2, <2>1 DEF Adds
  <2>. QED BY <2>1, <2>2
<1>. QED BY <1>1, <1>2, <1>3 DEF chars

\* What is written of a UINT64 is its digits, and they are the number.
LEMMA UIntWritten ==
    ASSUME NEW u \in UInts
    PROVE  /\ WriteNumeric(u) = Digits(u) /\ Decimal(WriteNumeric(u)) = u
           /\ u \in Nat /\ u % Word = u
<1>1. u \in Nat /\ u % Word = u
      BY Ranges, SmallRest DEF UInts
<1>2. ToUInt64(u) = u
      BY <1>1 DEF ToUInt64
<1>. QED BY <1>1, <1>2, NumberWritten DEF WriteNumeric

LEMMA ItemTypes ==
    ASSUME NEW item \in Items
    PROVE  /\ item.cas \in UInts /\ item.cas \in Int
           /\ item.size \in UInts /\ item # Absent
<1>1. item.cas \in UInts /\ item.size \in UInts
      BY DEF Items
<1>2. item.cas \in Nat /\ item.size \in Nat
      BY <1>1, Ranges
<1>3. Absent.size = -1
      BY DEF Absent
<1>4. item.size # -1
      BY <1>2
<1>. QED BY <1>1, <1>2, <1>3, <1>4

(***************************************************************************)
(* What the server has after a store, by set() or of another client.       *)
(***************************************************************************)
LEMMA SetItem ==
    ASSUME NEW f \in Ints, NEW e \in Ints, NEW n \in UInts, NEW c \in UInts
    PROVE  [flags |-> Decimal(WriteNumeric(f)) % IntRange, exp |-> Decimal(WriteNumeric(e)),
            size |-> Decimal(WriteNumeric(n)), cas |-> c,
            given |-> [flags |-> f, exp |-> e, size |-> n]] \in Items
<1>1. /\ Decimal(WriteNumeric(f)) = ToUInt64(f) /\ Decimal(WriteNumeric(e)) = ToUInt64(e)
      BY Ranges, NumberWritten
<1>2. Decimal(WriteNumeric(n)) = n
      BY UIntWritten
<1>3. /\ ToUInt64(f) % IntRange \in 0 .. IntRange - 1 /\ ToInt(ToUInt64(f) % IntRange) = f
      /\ ToUInt64(e) \in UInts /\ (e >= 0 => ToUInt64(e) = e)
      BY IntKept DEF UInts
<1> DEFINE flags == ToUInt64(f) % IntRange
           exp == ToUInt64(e)
<1>4. /\ flags \in 0 .. IntRange - 1 /\ ToInt(flags) = f
      /\ exp \in UInts /\ (e >= 0 => exp = e)
      BY <1>3
<1> HIDE DEF flags, exp
<1>5. [flags |-> flags, exp |-> exp, size |-> n, cas |-> c,
       given |-> [flags |-> f, exp |-> e, size |-> n]] \in Items
      BY <1>4 DEF Items
<1>. QED BY <1>1, <1>2, <1>5 DEF flags, exp

LEMMA OthersItem ==
    ASSUME NEW c \in UInts
    PROVE  [flags |-> Decimal(<<0>>) % IntRange, exp |-> Decimal(<<0>>),
            size |-> Decimal(<<1>>), cas |-> c,
            given |-> [flags |-> 0, exp |-> 0, size |-> 1]] \in Items
<1>1. Decimal(<<0>>) = 0 /\ Decimal(<<1>>) = 1
      BY OneDigit
<1>2. 0 % IntRange = 0 /\ 0 \in 0 .. IntRange - 1
      BY Ranges
<1>3. ToInt(0) = 0
      BY <1>2, Ranges DEF ToInt
<1>4. [flags |-> 0, exp |-> 0, size |-> 1, cas |-> c,
       given |-> [flags |-> 0, exp |-> 0, size |-> 1]] \in Items
      BY <1>2, <1>3, Ranges DEF Items
<1>. QED BY <1>1, <1>2, <1>4

(***************************************************************************)
(* What getReadNext() makes of the line of an item.                        *)
(***************************************************************************)
LEMMA ItemRead ==
    ASSUME NEW k \in ItemKeys, items[k] \in Items, NEW withCas \in BOOLEAN, NEW old
    PROVE  LET read == ReadValueLine(LineOf(k, withCas), old)
           IN  /\ read.ok /\ read.flags = items[k].given.flags
               /\ read.bytes = items[k].size
               /\ read.cas = IF withCas THEN items[k].cas ELSE old
<1> DEFINE f == items[k].flags
           n == items[k].size
           c == items[k].cas
           g == items[k].given.flags
<1>1. /\ f \in 0 .. IntRange - 1 /\ n \in UInts /\ c \in UInts /\ ToInt(f) = g
      BY DEF Items
<1>2. k \in Nat /\ k # SP
      BY FieldsAssumption DEF SP, VALUE
<1>3. LineOf(k, withCas) = LineText(k, WriteNumeric(f), WriteNumeric(n),
                                    IF withCas THEN <<SP>> \o WriteNumeric(c) ELSE <<>>)
      BY DEF LineOf
<1> HIDE DEF f, n, c, g
<1>4. f \in UInts
      BY <1>1, Ranges DEF UInts
<1>5. /\ WriteNumeric(f) = Digits(f) /\ WriteNumeric(n) = Digits(n) /\ WriteNumeric(c) = Digits(c)
      /\ f \in Nat /\ n \in Nat /\ c \in Nat
      /\ f % Word = f /\ n % Word = n /\ c % Word = c
      BY <1>1, <1>4, UIntWritten
<1>6. CASE withCas
  <2>1. LineOf(k, withCas) = LineText(k, Digits(f), Digits(n), <<SP>> \o Digits(c))
        BY <1>3, <1>5, <1>6
  <2> DEFINE read == ReadValueLine(LineText(k, Digits(f), Digits(n), <<SP>> \o Digits(c)), old)
  <2>2. /\ read.ok /\ read.flags = ToInt(f % Word)
        /\ read.bytes = n % Word /\ read.cas = c % Word
        BY <1>2, <1>5, CasLineRead
  <2> HIDE DEF read
  <2>3. read.ok /\ read.flags = g /\ read.bytes = n /\ read.cas = c
        BY <1>1, <1>5, <2>2
  <2>. QED BY <1>6, <2>1, <2>3 DEF read, f, n, c, g
<1>7. CASE ~withCas
  <2>1. LineOf(k, withCas) = LineText(k, Digits(f), Digits(n), <<>>)
        BY <1>3, <1>5, <1>7
  <2> DEFINE read == ReadValueLine(LineText(k, Digits(f), Digits(n), <<>>), old)
  <2>2. /\ read.ok /\ read.flags = ToInt(f % Word)
        /\ read.bytes = n % Word /\ read.cas = old
        BY <1>2, <1>5, PlainLineRead
  <2> HIDE DEF read
  <2>3. read.ok /\ read.flags = g /\ read.bytes = n /\ read.cas = old
        BY <1>1, <1>5, <2>2
  <2>. QED BY <1>7, <2>1, <2>3 DEF read, f, n, c, g
<1>. QED BY <1>6, <1>7

-----------------------------------------------------------------------------
(***************************************************************************)
(* The invariant is one.                                                   *)
(***************************************************************************)
LEMMA FieldsInit == Init => FieldsInv
<1> SUFFICES ASSUME Init PROVE FieldsInv
    OBVIOUS
<1>1. DefaultSize \in Ints \cap Nat /\ Leftover \in UInts
      BY FieldsAssumption
<1>2. FirstCas \in Nat /\ MaxStores \in Nat
      BY FieldsAssumption, Ranges DEF UInts
<1>3. nextCas \in FirstCas .. FirstCas + MaxStores
      BY <1>2 DEF Init
<1>4. /\ DOMAIN items = ItemKeys /\ \A k \in ItemKeys : StoredOnce(k)
      /\ DOMAIN got = ItemKeys /\ \A k \in ItemKeys : ReadEarlier(k)
      BY DEF Init, StoredOnce, ReadEarlier
<1>5. lines \in Seq(TrueLines)
      BY DEF Init
<1>6. verdict.right
      BY DEF Init
<1>. QED BY <1>1, <1>3, <1>4, <1>5, <1>6 DEF FieldsInv, Init

LEMMA NextIsUInt ==
    ASSUME FieldsInv, MayStore
    PROVE  nextCas \in UInts
<1>1. FirstCas \in Nat /\ MaxStores \in 0 .. Word - 1 - FirstCas
      BY FieldsAssumption, Ranges
<1>2. nextCas \in FirstCas .. FirstCas + MaxStores /\ nextCas < FirstCas + MaxStores
      BY DEF FieldsInv, MayStore
<1>3. nextCas \in 0 .. Word - 1
      BY <1>1, <1>2, Ranges
<1>. QED BY <1>3 DEF UInts

\* A store under the next cas value.
LEMMA Stores ==
    ASSUME FieldsInv, MayStore, NEW k \in ItemKeys, NEW item \in Items, item.cas = nextCas,
           items' = [items EXCEPT ![k] = item], nextCas' = nextCas + 1,
           UNCHANGED <<pc, maxSize, limit, lines, cas, got>>, verdict'.right
    PROVE  FieldsInv'
<1>1. /\ FirstCas \in Nat /\ MaxStores \in Nat
      BY FieldsAssumption, Ranges DEF UInts
<1>2. /\ nextCas \in Int /\ nextCas' \in FirstCas .. FirstCas + MaxStores
      BY <1>1 DEF FieldsInv, MayStore
<1>3. \A j \in ItemKeys : StoredOnce(j)'
  <2>1. SUFFICES ASSUME NEW j \in ItemKeys PROVE StoredOnce(j)'
        OBVIOUS
  <2>2. CASE j = k
    <3>1. items'[k] = item
          BY DEF FieldsInv
    <3>2. item.cas < nextCas'
          BY <1>2
    <3>. QED BY <2>2, <3>1, <3>2 DEF StoredOnce
  <2>3. CASE j # k
    <3>1. items'[j] = items[j]
          BY <2>3 DEF FieldsInv
    <3>2. ASSUME items[j] # Absent PROVE items[j] \in Items /\ items[j].cas < nextCas'
      <4>1. items[j] \in Items /\ items[j].cas < nextCas
            BY <3>2 DEF FieldsInv, StoredOnce
      <4>2. items[j].cas \in Int
            BY <4>1, ItemTypes
      <4>. QED BY <1>2, <4>1, <4>2
    <3>. QED BY <3>1, <3>2 DEF StoredOnce
  <2>. QED BY <2>2, <2>3
<1>4. \A j \in ItemKeys : ReadEarlier(j)'
  <2>1. SUFFICES ASSUME NEW j \in ItemKeys, got[j] # Absent
                 PROVE  /\ got[j] \in Reads /\ items'[j] # Absent
                        /\ got[j].item = items'[j] \/ got[j].item.cas < items'[j].cas
        BY DEF ReadEarlier
  <2>2. /\ got[j] \in Reads /\ items[j] # Absent
        /\ got[j].item = items[j] \/ got[j].item.cas < items[j].cas
        BY <2>1 DEF FieldsInv, ReadEarlier
  <2>3. CASE j = k
    <3>1. items'[j] = item
          BY <2>3 DEF FieldsInv
    <3>2. item # Absent
          BY ItemTypes
    <3>3. items[j] \in Items /\ items[j].cas < nextCas /\ got[j].item \in Items
          BY <2>2 DEF FieldsInv, StoredOnce, Reads
    <3>4. items[j].cas \in Int /\ got[j].item.cas \in Int
          BY <3>3, ItemTypes
    <3>5. got[j].item.cas < item.cas
          BY <1>2, <2>2, <3>3, <3>4
    <3>. QED BY <2>2, <3>1, <3>2, <3>5
  <2>4. CASE j # k
    <3>1. items'[j] = items[j]
          BY <2>4 DEF FieldsInv
    <3>. QED BY <2>2, <3>1
  <2>. QED BY <2>3, <2>4
<1>5. pc = "idle" /\ lines = <<>>
      BY DEF MayStore, FieldsInv
<1>6. lines' \in Seq(TrueLines')
      BY <1>5
<1>7. DOMAIN items' = ItemKeys
      BY DEF FieldsInv
<1>. QED BY <1>2, <1>3, <1>4, <1>5, <1>6, <1>7 DEF FieldsInv

LEMMA MaySet ==
    ASSUME FieldsInv, NEW k \in ItemKeys, NEW f \in Flags, NEW e \in Expirations,
           NEW n \in Sizes, Set(k, f, e, n)
    PROVE  FieldsInv'
<1> DEFINE item == [flags |-> Decimal(WriteNumeric(f)) % IntRange,
                    exp |-> Decimal(WriteNumeric(e)), size |-> Decimal(WriteNumeric(n)),
                    cas |-> nextCas, given |-> [flags |-> f, exp |-> e, size |-> n]]
<1>1. /\ MayStore /\ items' = [items EXCEPT ![k] = item] /\ nextCas' = nextCas + 1
      /\ UNCHANGED <<pc, maxSize, limit, lines, cas, got>>
      /\ n <= maxSize /\ verdict' = [says |-> "stored", right |-> n <= limit]
      BY DEF Set, Puts
<1>2. nextCas \in UInts
      BY <1>1, NextIsUInt
<1>3. item \in Items
      BY <1>2, FieldsAssumption, SetItem
<1>4. item.cas = nextCas
      OBVIOUS
<1>5. verdict'.right
  <2>1. verdict'.right = (n <= limit)
        BY <1>1
  <2>2. n <= limit
        BY <1>1 DEF FieldsInv
  <2>. QED BY <2>1, <2>2
<1> HIDE DEF item
<1>. QED BY <1>1, <1>3, <1>4, <1>5, Stores

LEMMA MaySetByOther ==
    ASSUME FieldsInv, NEW k \in ItemKeys, SetByOther(k)
    PROVE  FieldsInv'
<1> DEFINE item == [flags |-> Decimal(<<0>>) % IntRange, exp |-> Decimal(<<0>>),
                    size |-> Decimal(<<1>>), cas |-> nextCas,
                    given |-> [flags |-> 0, exp |-> 0, size |-> 1]]
<1>1. /\ MayStore /\ items' = [items EXCEPT ![k] = item] /\ nextCas' = nextCas + 1
      /\ UNCHANGED <<pc, maxSize, limit, lines, cas, got>> /\ verdict' = verdict
      BY DEF SetByOther, Puts
<1>2. item \in Items
      BY <1>1, NextIsUInt, OthersItem
<1>3. item.cas = nextCas
      OBVIOUS
<1>4. verdict'.right
      BY <1>1 DEF FieldsInv
<1> HIDE DEF item
<1>. QED BY <1>1, <1>2, <1>3, <1>4, Stores

\* cas() finds the cas value it was given with the item it was given with.
LEMMA MayCas ==
    ASSUME FieldsInv, NEW k \in ItemKeys, Cas(k)
    PROVE  FieldsInv'
<1>1. /\ MayStore /\ got[k] # Absent /\ got[k].withCas
      /\ UNCHANGED <<pc, maxSize, limit, lines, cas, got>>
      BY DEF Cas
<1>2. /\ got[k] \in Reads /\ items[k] \in Items
      /\ got[k].item = items[k] \/ got[k].item.cas < items[k].cas
      BY <1>1 DEF FieldsInv, ReadEarlier, StoredOnce
<1>3. got[k].cas = got[k].item.cas /\ got[k].cas \in UInts /\ got[k].item \in Items
      BY <1>1, <1>2 DEF Reads
<1>4. Decimal(WriteNumeric(got[k].cas)) = got[k].item.cas
      BY <1>3, UIntWritten
<1>5. got[k].item.cas \in Int /\ items[k].cas \in Int
      BY <1>2, <1>3, ItemTypes
<1>6. CASE got[k].item.cas = items[k].cas
  <2> DEFINE item == [flags |-> Decimal(<<0>>) % IntRange, exp |-> Decimal(<<0>>),
                      size |-> Decimal(<<1>>), cas |-> nextCas,
                      given |-> [flags |-> 0, exp |-> 0, size |-> 1]]
  <2>1. Decimal(WriteNumeric(got[k].cas)) = items[k].cas
        BY <1>4, <1>6
  <2>2. /\ items' = [items EXCEPT ![k] = item] /\ nextCas' = nextCas + 1
        /\ verdict' = [says |-> "STORED", right |-> got[k].item = items[k]]
        BY <2>1 DEF Cas, Puts
  <2>3. item \in Items
        BY <1>1, NextIsUInt, OthersItem
  <2>4. item.cas = nextCas
        OBVIOUS
  <2>5. verdict'.right
    <3>1. got[k].item = items[k]
          BY <1>2, <1>5, <1>6
    <3>2. verdict'.right = (got[k].item = items[k])
          BY <2>2
    <3>. QED BY <3>1, <3>2
  <2> HIDE DEF item
  <2>. QED BY <1>1, <2>2, <2>3, <2>4, <2>5, Stores
<1>7. CASE got[k].item.cas # items[k].cas
  <2>1. ~(Decimal(WriteNumeric(got[k].cas)) = items[k].cas)
        BY <1>4, <1>7
  <2>2. /\ UNCHANGED <<items, nextCas>>
        /\ verdict' = [says |-> "EXISTS", right |-> got[k].item # items[k]]
        BY <2>1 DEF Cas
  <2>3. verdict'.right
    <3>1. got[k].item # items[k]
          BY <1>7
    <3>2. verdict'.right = (got[k].item # items[k])
          BY <2>2
    <3>. QED BY <3>1, <3>2
  <2>4. TrueLines' = TrueLines
        BY <2>2 DEF TrueLines, LineOf
  <2>5. \A j \in ItemKeys : StoredOnce(j)' /\ ReadEarlier(j)'
        BY <1>1, <2>2 DEF FieldsInv, StoredOnce, ReadEarlier
  <2>. QED BY <1>1, <2>2, <2>3, <2>4, <2>5 DEF FieldsInv
<1>. QED BY <1>6, <1>7

\* What leaves the server's items alone, and the lines and the cas values read.
LEMMA Others ==
    ASSUME FieldsInv, UNCHANGED <<items, nextCas, lines, cas, got>>,
           pc' \in {"new", "idle", "values"}, pc' # "values" => lines = <<>>,
           maxSize' = limit', limit' \in Ints \cap Nat, verdict'.right
    PROVE  FieldsInv'
<1>1. TrueLines' = TrueLines
      BY DEF TrueLines, LineOf
<1>2. \A j \in ItemKeys : StoredOnce(j)' /\ ReadEarlier(j)'
      BY DEF FieldsInv, StoredOnce, ReadEarlier
<1>. QED BY <1>1, <1>2 DEF FieldsInv

LEMMA MayConstruct ==
    ASSUME FieldsInv, NEW n \in Limits, Construct(n)
    PROVE  FieldsInv'
<1>1. /\ pc' = "idle" /\ lines = <<>> /\ maxSize' = StoreInt(DefaultSize, n) /\ limit' = n
      /\ UNCHANGED <<items, nextCas, lines, cas, got>> /\ verdict' = verdict
      BY DEF Construct, FieldsInv
<1>2. n \in Ints \cap Nat /\ DefaultSize \in Ints \cap Nat
      BY FieldsAssumption
<1>3. \A i \in Ints \cap Nat : i \in 0 .. IntRange - 1
      BY Ranges DEF Ints
<1>4. n % IntRange = n /\ DefaultSize % IntRange = DefaultSize
      BY <1>2, <1>3, Ranges, SmallRest
<1>5. StoreInt(DefaultSize, n) = n
      BY <1>2, <1>4 DEF StoreInt
<1>6. verdict'.right
      BY <1>1 DEF FieldsInv
<1>. QED BY <1>1, <1>2, <1>5, <1>6, Others

LEMMA MayBeRefused ==
    ASSUME FieldsInv, NEW n \in Sizes, SetRefused(n)
    PROVE  FieldsInv'
<1>1. /\ pc = "idle" /\ n > maxSize /\ verdict' = [says |-> "refused", right |-> n > limit]
      /\ UNCHANGED <<pc, maxSize, limit, items, nextCas, lines, cas, got>>
      BY DEF SetRefused
<1>2. n > limit
      BY <1>1 DEF FieldsInv
<1>3. verdict'.right
  <2>1. verdict'.right = (n > limit)
        BY <1>1
  <2>. QED BY <1>2, <2>1
<1>4. /\ maxSize' = limit' /\ limit' \in Ints \cap Nat
      /\ pc' = "idle" /\ lines = <<>>
      BY <1>1 DEF FieldsInv
<1>. QED BY <1>1, <1>3, <1>4, Others

LEMMA MayReadEnd ==
    ASSUME FieldsInv, ReadEnd
    PROVE  FieldsInv'
<1>1. /\ pc' = "idle" /\ lines = <<>>
      /\ UNCHANGED <<maxSize, limit, items, nextCas, lines, cas, got, verdict>>
      BY DEF ReadEnd
<1>2. maxSize' = limit' /\ limit' \in Ints \cap Nat /\ verdict'.right
      BY <1>1 DEF FieldsInv
<1>. QED BY <1>1, <1>2, Others

LEMMA MayMulti ==
    ASSUME FieldsInv, NEW withCas \in BOOLEAN, Multi(withCas)
    PROVE  FieldsInv'
<1> DEFINE S == { k \in ItemKeys : items[k] # Absent }
<1>1. /\ pc' = "values" /\ got' = [k \in ItemKeys |-> Absent] /\ cas' = Leftover
      /\ UNCHANGED <<maxSize, limit, items, nextCas, verdict>>
      BY DEF Multi
<1>2. PICK found \in SetToSeqs(S) :
         lines' = [i \in DOMAIN found |->
                      [key |-> found[i], item |-> items[found[i]],
                       line |-> LineOf(found[i], withCas), withCas |-> withCas]]
      BY DEF Multi
<1>3. TrueLines' = TrueLines
      BY <1>1 DEF TrueLines, LineOf
<1>4. lines' \in Seq(TrueLines)
  <2>1. IsFiniteSet(S)
        BY FieldsAssumption, FS_Subset
  <2>2. PICK n \in Nat : n = Cardinality(S)
        BY <2>1, FS_CardinalityType
  <2> HIDE DEF S
  <2>3. found \in [1 .. n -> S]
        BY <1>2, <2>2 DEF SetToSeqs
  <2>4. ASSUME NEW s \in S
        PROVE  [key |-> s, item |-> items[s], line |-> LineOf(s, withCas), withCas |-> withCas]
                  \in TrueLines
    <3>1. <<s, withCas>> \in S \X BOOLEAN
          OBVIOUS
    <3>. QED BY <3>1 DEF TrueLines, S
  <2>5. lines' \in [1 .. n -> TrueLines]
        BY <1>2, <2>3, <2>4
  <2>. QED BY <2>5, SeqDef
<1>5. Leftover \in UInts
      BY FieldsAssumption
<1>6. \A j \in ItemKeys : StoredOnce(j)' /\ ReadEarlier(j)'
      BY <1>1 DEF FieldsInv, StoredOnce, ReadEarlier
<1>. QED BY <1>1, <1>3, <1>4, <1>5, <1>6 DEF FieldsInv

LEMMA MayReadNext ==
    ASSUME FieldsInv, ReadNext
    PROVE  FieldsInv'
<1> DEFINE l == Head(lines)
           k == l.key
           read == ReadValueLine(l.line, cas)
           new == [flags |-> read.flags, size |-> read.bytes, cas |-> read.cas,
                   item |-> l.item, withCas |-> l.withCas]
<1>1. /\ pc = "values" /\ lines # <<>> /\ cas' = read.cas
      /\ got' = [got EXCEPT ![k] = new] /\ lines' = Tail(lines)
      /\ UNCHANGED <<pc, maxSize, limit, items, nextCas, verdict>>
      BY DEF ReadNext
<1>2. TrueLines' = TrueLines
      BY <1>1 DEF TrueLines, LineOf
<1>3. l \in TrueLines /\ lines' \in Seq(TrueLines)
      BY <1>1, HeadTailProperties DEF FieldsInv
<1>4. /\ k \in ItemKeys /\ items[k] # Absent /\ l.item = items[k]
      /\ l.withCas \in BOOLEAN /\ l.line = LineOf(k, l.withCas)
  <2> HIDE DEF l
  <2>1. PICK p \in { j \in ItemKeys : items[j] # Absent } \X BOOLEAN :
            l = [key |-> p[1], item |-> items[p[1]], line |-> LineOf(p[1], p[2]), withCas |-> p[2]]
        BY <1>3 DEF TrueLines
  <2>2. p[1] \in ItemKeys /\ items[p[1]] # Absent /\ p[2] \in BOOLEAN
        OBVIOUS
  <2>3. l.key = p[1] /\ l.item = items[p[1]] /\ l.line = LineOf(p[1], p[2]) /\ l.withCas = p[2]
        BY <2>1
  <2>. QED BY <2>2, <2>3
<1> HIDE DEF l, k
<1>5. items[k] \in Items
      BY <1>4 DEF FieldsInv, StoredOnce
<1>6. /\ read.flags = items[k].given.flags /\ read.bytes = items[k].size
      /\ read.cas = IF l.withCas THEN items[k].cas ELSE cas
      BY <1>4, <1>5, ItemRead
<1> HIDE DEF read
<1>7. /\ items[k].given.flags \in Ints /\ items[k].size \in UInts /\ items[k].cas \in UInts
      /\ items[k].size = items[k].given.size
      BY <1>5 DEF Items
<1>8. read.cas \in UInts
      BY <1>6, <1>7 DEF FieldsInv
<1>9. new \in Reads /\ new.item = items[k]
      BY <1>4, <1>5, <1>6, <1>7, <1>8 DEF Reads
<1> HIDE DEF new
<1>10. \A j \in ItemKeys : ReadEarlier(j)'
  <2>1. SUFFICES ASSUME NEW j \in ItemKeys PROVE ReadEarlier(j)'
        OBVIOUS
  <2>2. CASE j = k
    <3>1. got'[j] = new
          BY <1>1, <2>2 DEF FieldsInv
    <3>. QED BY <1>1, <1>4, <1>9, <2>2, <3>1 DEF ReadEarlier
  <2>3. CASE j # k
    <3>1. got'[j] = got[j]
          BY <1>1, <2>3 DEF FieldsInv
    <3>. QED BY <1>1, <3>1 DEF FieldsInv, ReadEarlier
  <2>. QED BY <2>2, <2>3
<1>11. \A j \in ItemKeys : StoredOnce(j)'
       BY <1>1 DEF FieldsInv, StoredOnce
<1>12. DOMAIN got' = ItemKeys
       BY <1>1 DEF FieldsInv
<1>. QED BY <1>1, <1>2, <1>3, <1>8, <1>10, <1>11, <1>12 DEF FieldsInv

LEMMA FieldsNext == FieldsInv /\ [Next]_vars => FieldsInv'
<1> SUFFICES ASSUME FieldsInv, [Next]_vars PROVE FieldsInv'
    OBVIOUS
<1>1. ASSUME NEW n \in Limits, Construct(n) PROVE FieldsInv'
      BY <1>1, MayConstruct
<1>2. ASSUME NEW n \in Sizes, SetRefused(n) PROVE FieldsInv'
      BY <1>2, MayBeRefused
<1>3. ASSUME NEW k \in ItemKeys, NEW f \in Flags, NEW e \in Expirations, NEW n \in Sizes,
             Set(k, f, e, n)
      PROVE  FieldsInv'
      BY <1>3, MaySet
<1>4. ASSUME NEW k \in ItemKeys, SetByOther(k) PROVE FieldsInv'
      BY <1>4, MaySetByOther
<1>5. ASSUME NEW k \in ItemKeys, Cas(k) PROVE FieldsInv'
      BY <1>5, MayCas
<1>6. ASSUME NEW withCas \in BOOLEAN, Multi(withCas) PROVE FieldsInv'
      BY <1>6, MayMulti
<1>7. CASE ReadNext
      BY <1>7, MayReadNext
<1>8. CASE ReadEnd
      BY <1>8, MayReadEnd
<1>9. CASE UNCHANGED vars
  <2>1. TrueLines' = TrueLines
        BY <1>9 DEF TrueLines, LineOf, vars
  <2>2. \A j \in ItemKeys : StoredOnce(j)' /\ ReadEarlier(j)'
        BY <1>9 DEF FieldsInv, StoredOnce, ReadEarlier, vars
  <2>. QED BY <1>9, <2>1, <2>2 DEF FieldsInv, vars
<1>. QED BY <1>1, <1>2, <1>3, <1>4, <1>5, <1>6, <1>7, <1>8, <1>9 DEF Next

LEMMA FieldsHold == Spec => []FieldsInv
BY FieldsInit, FieldsNext, PTL DEF Spec

-----------------------------------------------------------------------------
(***************************************************************************)
(* The numbers of get_multi() are a UINT64's and an int's.                 *)
(***************************************************************************)
THEOREM FieldsTyped == Spec => []TypeOK
<1>1. FieldsInv => TypeOK
  <2> SUFFICES ASSUME FieldsInv PROVE TypeOK
      OBVIOUS
  <2>1. limit \in UInts /\ maxSize \in UInts
        BY Ranges DEF FieldsInv
  <2>2. ASSUME NEW k \in ItemKeys, got[k] # Absent
        PROVE  got[k].flags \in Ints /\ got[k].size \in UInts /\ got[k].cas \in UInts
        BY <2>2 DEF FieldsInv, ReadEarlier, Reads
  <2>. QED BY <2>1, <2>2 DEF FieldsInv, TypeOK
<1>. QED BY <1>1, FieldsHold, PTL

(***************************************************************************)
(* get_multi() returns the flags and the length that set() was given, of   *)
(* whatever sign and however many digits they are on the wire, and the     *)
(* server has the expiration, unless that is negative.                     *)
(***************************************************************************)
THEOREM FieldsReturn == Spec => []FieldsKept
<1>1. FieldsInv => FieldsKept
  <2> SUFFICES ASSUME FieldsInv, NEW k \in ItemKeys
               PROVE  /\ got[k] # Absent => /\ got[k].flags = got[k].item.given.flags
                                            /\ got[k].size = got[k].item.given.size
                      /\ items[k] # Absent /\ items[k].given.exp >= 0 =>
                            items[k].exp = items[k].given.exp
      BY DEF FieldsKept
  <2>1. ASSUME got[k] # Absent
        PROVE  /\ got[k].flags = got[k].item.given.flags
               /\ got[k].size = got[k].item.given.size
        BY <2>1 DEF FieldsInv, ReadEarlier, Reads
  <2>2. ASSUME items[k] # Absent, items[k].given.exp >= 0
        PROVE  items[k].exp = items[k].given.exp
        BY <2>2 DEF FieldsInv, StoredOnce, Items
  <2>. QED BY <2>1, <2>2
<1>. QED BY <1>1, FieldsHold, PTL

(***************************************************************************)
(* set() refuses exactly the values above the size the program asked for,  *)
(* and cas() stores exactly when the item is the one gets_multi() read.    *)
(***************************************************************************)
THEOREM StoresDecided == Spec => []StoresAreRight
<1>1. FieldsInv => StoresAreRight
      BY DEF FieldsInv, StoresAreRight
<1>. QED BY <1>1, FieldsHold, PTL

(***************************************************************************)
(* However a VALUE line is broken, getReadNext() leaves the cursor behind  *)
(* its first word or at its end when it fails, and before the end when it  *)
(* does not.                                                               *)
(***************************************************************************)
THEOREM LinesStop == Spec => []StopsAtEitherEnd
<1>1. ASSUME NEW line \in Seq(Nat), line # <<>>
      PROVE  LET read == ReadValueLine(line, Unread)
             IN  IF read.ok THEN read.at < Len(line) ELSE read.at \in {1, Len(line)}
  <2>1. Len(line) \in Nat \ {0}
        BY <1>1, LenProperties, EmptySeq
  <2>2. ReadBytes(line, Start, 1) = At(1, 0)
    <3>1. Start = At(0, 0)
          BY DEF Start, At
    <3>2. ReadBytes(line, At(0, 0), 1) = At(0 + 1, 0)
          BY <2>1, ByteRead
    <3>. QED BY <3>1, <3>2
  <2>3. Ends(line, KeyOf(line))
    <3> DEFINE S == { p \in 1 .. Len(line) - 1 : line[p + 1] = SP }
    <3>1. At(1, 0).at = 1 /\ At(1, 0).ok /\ At(1, 0) = [at |-> 1, ok |-> TRUE, num |-> 0]
          BY DEF At
    <3>2. KeyOf(line) = IF S = {} THEN Failed(At(1, 0)) ELSE [At(1, 0) EXCEPT !.at = Min(S)]
          BY <2>2, <3>1 DEF KeyOf, ReadUntil
    <3>3. S \in SUBSET (0 .. Len(line) - 1) /\ \A x \in S : x \in 1 .. Len(line) - 1
          BY <2>1
    <3> HIDE DEF S
    <3>4. CASE S = {}
      <4>1. KeyOf(line) = Failed(At(1, 0))
            BY <3>2, <3>4
      <4> DEFINE t == Failed(At(1, 0))
      <4>2. t = [At(1, 0) EXCEPT !.ok = FALSE] /\ At(1, 0) \in [at : Nat, ok : BOOLEAN, num : Int]
            BY DEF Failed, At
      <4> HIDE DEF t
      <4>3. t \in [at : Nat, ok : BOOLEAN, num : Int] /\ ~t.ok /\ t.at = 1
            BY <3>1, <4>2
      <4>4. Ends(line, t)
            BY <4>3 DEF Ends
      <4>. QED BY <4>1, <4>4 DEF t
    <3>5. CASE S # {}
      <4>1. PICK m \in 1 .. Len(line) - 1 : m = Min(S)
        <5>1. Len(line) - 1 \in Nat
              BY <2>1
        <5>2. Min(S) \in S
              BY <3>3, <3>5, <5>1, MinIn
        <5>. QED BY <3>3, <5>2
      <4>2. KeyOf(line) = [at |-> m, ok |-> TRUE, num |-> 0]
        <5>1. KeyOf(line) = [At(1, 0) EXCEPT !.at = m]
              BY <3>2, <3>5, <4>1
        <5>. QED BY <5>1 DEF At
      <4>. QED BY <2>1, <4>1, <4>2 DEF Ends
    <3>. QED BY <3>4, <3>5
  <2>4. Ends(line, FlagsOf(line))
        BY <2>3, NumberEnds DEF FlagsOf
  <2>5. Ends(line, LengthOf(line))
        BY <2>4, NumberEnds DEF LengthOf
  <2>6. Ends(line, LastOf(line))
        BY <2>5, NumberEnds DEF LastOf
  <2> DEFINE read == ReadValueLine(line, Unread)
  <2>7. read.ok = LastOf(line).ok /\ read.at = LastOf(line).at
        BY LineSteps
  <2> HIDE DEF read
  <2>8. IF LastOf(line).ok THEN LastOf(line).at < Len(line) ELSE LastOf(line).at \in {1, Len(line)}
        BY <2>1, <2>6 DEF Ends
  <2>9. IF read.ok THEN read.at < Len(line) ELSE read.at \in {1, Len(line)}
        BY <2>7, <2>8
  <2>. QED BY <2>9 DEF read
<1>2. StopsAtEitherEnd
      BY <1>1, FieldsAssumption DEF StopsAtEitherEnd
<1>. QED BY <1>2, PTL

(***************************************************************************)
(* A line made of any numbers gives those numbers, the length and the cas  *)
(* modulo 2^64 and the flags modulo the width of an int.                   *)
(***************************************************************************)
THEOREM LinesRead == Spec => []ReadsWhatWasWritten
<1>1. ASSUME NEW f \in Nat
      PROVE  ToInt(f % Word) = ToInt(f)
  <2>1. PICK q \in Nat \ {0} : Word = q * IntRange
    <3>1. PICK q \in Nat : Word = q * IntRange
          BY Ranges, NumberAssumption, Times
    <3>. QED BY <3>1, Ranges
  <2>2. (f % Word) % IntRange = f % IntRange
        BY <2>1, Ranges, RestOfRest
  <2>. QED BY <2>2 DEF ToInt
<1>2. ASSUME NEW k \in ItemKeys, NEW f \in Nat, NEW n \in Nat
      PROVE  Gives(ReadValueLine(LineText(k, Digits(f), Digits(n), <<>>), Unread), f, n, Unread)
  <2> DEFINE read == ReadValueLine(LineText(k, Digits(f), Digits(n), <<>>), Unread)
  <2>1. k \in Nat /\ k # SP
        BY FieldsAssumption DEF SP, VALUE
  <2>2. /\ read.ok /\ read.flags = ToInt(f % Word)
        /\ read.bytes = n % Word /\ read.cas = Unread
        BY <2>1, PlainLineRead
  <2> HIDE DEF read
  <2>3. Gives(read, f, n, Unread)
        BY <1>1, <2>2 DEF Gives, ToUInt64
  <2>. QED BY <2>3 DEF read
<1>3. ASSUME NEW k \in ItemKeys, NEW f \in Nat, NEW n \in Nat, NEW c \in Nat
      PROVE  Gives(ReadValueLine(LineText(k, Digits(f), Digits(n), <<SP>> \o Digits(c)), Unread),
                   f, n, ToUInt64(c))
  <2> DEFINE read == ReadValueLine(LineText(k, Digits(f), Digits(n), <<SP>> \o Digits(c)), Unread)
  <2>1. k \in Nat /\ k # SP
        BY FieldsAssumption DEF SP, VALUE
  <2>2. /\ read.ok /\ read.flags = ToInt(f % Word)
        /\ read.bytes = n % Word /\ read.cas = c % Word
        BY <2>1, CasLineRead
  <2> HIDE DEF read
  <2>3. Gives(read, f, n, ToUInt64(c))
        BY <1>1, <2>2 DEF Gives, ToUInt64
  <2>. QED BY <2>3 DEF read
<1>4. ReadsWhatWasWritten
  <2>1. \A n \in Numbers : n \in Nat
        BY FieldsAssumption
  <2>. QED BY <1>2, <1>3, <2>1 DEF ReadsWhatWasWritten
<1>. QED BY <1>4, PTL
=============================================================================

---------------------------- MODULE FoldTheorems ----------------------------
(***************************************************************************)
(* What folding an operator over a sequence computes.  A component that    *)
(* folds an operator of its own instantiates this module with it; the      *)
(* first argument of Op is whatever else that operator depends on.         *)
(***************************************************************************)
EXTENDS Integers, SequencesExt, WellFoundedInduction, TLAPS

CONSTANT Op(_, _, _)

-----------------------------------------------------------------------------
(* Smallest and largest numbers.                                           *)

(* A nonempty set of naturals has a smallest element: induction, as the    *)
(* search for a smallest counterexample.                                   *)
LEMMA SmallestNat ==
  ASSUME NEW T, T \subseteq Nat, T # {}
  PROVE  \E x \in T : \A y \in T : x <= y
<1>1. \E x \in T : \A y \in T : ~(<<y, x>> \in OpToRel(<, Nat))
  BY NatLessThanWellFounded, WFMin
<1>2. PICK x \in T : \A y \in T : ~(y < x)
  BY <1>1 DEF OpToRel
<1> QED
  BY <1>2

(* The fold of the library takes the elements of a set of positions in     *)
(* decreasing order.                                                       *)
LEMMA MaxOf ==
  ASSUME NEW n \in Nat, NEW s \in SUBSET (1..n), n \in s
  PROVE  Max(s) = n
<1>1. \A y \in s : n >= y
  OBVIOUS
<1>2. \A x \in s : (\A y \in s : x >= y) => x = n
  OBVIOUS
<1> HIDE DEF Max
<1>3. Max(s) = CHOOSE x \in s : \A y \in s : x >= y
  BY DEF Max
<1>4. (CHOOSE x \in s : \A y \in s : x >= y) \in s /\ \A y \in s : (CHOOSE x \in s : \A z \in s : x >= z) >= y
  BY <1>1
<1> QED
  BY <1>2, <1>3, <1>4

LEMMA MaxIn ==
  ASSUME NEW n \in Nat, NEW s \in SUBSET (1..n), s # {}
  PROVE  Max(s) \in s
<1> DEFINE T == {k \in Nat : k <= n /\ n - k \in s}
<1>1. T # {} /\ T \subseteq Nat
  <2> PICK k \in s : TRUE
    OBVIOUS
  <2> n - k \in T
    OBVIOUS
  <2> QED
    OBVIOUS
<1>2. PICK k \in T : \A y \in T : k <= y
  <2> HIDE DEF T
  <2> QED
    BY <1>1, SmallestNat
<1>3. \A y \in s : n - k >= y
  <2> TAKE y \in s
  <2>1. n - y \in T
    OBVIOUS
  <2>2. k <= n - y
    BY <2>1, <1>2
  <2>3. k \in Nat /\ y \in Nat
    OBVIOUS
  <2> HIDE DEF T
  <2> QED
    BY <2>2, <2>3
<1>4. \E x \in s : \A y \in s : x >= y
  BY <1>3, <1>2
<1> QED
  BY <1>4 DEF Max

-----------------------------------------------------------------------------
(* The fold as a run.                                                      *)

(* The function the library's fold is defined by, for the positions 1..n.  *)
Iter(it, p, base, seq, n) ==
  it = [s \in SUBSET (1..n) |->
          IF s = {} THEN base ELSE Op(p, it[s \ {Max(s)}], seq[Max(s)])]

(* There is such a function, so CHOOSE finds one.                          *)
LEMMA IterExists ==
  ASSUME NEW p, NEW base, NEW seq
  PROVE  \A n \in Nat : \E it : Iter(it, p, base, seq, n)
<1> DEFINE T == {n \in Nat : ~ \E it : Iter(it, p, base, seq, n)}
<1> SUFFICES ASSUME T # {} PROVE FALSE
  OBVIOUS
<1>1. PICK n \in T : \A y \in T : n <= y
  <2> T \subseteq Nat
    OBVIOUS
  <2> HIDE DEF T
  <2> QED
    BY SmallestNat
<1>2. n # 0
  <2> SUFFICES \E it : Iter(it, p, base, seq, 0)
    OBVIOUS
  <2> WITNESS [s \in SUBSET (1..0) |-> base]
  <2> QED
    BY DEF Iter
<1>3. PICK it : Iter(it, p, base, seq, n-1)
  BY <1>1, <1>2
<1> DEFINE next == [s \in SUBSET (1..n) |->
                     IF n \in s THEN Op(p, it[s \ {n}], seq[n]) ELSE it[s]]
<1>4. Iter(next, p, base, seq, n)
  <2> n \in Nat \ {0}
    BY <1>2
  <2> SUFFICES ASSUME NEW s \in SUBSET (1..n)
               PROVE next[s] = IF s = {} THEN base ELSE Op(p, next[s \ {Max(s)}], seq[Max(s)])
    BY DEF Iter
  <2>1. CASE n \in s
    <3> s \ {n} \in SUBSET (1..(n-1))
      OBVIOUS
    <3> Max(s) = n
      BY <2>1, MaxOf
    <3> n \notin s \ {n}
      OBVIOUS
    <3> QED
      BY <2>1
  <2>2. CASE n \notin s
    <3> s \in SUBSET (1..(n-1))
      BY <2>2
    <3>1. it[s] = IF s = {} THEN base ELSE Op(p, it[s \ {Max(s)}], seq[Max(s)])
      BY <1>3 DEF Iter
    <3>2. n \notin s \ {Max(s)}
      BY <2>2
    <3> QED
      BY <2>2, <3>1, <3>2
  <2> QED
    BY <2>1, <2>2
<1> QED
  BY <1>4

(* The fold of Op, and a run of it: h[i] is the value after i elements.    *)
Fold(p, base, seq) == FoldLeft(LAMBDA e, x : Op(p, e, x), base, seq)

IsRun(h, p, base, seq, n) ==
  /\ h[0] = base
  /\ \A i \in 1..n : h[i] = Op(p, h[i - 1], seq[i])

(* A fold is the last value of a run.                                      *)
LEMMA FoldHasRun ==
  ASSUME NEW p, NEW base, NEW seq, NEW n \in Nat, DOMAIN seq = 1..n
  PROVE  \E h : IsRun(h, p, base, seq, n) /\ h[n] = Fold(p, base, seq)
<1> DEFINE it == CHOOSE g : Iter(g, p, base, seq, n)
<1>1. Iter(it, p, base, seq, n)
  BY IterExists
<1>2. Fold(p, base, seq) = it[1..n]
  BY DEF Fold, FoldLeft, MapThenFoldSet, Iter
<1> DEFINE h == [i \in 0..n |-> it[1..i]]
<1>3. h[0] = base
  <2>1. 1..0 = {} /\ {} \in SUBSET (1..n) /\ 0 \in 0..n
    OBVIOUS
  <2>2. it[{}] = base
    BY <1>1, <2>1 DEF Iter
  <2> HIDE DEF it
  <2> QED
    BY <2>1, <2>2
<1>4. ASSUME NEW i \in 1..n PROVE h[i] = Op(p, h[i - 1], seq[i])
  <2>1. (1..i) \in SUBSET (1..n) /\ i \in 1..i
    OBVIOUS
  <2>2. Max(1..i) = i
    BY <2>1, MaxOf
  <2>3. (1..i) \ {i} = 1..(i-1)
    OBVIOUS
  <2>4. it[1..i] = Op(p, it[1..(i-1)], seq[i])
    BY <1>1, <2>1, <2>2, <2>3 DEF Iter
  <2> HIDE DEF it
  <2> QED
    BY <2>4
<1>5. h[n] = Fold(p, base, seq)
  <2> HIDE DEF it
  <2> QED
    BY <1>2
<1> HIDE DEF h
<1> QED
  BY <1>3, <1>4, <1>5 DEF IsRun

(* Runs over the same elements agree.                                      *)
LEMMA RunsAgree ==
  ASSUME NEW p, NEW base, NEW n \in Nat, NEW s, NEW t, NEW g, NEW h,
         IsRun(g, p, base, s, n), IsRun(h, p, base, t, n), \A i \in 1..n : s[i] = t[i]
  PROVE  \A i \in 0..n : g[i] = h[i]
<1> DEFINE T == {i \in 0..n : g[i] # h[i]}
<1> SUFFICES ASSUME T # {} PROVE FALSE
  OBVIOUS
<1>1. PICK i \in T : \A j \in T : i <= j
  <2> T \subseteq Nat
    OBVIOUS
  <2> HIDE DEF T
  <2> QED
    BY SmallestNat
<1>2. i # 0
  BY DEF IsRun
<1>3. g[i - 1] = h[i - 1]
  BY <1>1, <1>2
<1> QED
  BY <1>1, <1>2, <1>3 DEF IsRun

(* The last value of any run is the fold.                                  *)
LEMMA FoldOfRun ==
  ASSUME NEW p, NEW base, NEW seq, NEW n \in Nat, DOMAIN seq = 1..n,
         NEW h, IsRun(h, p, base, seq, n)
  PROVE  Fold(p, base, seq) = h[n]
<1>1. PICK g : IsRun(g, p, base, seq, n) /\ g[n] = Fold(p, base, seq)
  BY FoldHasRun
<1>2. \A i \in 1..n : seq[i] = seq[i]
  OBVIOUS
<1>3. \A i \in 0..n : g[i] = h[i]
  BY <1>1, <1>2, RunsAgree
<1> QED
  BY <1>1, <1>3

-----------------------------------------------------------------------------
(* The laws of the fold.                                                   *)

(* Nothing to fold leaves the base.                                        *)
LEMMA FoldEmpty ==
  ASSUME NEW p, NEW base
  PROVE  Fold(p, base, <<>>) = base
<1>1. DOMAIN <<>> = 1..0
  OBVIOUS
<1> QED
  BY <1>1, FoldHasRun DEF IsRun

(***************************************************************************)
(* Folding a concatenation is folding its first part, then its second: a   *)
(* receiver that has read some messages of a channel is where it will be   *)
(* when it has read all of them, whatever part it has read.                *)
(***************************************************************************)
LEMMA FoldConcat ==
  ASSUME NEW p, NEW base, NEW S, NEW s \in Seq(S), NEW t \in Seq(S)
  PROVE  Fold(p, base, s \o t) = Fold(p, Fold(p, base, s), t)
<1> DEFINE m == Len(s)  n == Len(t)
<1>1. /\ m \in Nat /\ n \in Nat
      /\ DOMAIN s = 1..m /\ DOMAIN t = 1..n /\ DOMAIN (s \o t) = 1..(m + n)
      /\ \A i \in 1..m : (s \o t)[i] = s[i]
      /\ \A i \in 1..n : (s \o t)[m + i] = t[i]
  OBVIOUS
<1> HIDE DEF m, n
<1>2. PICK g : IsRun(g, p, base, s, m) /\ g[m] = Fold(p, base, s)
  BY <1>1, FoldHasRun
<1>3. PICK h : IsRun(h, p, g[m], t, n) /\ h[n] = Fold(p, g[m], t)
  BY <1>1, FoldHasRun
<1> DEFINE f == [i \in 0..(m + n) |-> IF i <= m THEN g[i] ELSE h[i - m]]
<1>4. IsRun(f, p, base, s \o t, m + n)
  <2>1. f[0] = base
    BY <1>1, <1>2 DEF IsRun
  <2>2. ASSUME NEW i \in 1..(m + n) PROVE f[i] = Op(p, f[i - 1], (s \o t)[i])
    <3>1. CASE i <= m
      BY <3>1, <1>1, <1>2 DEF IsRun
    <3>2. CASE i = m + 1
      <4>1. f[i] = h[1] /\ f[i - 1] = g[m] /\ 1 \in 1..n /\ h[0] = g[m]
        BY <3>2, <1>1, <1>3 DEF IsRun
      <4>2. (s \o t)[i] = t[1]
        BY <3>2, <4>1, <1>1
      <4>3. h[1] = Op(p, h[0], t[1])
        BY <4>1, <1>3 DEF IsRun
      <4> HIDE DEF f
      <4> QED
        BY <4>1, <4>2, <4>3
    <3>3. CASE i > m + 1
      <4>1. f[i] = h[i - m] /\ f[i - 1] = h[(i - m) - 1] /\ i - m \in 1..n
        BY <3>3, <1>1
      <4>2. (s \o t)[i] = t[i - m]
        <5>1. (s \o t)[m + (i - m)] = t[i - m]
          BY <4>1, <1>1
        <5>2. m + (i - m) = i
          BY <1>1
        <5> QED
          BY <5>1, <5>2
      <4>3. h[i - m] = Op(p, h[(i - m) - 1], t[i - m])
        BY <4>1, <1>3 DEF IsRun
      <4> HIDE DEF f
      <4> QED
        BY <4>1, <4>2, <4>3
    <3> QED
      BY <3>1, <3>2, <3>3, <1>1
  <2> HIDE DEF f
  <2> QED
    BY <2>1, <2>2 DEF IsRun
<1>5. f[m + n] = h[n]
  <2>1. CASE n = 0
    <3> f[m + n] = g[m] /\ h[0] = g[m]
      BY <2>1, <1>1, <1>3 DEF IsRun
    <3> QED
      BY <2>1
  <2>2. CASE n # 0
    BY <2>2, <1>1
  <2> QED
    BY <2>1, <2>2
<1>6. Fold(p, base, s \o t) = f[m + n]
  <2> HIDE DEF f
  <2>1. m + n \in Nat /\ DOMAIN (s \o t) = 1..(m + n)
    BY <1>1
  <2> QED
    BY <2>1, <1>4, FoldOfRun
<1> HIDE DEF f
<1> QED
  BY <1>2, <1>3, <1>5, <1>6

(* Folding one element applies the operator once.                          *)
LEMMA FoldOne ==
  ASSUME NEW p, NEW base, NEW x
  PROVE  Fold(p, base, <<x>>) = Op(p, base, x)
<1> DEFINE h == [i \in 0..1 |-> IF i = 0 THEN base ELSE Op(p, base, x)]
<1>1. IsRun(h, p, base, <<x>>, 1)
  BY DEF IsRun
<1>2. DOMAIN <<x>> = 1..1 /\ 1 \in Nat
  OBVIOUS
<1>3. Fold(p, base, <<x>>) = h[1]
  <2> HIDE DEF h
  <2> QED
    BY <1>1, <1>2, FoldOfRun
<1> QED
  BY <1>3

(* A message sent is applied after all those before it.                    *)
LEMMA FoldAppend ==
  ASSUME NEW p, NEW base, NEW S, NEW s \in Seq(S), NEW x \in S
  PROVE  Fold(p, base, Append(s, x)) = Op(p, Fold(p, base, s), x)
<1>1. Append(s, x) = s \o <<x>> /\ <<x>> \in Seq(S)
  OBVIOUS
<1>2. Fold(p, base, s \o <<x>>) = Fold(p, Fold(p, base, s), <<x>>)
  <2> DEFINE one == <<x>>
  <2>1. one \in Seq(S)
    BY <1>1
  <2> HIDE DEF one
  <2>2. Fold(p, base, s \o one) = Fold(p, Fold(p, base, s), one)
    BY <2>1, FoldConcat
  <2> QED
    BY <2>2 DEF one
<1> QED
  BY <1>1, <1>2, FoldOne

(* A message received changes nothing of what is still to come.            *)
LEMMA FoldHead ==
  ASSUME NEW p, NEW base, NEW S, NEW s \in Seq(S), s # <<>>
  PROVE  Fold(p, base, s) = Fold(p, Op(p, base, Head(s)), Tail(s))
<1> DEFINE x == Head(s)  r == Tail(s)
<1>1. s = <<x>> \o r /\ <<x>> \in Seq(S) /\ r \in Seq(S)
  OBVIOUS
<1> HIDE DEF x, r
<1>2. Fold(p, base, <<x>> \o r) = Fold(p, Fold(p, base, <<x>>), r)
  <2> DEFINE one == <<x>>
  <2>1. one \in Seq(S)
    BY <1>1
  <2> HIDE DEF one
  <2>2. Fold(p, base, one \o r) = Fold(p, Fold(p, base, one), r)
    BY <1>1, <2>1, FoldConcat
  <2> QED
    BY <2>2 DEF one
<1>3. Fold(p, base, s) = Fold(p, Op(p, base, x), r)
  BY <1>1, <1>2, FoldOne
<1> QED
  BY <1>3 DEF x, r

(***************************************************************************)
(* Induction over a fold: a set that holds the base and is closed under    *)
(* the operator holds every value of a run, and the result.                *)
(***************************************************************************)
LEMMA RunStaysIn ==
  ASSUME NEW p, NEW base, NEW seq, NEW n \in Nat, NEW h, IsRun(h, p, base, seq, n),
         NEW T, base \in T, \A e \in T, i \in 1..n : Op(p, e, seq[i]) \in T
  PROVE  \A i \in 0..n : h[i] \in T
<1> DEFINE Out == {i \in 0..n : h[i] \notin T}
<1>1. Out = {}
  <2> SUFFICES ASSUME Out # {} PROVE FALSE
    OBVIOUS
  <2>1. PICK i \in Out : \A j \in Out : i <= j
    <3>1. Out \subseteq Nat
      OBVIOUS
    <3> HIDE DEF Out
    <3> QED
      BY <3>1, SmallestNat
  <2>2. i # 0
    BY DEF IsRun
  <2>3. h[i - 1] \in T
    BY <2>1, <2>2
  <2> QED
    BY <2>1, <2>2, <2>3 DEF IsRun
<1> QED
  BY <1>1

LEMMA FoldStaysIn ==
  ASSUME NEW p, NEW base, NEW seq, NEW n \in Nat, DOMAIN seq = 1..n,
         NEW T, base \in T, \A e \in T, i \in 1..n : Op(p, e, seq[i]) \in T
  PROVE  Fold(p, base, seq) \in T
<1>1. PICK h : IsRun(h, p, base, seq, n) /\ h[n] = Fold(p, base, seq)
  BY FoldHasRun
<1>2. \A i \in 0..n : h[i] \in T
  BY <1>1, RunStaysIn
<1>3. h[n] \in T
  BY <1>2
<1> QED
  BY <1>1, <1>3

(* A fold that reaches U at one of its elements, and then stays in it, ends*)
(* in U; T is what holds all the way.                                      *)
LEMMA FoldReaches ==
  ASSUME NEW p, NEW base, NEW seq, NEW n \in Nat, DOMAIN seq = 1..n,
         NEW T, base \in T, \A e \in T, i \in 1..n : Op(p, e, seq[i]) \in T,
         NEW U, \A e \in U \cap T, i \in 1..n : Op(p, e, seq[i]) \in U,
         NEW k \in 1..n, \A e \in T : Op(p, e, seq[k]) \in U
  PROVE  Fold(p, base, seq) \in U \cap T
<1>1. PICK h : IsRun(h, p, base, seq, n) /\ h[n] = Fold(p, base, seq)
  BY FoldHasRun
<1> DEFINE Out == {i \in 0..n : h[i] \notin T \/ (i >= k /\ h[i] \notin U)}
<1>2. Out = {}
  <2> SUFFICES ASSUME Out # {} PROVE FALSE
    OBVIOUS
  <2>1. PICK i \in Out : \A j \in Out : i <= j
    <3>1. Out \subseteq Nat
      OBVIOUS
    <3> HIDE DEF Out
    <3> QED
      BY <3>1, SmallestNat
  <2>2. i # 0
    BY <1>1 DEF IsRun
  <2>3. h[i - 1] \in T /\ (i - 1 >= k => h[i - 1] \in U)
    BY <2>1, <2>2
  <2>4. h[i] = Op(p, h[i - 1], seq[i]) /\ i \in 1..n
    BY <1>1, <2>2 DEF IsRun
  <2>5. h[i] \in T
    BY <2>3, <2>4
  <2>6. i >= k => h[i] \in U
    <3>1. CASE i = k
      BY <2>3, <2>4, <3>1
    <3>2. CASE i > k
      <4>1. h[i - 1] \in U \cap T
        BY <2>3, <3>2
      <4> QED
        BY <2>4, <4>1
    <3> QED
      BY <3>1, <3>2
  <2> QED
    BY <2>5, <2>6
<1>3. n \in 0..n /\ n \notin Out /\ n >= k
  BY <1>2
<1> QED
  BY <1>1, <1>3
=============================================================================

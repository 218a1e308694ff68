------------------------------ MODULE FoldLemmas ------------------------------
(***************************************************************************)
(* What FoldLeft and FlattenSeq compute.  The community modules define the *)
(* first by a recursive function on the sets of positions of a sequence,   *)
(* choosing the largest position of each, and the second by one on the     *)
(* positions.  That such functions exist, and what they are of the first   *)
(* positions, are the facts every proof about a fold starts from.          *)
(***************************************************************************)
EXTENDS Naturals, Sequences, SequencesExt, FiniteSetsExt, WellFoundedInduction,
        SequenceTheorems, TLAPS

\* Induction over the naturals, for a set instead of a predicate.
LEMMA SetInduction ==
  ASSUME NEW S, 0 \in S, \A n \in Nat : n \in S => n + 1 \in S
  PROVE  Nat \subseteq S
<1> DEFINE T == Nat \ S
<1>1. SUFFICES ASSUME T # {} PROVE FALSE OBVIOUS
<1>2. \E x \in T : \A y \in T : ~(<<y, x>> \in OpToRel(<, Nat))
  BY <1>1, WFMin, NatLessThanWellFounded
<1>3. PICK x \in T : \A y \in T : ~(y < x)
  BY <1>2 DEF OpToRel
<1>4. x \in Nat /\ x # 0 OBVIOUS
<1>5. x - 1 \in Nat /\ x - 1 < x /\ (x - 1) + 1 = x BY <1>4
<1>6. x - 1 \in S BY <1>3, <1>5
<1>7. x \in S BY <1>5, <1>6
<1> QED BY <1>7

\* The largest of some positions.
LEMMA LargestPosition ==
  ASSUME NEW n \in Nat, NEW s \in SUBSET (1 .. n), s # {}
  PROVE  /\ Max(s) \in s
         /\ \A i \in s : i <= Max(s)
<1> DEFINE T == {n - i : i \in s}
<1>1. T \subseteq Nat /\ T # {}
  <2>1. \A i \in s : n - i \in Nat OBVIOUS
  <2> QED BY <2>1
<1>2. \E x \in T : \A y \in T : ~(<<y, x>> \in OpToRel(<, Nat))
  BY <1>1, WFMin, NatLessThanWellFounded
<1>3. PICK x \in T : \A y \in T : ~(y < x) BY <1>1, <1>2 DEF OpToRel
<1>4. PICK i \in s : x = n - i OBVIOUS
<1>5. \A j \in s : i >= j
  <2> TAKE j \in s
  <2>1. n - j \in T OBVIOUS
  <2>2. ~(n - j < x) BY <1>3, <2>1
  <2> HIDE DEF T
  <2> QED BY <1>4, <2>2
<1>6. \E k \in s : \A j \in s : k >= j BY <1>5
<1>7. Max(s) = CHOOSE k \in s : \A j \in s : k >= j BY DEF Max
<1>8. Max(s) \in s /\ \A j \in s : Max(s) >= j BY <1>6, <1>7
<1> QED BY <1>8

LEMMA LargestOfPrefix ==
  ASSUME NEW n \in Nat, NEW s \in SUBSET (1 .. n), NEW k \in s, \A i \in s : i <= k
  PROVE  Max(s) = k
<1>1. Max(s) \in s /\ k <= Max(s) BY LargestPosition
<1>2. Max(s) <= k BY <1>1
<1>3. Max(s) \in 1 .. n /\ k \in 1 .. n BY <1>1
<1> QED BY <1>1, <1>2, <1>3

\* One step of a fold, as a function of what there is so far and a position.
FoldStep(take, A, n) == take \in [A \X (1 .. n) -> A]

\* A function on the sets of positions that follows the fold.
FollowsFold(g, A, n, base, take) ==
  /\ g \in [SUBSET (1 .. n) -> A]
  /\ \A s \in SUBSET (1 .. n) :
       g[s] = IF s = {} THEN base ELSE take[<<g[s \ {Max(s)}], Max(s)>>]

LEMMA FoldExists ==
  ASSUME NEW n, n \in Nat, NEW A, NEW base, base \in A, NEW take, FoldStep(take, A, n)
  PROVE  \E g : FollowsFold(g, A, n, base, take)
<1> USE DEF FoldStep
<1> DEFINE Follows(g, k) ==
      \A s \in SUBSET (1 .. k) :
        g[s] = IF s = {} THEN base ELSE take[<<g[s \ {Max(s)}], Max(s)>>]
    Reached(k) == k <= n => \E g \in [SUBSET (1 .. k) -> A] : Follows(g, k)
    Done == {k \in Nat : Reached(k)}
<1>1. Reached(0)
  <2> DEFINE g == [s \in SUBSET (1 .. 0) |-> base]
  <2>1. \A s \in SUBSET (1 .. 0) : s = {} OBVIOUS
  <2>2. g \in [SUBSET (1 .. 0) -> A] OBVIOUS
  <2>3. Follows(g, 0) BY <2>1
  <2> QED BY <2>2, <2>3
<1>2. ASSUME NEW k \in Nat, Reached(k) PROVE Reached(k + 1)
  <2> SUFFICES ASSUME k + 1 <= n
              PROVE  \E h \in [SUBSET (1 .. k + 1) -> A] : Follows(h, k + 1)
    OBVIOUS
  <2>0. k <= n OBVIOUS
  <2>1. PICK g \in [SUBSET (1 .. k) -> A] : Follows(g, k) BY <1>2, <2>0
  <2> DEFINE last == k + 1
             h == [s \in SUBSET (1 .. k + 1) |->
                     IF last \in s THEN take[<<g[s \ {last}], last>>] ELSE g[s]]
  <2>2. \A s \in SUBSET (1 .. k + 1) :
          /\ last \in s => s \ {last} \in SUBSET (1 .. k)
          /\ last \notin s => s \in SUBSET (1 .. k)
    OBVIOUS
  <2>3. last \in 1 .. n BY <1>2
  <2>4. h \in [SUBSET (1 .. k + 1) -> A]
    <3>1. ASSUME NEW s \in SUBSET (1 .. k + 1)
          PROVE  (IF last \in s THEN take[<<g[s \ {last}], last>>] ELSE g[s]) \in A
      <4>1. CASE last \in s
        <5>1. g[s \ {last}] \in A BY <2>2, <4>1
        <5>2. <<g[s \ {last}], last>> \in A \X (1 .. n) BY <5>1, <2>3
        <5> QED BY <4>1, <5>2
      <4>2. CASE last \notin s BY <2>2, <4>2
      <4> QED BY <4>1, <4>2
    <3> QED BY <3>1
  <2>5. ASSUME NEW s \in SUBSET (1 .. k + 1)
        PROVE  h[s] = IF s = {} THEN base ELSE take[<<h[s \ {Max(s)}], Max(s)>>]
    <3>1. CASE last \in s
      <4>1. Max(s) = last
        <5>1. k + 1 \in Nat /\ s \in SUBSET (1 .. k + 1) /\ \A i \in s : i <= last OBVIOUS
        <5> HIDE DEF last
        <5>2. \A m \in Nat : \A u \in SUBSET (1 .. m) : \A z \in u :
                (\A i \in u : i <= z) => Max(u) = z
          BY LargestOfPrefix
        <5> QED BY ONLY <3>1, <5>1, <5>2
      <4>2. h[s \ {last}] = g[s \ {last}] OBVIOUS
      <4>3. h[s] = take[<<g[s \ {last}], last>>] BY <3>1
      <4> QED BY <3>1, <4>1, <4>2, <4>3
    <3>2. CASE last \notin s
      <4>1. s \in SUBSET (1 .. k) BY <2>2, <3>2
      <4>2. h[s] = g[s] BY <3>2
      <4>3. CASE s = {} BY <2>1, <4>1, <4>2, <4>3
      <4>4. CASE s # {}
        <5>1. h[s \ {Max(s)}] = g[s \ {Max(s)}] BY <3>2
        <5>2. g[s] = take[<<g[s \ {Max(s)}], Max(s)>>] BY <2>1, <4>1, <4>4
        <5> QED BY <4>2, <4>4, <5>1, <5>2
      <4> QED BY <4>3, <4>4
    <3> QED BY <3>1, <3>2
  <2> HIDE DEF h
  <2> QED BY <2>4, <2>5
<1>3. Reached(n)
  <2> HIDE DEF Reached
  <2>1. 0 \in Done /\ \A k \in Nat : k \in Done => k + 1 \in Done BY <1>1, <1>2
  <2>2. Nat \subseteq Done
    <3> HIDE DEF Done
    <3> QED BY <2>1, SetInduction
  <2> QED BY <2>2
<1>4. n <= n OBVIOUS
<1> QED BY <1>3, <1>4 DEF FollowsFold

\* Along the first positions such a function takes one element at a time.
LEMMA FoldPrefix ==
  ASSUME NEW n \in Nat, NEW i \in 1 .. n
  PROVE  /\ Max(1 .. i) = i /\ (1 .. i) \ {i} = 1 .. (i - 1) /\ 1 .. i # {}
         /\ 1 .. i \in SUBSET (1 .. n)
<1>1. 1 .. i \in SUBSET (1 .. n) /\ i \in 1 .. i /\ \A j \in 1 .. i : j <= i OBVIOUS
<1>2. Max(1 .. i) = i BY <1>1, LargestOfPrefix
<1>3. (1 .. i) \ {i} = 1 .. (i - 1) OBVIOUS
<1> QED BY <1>1, <1>2, <1>3

-----------------------------------------------------------------------------
(* FlattenSeq                                                              *)

\* What there is of the parts p after each of them.
Flattening(f, A, n, p) ==
  /\ f \in [0 .. n -> Seq(A)]
  /\ f[0] = << >>
  /\ \A i \in 1 .. n : f[i] = f[i - 1] \o p[i]

LEMMA FlatteningExists ==
  ASSUME NEW A, NEW p \in Seq(Seq(A))
  PROVE  \E f : Flattening(f, A, Len(p), p)
<1> DEFINE Reached(k) == k <= Len(p) => \E f : Flattening(f, A, k, p)
           Done == {k \in Nat : Reached(k)}
<1>0. Len(p) \in Nat /\ Len(p) <= Len(p) OBVIOUS
<1>1. Reached(0)
  <2> DEFINE f == [i \in 0 .. 0 |-> << >>]
  <2>1. Flattening(f, A, 0, p) BY DEF Flattening
  <2> QED BY <2>1
<1>2. ASSUME NEW k \in Nat, Reached(k) PROVE Reached(k + 1)
  <2> SUFFICES ASSUME k + 1 <= Len(p) PROVE \E f : Flattening(f, A, k + 1, p) OBVIOUS
  <2>0. k <= Len(p) BY <1>0
  <2>1. PICK f : Flattening(f, A, k, p) BY <1>2, <2>0
  <2>2. p[k + 1] \in Seq(A) BY <1>0
  <2>3. /\ \A i \in 0 .. k : f[i] \in Seq(A)
        /\ f[0] = << >> /\ \A i \in 1 .. k : f[i] = f[i - 1] \o p[i]
    BY <2>1 DEF Flattening
  <2>4. PICK more : more = f[k] \o p[k + 1] OBVIOUS
  <2>5. more \in Seq(A) BY <2>2, <2>3, <2>4
  <2> DEFINE g == [i \in 0 .. k + 1 |-> IF i = k + 1 THEN more ELSE f[i]]
  <2>6. ASSUME NEW i \in 0 .. k + 1
        PROVE  g[i] = (IF i = k + 1 THEN more ELSE f[i]) /\ g[i] \in Seq(A)
    BY <2>3, <2>5
  <2>7. g \in [0 .. k + 1 -> Seq(A)]
    <3>1. g = [i \in 0 .. k + 1 |-> g[i]] OBVIOUS
    <3> HIDE DEF g
    <3> QED BY <2>6, <3>1
  <2> HIDE DEF g
  <2>8. g[0] = << >> BY <2>3, <2>6
  <2>9. ASSUME NEW i \in 1 .. k + 1 PROVE g[i] = g[i - 1] \o p[i]
    <3>1. i - 1 \in 0 .. k + 1 /\ i - 1 # k + 1 /\ i \in 0 .. k + 1 OBVIOUS
    <3>2. g[i - 1] = f[i - 1] BY <2>6, <3>1
    <3>3. CASE i = k + 1
      <4>1. g[i] = more /\ i - 1 = k BY <2>6, <3>1, <3>3
      <4> QED BY <2>4, <3>2, <3>3, <4>1
    <3>4. CASE i # k + 1
      <4>1. g[i] = f[i] /\ i \in 1 .. k BY <2>6, <3>1, <3>4
      <4> QED BY <2>3, <3>2, <4>1
    <3> QED BY <3>3, <3>4
  <2>10. Flattening(g, A, k + 1, p) BY <2>7, <2>8, <2>9 DEF Flattening
  <2> QED BY <2>10
<1>3. Reached(Len(p))
  <2> HIDE DEF Reached
  <2>1. 0 \in Done /\ \A k \in Nat : k \in Done => k + 1 \in Done BY <1>1, <1>2
  <2>2. Nat \subseteq Done
    <3> HIDE DEF Done
    <3> QED BY <2>1, SetInduction
  <2> QED BY <1>0, <2>2
<1> QED BY <1>0, <1>3

\* FlattenSeq is the last of them.
LEMMA FlattenIs ==
  ASSUME NEW A, NEW p \in Seq(Seq(A)), NEW f, Flattening(f, A, Len(p), p)
  PROVE  FlattenSeq(p) = f[Len(p)]
<1>0. PICK n : n = Len(p) OBVIOUS
<1>1. n \in Nat /\ \A i \in 1 .. n : p[i] \in Seq(A) BY <1>0
<1>2. /\ \A i \in 0 .. n : f[i] \in Seq(A)
      /\ f[0] = << >> /\ \A i \in 1 .. n : f[i] = f[i - 1] \o p[i]
  BY <1>0 DEF Flattening
<1>3. CASE n = 0
  <2>1. p = << >> BY <1>0, <1>3, EmptySeq
  <2>2. FlattenSeq(p) = p BY <1>0, <1>3 DEF FlattenSeq
  <2> QED BY <1>0, <1>2, <1>3, <2>1, <2>2
<1>4. CASE n # 0
  <2> DEFINE Follows(g) == g = [i \in 1 .. Len(p) |-> IF i = 1 THEN p[i] ELSE g[i - 1] \o p[i]]
             run == CHOOSE g : Follows(g)
             Same == {i \in Nat : i \in 1 .. n => run[i] = f[i]}
  <2>1. FlattenSeq(p) = run[Len(p)] BY <1>0, <1>4 DEF FlattenSeq
  <2>2. 0 \in 0 .. n /\ 1 \in 1 .. n /\ 1 - 1 = 0 BY <1>1, <1>4
  <2>3. f[1] = p[1]
    <3>1. f[1] = << >> \o p[1] BY <1>2, <2>2
    <3> QED BY <1>1, <2>2, <3>1
  <2>4. Follows(run)
    <3> DEFINE g == [i \in 1 .. n |-> f[i]]
    <3>1. \A i \in 1 .. n : g[i] = f[i] OBVIOUS
    <3>2. g = [i \in 1 .. n |-> g[i]] OBVIOUS
    <3> HIDE DEF g
    <3>3. ASSUME NEW i \in 1 .. n
          PROVE  g[i] = IF i = 1 THEN p[i] ELSE g[i - 1] \o p[i]
      <4>1. CASE i = 1 BY <2>3, <3>1, <4>1
      <4>2. CASE i # 1
        <5>1. i - 1 \in 1 .. n BY <1>1, <4>2
        <5>2. g[i - 1] = f[i - 1] /\ g[i] = f[i] BY <3>1, <5>1
        <5> QED BY <1>2, <4>2, <5>2
      <4> QED BY <4>1, <4>2
    <3>4. Follows(g) BY <1>0, <3>2, <3>3
    <3> HIDE DEF Follows
    <3> QED BY <3>4
  <2>5. \A i \in 1 .. n : run[i] = IF i = 1 THEN p[i] ELSE run[i - 1] \o p[i]
    <3> HIDE DEF run
    <3> QED BY <1>0, <2>4
  <2> HIDE DEF run
  <2>6. 0 \in Same OBVIOUS
  <2>7. \A i \in Nat : i \in Same => i + 1 \in Same
    <3> SUFFICES ASSUME NEW i \in Nat, i \in Same, i + 1 \in 1 .. n
                PROVE  run[i + 1] = f[i + 1]
      OBVIOUS
    <3>1. CASE i = 0 BY <2>3, <2>5, <3>1
    <3>2. CASE i # 0
      <4>1. i \in 1 .. n /\ (i + 1) - 1 = i /\ i + 1 # 1
        <5>1. n \in Nat /\ i \in Nat /\ i + 1 \in 1 .. n /\ i # 0 BY <1>1, <3>2
        <5> QED BY ONLY <5>1
      <4>2. run[i] = f[i] BY <4>1
      <4>3. run[i + 1] = run[i] \o p[i + 1] BY <2>5, <4>1
      <4>4. f[i + 1] = f[i] \o p[i + 1] BY <1>2, <4>1
      <4> QED BY <4>2, <4>3, <4>4
    <3> QED BY <3>1, <3>2
  <2>8. Nat \subseteq Same
    <3> HIDE DEF Same
    <3> QED BY <2>6, <2>7, SetInduction
  <2>9. n \in Same /\ n \in 1 .. n
    <3> HIDE DEF Same
    <3> QED BY <1>1, <1>4, <2>8
  <2>10. run[n] = f[n] BY <2>9
  <2> QED BY <1>0, <2>1, <2>10
<1> QED BY <1>3, <1>4

LEMMA FlattenTyped ==
  ASSUME NEW A, NEW p \in Seq(Seq(A))
  PROVE  FlattenSeq(p) \in Seq(A)
<1>1. PICK f : Flattening(f, A, Len(p), p) BY FlatteningExists
<1>2. FlattenSeq(p) = f[Len(p)] BY <1>1, FlattenIs
<1>3. Len(p) \in 0 .. Len(p) OBVIOUS
<1> QED BY <1>1, <1>2, <1>3 DEF Flattening

LEMMA FlattenEmpty == FlattenSeq(<< >>) = << >>
BY DEF FlattenSeq

LEMMA FlattenAppend ==
  ASSUME NEW A, NEW p \in Seq(Seq(A)), NEW c \in Seq(A)
  PROVE  FlattenSeq(Append(p, c)) = FlattenSeq(p) \o c
<1>1. PICK q : q = Append(p, c) OBVIOUS
<1>2. PICK n : n = Len(p) OBVIOUS
<1>3. /\ q \in Seq(Seq(A)) /\ n \in Nat /\ Len(q) = n + 1 /\ q[n + 1] = c
      /\ \A i \in 1 .. n : q[i] = p[i]
  BY <1>1, <1>2
<1>4. PICK f : Flattening(f, A, n + 1, q) BY <1>3, FlatteningExists
<1>5. /\ \A i \in 0 .. n + 1 : f[i] \in Seq(A)
      /\ f[0] = << >> /\ \A i \in 1 .. n + 1 : f[i] = f[i - 1] \o q[i]
  BY <1>4 DEF Flattening
<1> DEFINE g == [i \in 0 .. n |-> f[i]]
<1>6. /\ \A i \in 0 .. n : g[i] = f[i] /\ g[i] \in Seq(A)
      /\ g = [i \in 0 .. n |-> g[i]]
  BY <1>3, <1>5
<1> HIDE DEF g
<1>7. Flattening(g, A, n, p)
  <2>1. g \in [0 .. n -> Seq(A)] BY <1>6
  <2>2. g[0] = << >> BY SMTT(20), <1>3, <1>5, <1>6
  <2>3. ASSUME NEW i \in 1 .. n PROVE g[i] = g[i - 1] \o p[i]
    <3>1. i \in 0 .. n /\ i - 1 \in 0 .. n /\ i \in 1 .. n + 1 BY <1>3
    <3>2. f[i] = f[i - 1] \o q[i] BY <1>5, <3>1
    <3> QED BY <1>3, <1>6, <3>1, <3>2
  <2> QED BY <2>1, <2>2, <2>3 DEF Flattening
<1>8. FlattenSeq(p) = g[n] BY <1>2, <1>7, FlattenIs
<1>9. FlattenSeq(q) = f[n + 1] BY <1>3, <1>4, FlattenIs
<1>10. f[n + 1] = f[n] \o c
  <2>1. n + 1 \in 1 .. n + 1 /\ (n + 1) - 1 = n BY <1>3
  <2> QED BY <1>3, <1>5, <2>1
<1>11. g[n] = f[n] BY <1>3, <1>6
<1> QED BY <1>1, <1>8, <1>9, <1>10, <1>11

\* q is p and one more.
OneMore(p, q) == Len(q) = Len(p) + 1 /\ \A k \in 1 .. Len(p) : q[k] = p[k]

LEMMA FlattenGrown ==
  ASSUME NEW A, NEW p \in Seq(Seq(A)), NEW q \in Seq(Seq(A)), OneMore(p, q)
  PROVE  FlattenSeq(q) = FlattenSeq(p) \o q[Len(q)]
<1>1. PICK n \in Nat : n = Len(p) OBVIOUS
<1>2. Len(q) = n + 1 /\ \A k \in 1 .. n : q[k] = p[k] BY <1>1 DEF OneMore
<1>3. PICK c : c = q[n + 1] OBVIOUS
<1>4. c \in Seq(A) BY <1>2, <1>3
<1>5. PICK t : t = Append(p, c) OBVIOUS
<1>6. /\ t \in Seq(Seq(A)) /\ Len(t) = n + 1 /\ t[n + 1] = c
      /\ \A k \in 1 .. n : t[k] = p[k]
  BY <1>1, <1>4, <1>5
<1>7. \A k \in 1 .. Len(t) : k = n + 1 \/ k \in 1 .. n BY <1>6
<1>8. \A k \in 1 .. Len(t) : t[k] = q[k] BY <1>2, <1>3, <1>6, <1>7
<1>9. t = q BY <1>2, <1>6, <1>8, SeqEqual
<1>10. FlattenSeq(t) = FlattenSeq(p) \o c BY <1>4, <1>5, FlattenAppend
<1> QED BY <1>2, <1>3, <1>9, <1>10

\* A sequence grows by one element at a time.
LEMMA PrefixGrows ==
  ASSUME NEW A, NEW s \in Seq(A), NEW k \in Nat, k + 1 <= Len(s)
  PROVE  /\ SubSeq(s, 1, k) \in Seq(A)
         /\ SubSeq(s, 1, k + 1) = Append(SubSeq(s, 1, k), s[k + 1])
<1>1. k + 1 \in 1 .. Len(s) /\ 1 \in 1 .. Len(s) OBVIOUS
<1>2. SubSeq(s, 1, k + 1) = SubSeq(s, 1, (k + 1) - 1) \o <<s[k + 1]>>
  BY <1>1, SubSeqRecursiveSecond
<1>3. (k + 1) - 1 = k OBVIOUS
<1>4. SubSeq(s, 1, k) \in Seq(A) /\ s[k + 1] \in A BY <1>1, SubSeqProperties
<1>5. SubSeq(s, 1, k) \o <<s[k + 1]>> = Append(SubSeq(s, 1, k), s[k + 1]) BY <1>4
<1> QED BY <1>2, <1>3, <1>4, <1>5

LEMMA FlattenConcat ==
  ASSUME NEW A, NEW p \in Seq(Seq(A)), NEW q \in Seq(Seq(A))
  PROVE  FlattenSeq(p \o q) = FlattenSeq(p) \o FlattenSeq(q)
<1> DEFINE Reached(k) == k <= Len(q) =>
             FlattenSeq(p \o SubSeq(q, 1, k)) = FlattenSeq(p) \o FlattenSeq(SubSeq(q, 1, k))
           Done == {k \in Nat : Reached(k)}
<1>0. Len(q) \in Nat /\ Len(q) <= Len(q) OBVIOUS
<1>1. Reached(0)
  <2>1. SubSeq(q, 1, 0) = << >> BY SubSeqEmpty
  <2>2. p \o << >> = p BY ConcatEmptySeq
  <2>3. FlattenSeq(p) \o << >> = FlattenSeq(p) BY FlattenTyped, ConcatEmptySeq
  <2> QED BY <2>1, <2>2, <2>3, FlattenEmpty
<1>2. ASSUME NEW k \in Nat, Reached(k) PROVE Reached(k + 1)
  <2> SUFFICES ASSUME k + 1 <= Len(q)
              PROVE  FlattenSeq(p \o SubSeq(q, 1, k + 1))
                       = FlattenSeq(p) \o FlattenSeq(SubSeq(q, 1, k + 1))
    OBVIOUS
  <2>0. k <= Len(q) /\ q[k + 1] \in Seq(A) BY <1>0
  <2>1. PICK r : r = SubSeq(q, 1, k) OBVIOUS
  <2>2. r \in Seq(Seq(A)) /\ SubSeq(q, 1, k + 1) = Append(r, q[k + 1])
    BY <2>1, PrefixGrows
  <2>3. PICK c : c = q[k + 1] OBVIOUS
  <2>4. c \in Seq(A) BY <2>0, <2>3
  <2>5. p \o Append(r, c) = Append(p \o r, c) /\ p \o r \in Seq(Seq(A))
    <3>1. r \o <<c>> = Append(r, c) BY <2>2, <2>4
    <3>2. p \o (r \o <<c>>) = (p \o r) \o <<c>>
      <4>1. <<c>> \in Seq(Seq(A)) /\ r \in Seq(Seq(A)) /\ p \in Seq(Seq(A)) BY <2>2, <2>4
      <4> QED BY ONLY <4>1, ConcatAssociative
    <3>3. p \o r \in Seq(Seq(A)) BY <2>2, ConcatProperties
    <3>4. (p \o r) \o <<c>> = Append(p \o r, c) BY <2>4, <3>3
    <3> QED BY <3>1, <3>2, <3>3, <3>4
  <2>6. FlattenSeq(Append(p \o r, c)) = FlattenSeq(p \o r) \o c BY <2>4, <2>5, FlattenAppend
  <2>7. FlattenSeq(Append(r, c)) = FlattenSeq(r) \o c BY <2>2, <2>4, FlattenAppend
  <2>8. FlattenSeq(p \o r) = FlattenSeq(p) \o FlattenSeq(r) BY <1>2, <2>0, <2>1
  <2>9. (FlattenSeq(p) \o FlattenSeq(r)) \o c = FlattenSeq(p) \o (FlattenSeq(r) \o c)
    <3>1. FlattenSeq(p) \in Seq(A) /\ FlattenSeq(r) \in Seq(A) BY <2>2, FlattenTyped
    <3> QED BY ONLY SMTT(20), <2>4, <3>1, ConcatAssociative
  <2> QED BY <2>2, <2>3, <2>5, <2>6, <2>7, <2>8, <2>9
<1>3. Reached(Len(q))
  <2> HIDE DEF Reached
  <2>1. 0 \in Done /\ \A k \in Nat : k \in Done => k + 1 \in Done BY <1>1, <1>2
  <2>2. Nat \subseteq Done
    <3> HIDE DEF Done
    <3> QED BY <2>1, SetInduction
  <2> QED BY <1>0, <2>2
<1>4. SubSeq(q, 1, Len(q)) = q BY SubSeqFull
<1> QED BY <1>0, <1>3, <1>4

\* What comes before a part, the part, what comes after it.
LEMMA FlattenSplit ==
  ASSUME NEW A, NEW p \in Seq(Seq(A)), NEW i \in 1 .. Len(p)
  PROVE  /\ SubSeq(p, 1, i - 1) \in Seq(Seq(A)) /\ SubSeq(p, i + 1, Len(p)) \in Seq(Seq(A))
         /\ FlattenSeq(p) = (FlattenSeq(SubSeq(p, 1, i - 1)) \o p[i])
                              \o FlattenSeq(SubSeq(p, i + 1, Len(p)))
<1>1. PICK r : r = SubSeq(p, 1, i - 1) OBVIOUS
<1>2. PICK t : t = SubSeq(p, i + 1, Len(p)) OBVIOUS
<1>3. PICK k : k = i - 1 OBVIOUS
<1>4. k \in Nat /\ k + 1 = i /\ k + 1 <= Len(p) BY <1>3
<1>5. r \in Seq(Seq(A)) /\ SubSeq(p, 1, i) = Append(r, p[i])
  <2>1. SubSeq(p, 1, k) \in Seq(Seq(A)) /\ SubSeq(p, 1, k + 1) = Append(SubSeq(p, 1, k), p[k + 1])
    BY <1>4, PrefixGrows
  <2> QED BY <1>1, <1>3, <1>4, <2>1
<1>6. t \in Seq(Seq(A)) BY <1>2, SubSeqProperties
<1>7. p = Append(r, p[i]) \o t
  <2>1. 1 \in 1 .. Len(p) + 1 /\ i \in 1 - 1 .. Len(p) /\ Len(p) \in i .. Len(p) OBVIOUS
  <2>2. SubSeq(p, 1, i) \o SubSeq(p, i + 1, Len(p)) = SubSeq(p, 1, Len(p))
    BY <2>1, ConcatAdjacentSubSeq
  <2> QED BY <1>2, <1>5, <2>2, SubSeqFull
<1>8. p[i] \in Seq(A) OBVIOUS
<1>9. Append(r, p[i]) \in Seq(Seq(A)) BY <1>5, <1>8
<1>10. FlattenSeq(p) = FlattenSeq(Append(r, p[i])) \o FlattenSeq(t)
  BY <1>6, <1>7, <1>9, FlattenConcat
<1>11. FlattenSeq(Append(r, p[i])) = FlattenSeq(r) \o p[i] BY <1>5, <1>8, FlattenAppend
<1> QED BY <1>1, <1>2, <1>5, <1>6, <1>10, <1>11

LEMMA FlattenNothing ==
  ASSUME NEW A, NEW p \in Seq(Seq(A)), \A i \in 1 .. Len(p) : p[i] = << >>
  PROVE  FlattenSeq(p) = << >>
<1>1. p \in Seq(Seq({}))
  <2>1. p = [i \in 1 .. Len(p) |-> p[i]] OBVIOUS
  <2>2. << >> \in Seq({}) BY EmptySeq
  <2>3. \A i \in 1 .. Len(p) : p[i] \in Seq({}) BY <2>2
  <2>4. Len(p) \in Nat OBVIOUS
  <2> QED BY ONLY <2>1, <2>3, <2>4
<1>2. FlattenSeq(p) \in Seq({}) BY <1>1, FlattenTyped
<1> QED BY <1>2, EmptySeq

\* Parts of the same lengths give sequences of the same length.
SameLengths(p, q) == Len(p) = Len(q) /\ \A i \in 1 .. Len(p) : Len(p[i]) = Len(q[i])

LEMMA FlattenLengths ==
  ASSUME NEW A, NEW B, NEW p \in Seq(Seq(A)), NEW q \in Seq(Seq(B)), SameLengths(p, q)
  PROVE  Len(FlattenSeq(p)) = Len(FlattenSeq(q))
<1> DEFINE Reached(k) == k <= Len(p) =>
             Len(FlattenSeq(SubSeq(p, 1, k))) = Len(FlattenSeq(SubSeq(q, 1, k)))
           Done == {k \in Nat : Reached(k)}
<1>0. Len(p) \in Nat /\ Len(p) <= Len(p) OBVIOUS
<1>1. Reached(0)
  <2>1. SubSeq(p, 1, 0) = << >> /\ SubSeq(q, 1, 0) = << >> BY SubSeqEmpty
  <2> QED BY <2>1
<1>2. ASSUME NEW k \in Nat, Reached(k) PROVE Reached(k + 1)
  <2> SUFFICES ASSUME k + 1 <= Len(p)
              PROVE  Len(FlattenSeq(SubSeq(p, 1, k + 1))) = Len(FlattenSeq(SubSeq(q, 1, k + 1)))
    OBVIOUS
  <2>1. PICK r, t : r = SubSeq(p, 1, k) /\ t = SubSeq(q, 1, k) OBVIOUS
  <2>2. PICK c, d : c = p[k + 1] /\ d = q[k + 1] OBVIOUS
  <2>0. Len(p) = Len(q) /\ \A i \in 1 .. Len(p) : Len(p[i]) = Len(q[i]) BY DEF SameLengths
  <2>3. k <= Len(p) /\ c \in Seq(A) /\ d \in Seq(B) /\ Len(c) = Len(d) BY <1>0, <2>0, <2>2
  <2>4. r \in Seq(Seq(A)) /\ SubSeq(p, 1, k + 1) = Append(r, c) BY <2>1, <2>2, PrefixGrows
  <2>5. t \in Seq(Seq(B)) /\ SubSeq(q, 1, k + 1) = Append(t, d) BY <2>0, <2>1, <2>2, PrefixGrows
  <2>6. FlattenSeq(Append(r, c)) = FlattenSeq(r) \o c BY <2>3, <2>4, FlattenAppend
  <2>7. FlattenSeq(Append(t, d)) = FlattenSeq(t) \o d BY <2>3, <2>5, FlattenAppend
  <2>8. Len(FlattenSeq(r) \o c) = Len(FlattenSeq(r)) + Len(c)
    <3>1. PICK z : z = FlattenSeq(r) OBVIOUS
    <3>2. z \in Seq(A) BY <2>4, <3>1, FlattenTyped
    <3>3. c \in Seq(A) BY <2>3
    <3>4. Len(z \o c) = Len(z) + Len(c) BY ONLY <3>2, <3>3, ConcatProperties
    <3> QED BY <3>1, <3>4
  <2>9. Len(FlattenSeq(t) \o d) = Len(FlattenSeq(t)) + Len(d)
    <3>1. PICK z : z = FlattenSeq(t) OBVIOUS
    <3>2. z \in Seq(B) BY <2>5, <3>1, FlattenTyped
    <3>3. d \in Seq(B) BY <2>3
    <3>4. Len(z \o d) = Len(z) + Len(d) BY ONLY <3>2, <3>3, ConcatProperties
    <3> QED BY <3>1, <3>4
  <2>10. Len(FlattenSeq(r)) = Len(FlattenSeq(t)) BY <1>2, <2>1, <2>3
  <2> QED BY <2>3, <2>4, <2>5, <2>6, <2>7, <2>8, <2>9, <2>10
<1>3. Reached(Len(p))
  <2> HIDE DEF Reached
  <2>1. 0 \in Done /\ \A k \in Nat : k \in Done => k + 1 \in Done BY <1>1, <1>2
  <2>2. Nat \subseteq Done
    <3> HIDE DEF Done
    <3> QED BY <2>1, SetInduction
  <2> QED BY <1>0, <2>2
<1>4. SubSeq(p, 1, Len(p)) = p /\ SubSeq(q, 1, Len(p)) = q BY SubSeqFull DEF SameLengths
<1> QED BY <1>0, <1>3, <1>4

\* Parts of one element each give the elements.
LEMMA FlattenSingles ==
  ASSUME NEW A, NEW s \in Seq(A)
  PROVE  FlattenSeq([i \in 1 .. Len(s) |-> <<s[i]>>]) = s
<1>1. PICK p : p = [i \in 1 .. Len(s) |-> <<s[i]>>] OBVIOUS
<1>2. p \in Seq(Seq(A)) /\ Len(p) = Len(s) /\ \A i \in 1 .. Len(s) : p[i] = <<s[i]>>
  <2>1. \A i \in 1 .. Len(s) : <<s[i]>> \in Seq(A) OBVIOUS
  <2> QED BY <1>1, <2>1
<1> DEFINE Reached(k) == k <= Len(s) => FlattenSeq(SubSeq(p, 1, k)) = SubSeq(s, 1, k)
           Done == {k \in Nat : Reached(k)}
<1>0. Len(s) \in Nat /\ Len(s) <= Len(s) OBVIOUS
<1>3. Reached(0)
  <2>1. SubSeq(p, 1, 0) = << >> /\ SubSeq(s, 1, 0) = << >> BY SubSeqEmpty
  <2> QED BY <2>1, FlattenEmpty
<1>4. ASSUME NEW k \in Nat, Reached(k) PROVE Reached(k + 1)
  <2> SUFFICES ASSUME k + 1 <= Len(s)
              PROVE  FlattenSeq(SubSeq(p, 1, k + 1)) = SubSeq(s, 1, k + 1)
    OBVIOUS
  <2>1. PICK r, t : r = SubSeq(p, 1, k) /\ t = SubSeq(s, 1, k) OBVIOUS
  <2>2. PICK x : x = s[k + 1] OBVIOUS
  <2>3. k <= Len(s) /\ x \in A /\ p[k + 1] = <<x>> /\ <<x>> \in Seq(A) BY <1>0, <1>2, <2>2
  <2>4. r \in Seq(Seq(A)) /\ SubSeq(p, 1, k + 1) = Append(r, <<x>>)
    BY <1>2, <2>1, <2>3, PrefixGrows
  <2>5. t \in Seq(A) /\ SubSeq(s, 1, k + 1) = Append(t, x) BY <2>1, <2>2, PrefixGrows
  <2>6. FlattenSeq(Append(r, <<x>>)) = FlattenSeq(r) \o <<x>> BY <2>3, <2>4, FlattenAppend
  <2>7. FlattenSeq(r) = t BY <1>4, <2>1, <2>3
  <2>8. t \o <<x>> = Append(t, x) BY <2>3, <2>5
  <2> QED BY <2>4, <2>5, <2>6, <2>7, <2>8
<1>5. Reached(Len(s))
  <2> HIDE DEF Reached
  <2>1. 0 \in Done /\ \A k \in Nat : k \in Done => k + 1 \in Done BY <1>3, <1>4
  <2>2. Nat \subseteq Done
    <3> HIDE DEF Done
    <3> QED BY <2>1, SetInduction
  <2> QED BY <1>0, <2>2
<1>6. SubSeq(p, 1, Len(s)) = p /\ SubSeq(s, 1, Len(s)) = s BY <1>2, SubSeqFull
<1> QED BY <1>0, <1>1, <1>5, <1>6

\* Sequences that agree on some positions have the same stretch there.
LEMMA SameStretch ==
  ASSUME NEW A, NEW p \in Seq(A), NEW q \in Seq(A), NEW m \in Nat \ {0}, NEW n \in Nat,
         n <= Len(p), n <= Len(q), \A k \in m .. n : q[k] = p[k]
  PROVE  SubSeq(q, m, n) = SubSeq(p, m, n)
<1>1. m \in Int /\ n \in Int /\ \A k \in m .. n : p[k] \in A /\ q[k] \in A OBVIOUS
<1>2. PICK r, t : r = SubSeq(p, m, n) /\ t = SubSeq(q, m, n) OBVIOUS
<1>3. /\ r \in Seq(A) /\ Len(r) = (IF m <= n THEN n - m + 1 ELSE 0)
      /\ \A i \in 1 .. n - m + 1 : r[i] = p[m + i - 1]
  BY <1>1, <1>2, SubSeqProperties
<1>4. /\ t \in Seq(A) /\ Len(t) = (IF m <= n THEN n - m + 1 ELSE 0)
      /\ \A i \in 1 .. n - m + 1 : t[i] = q[m + i - 1]
  BY <1>1, <1>2, SubSeqProperties
<1>5. \A i \in 1 .. Len(r) : i \in 1 .. n - m + 1 /\ m + i - 1 \in m .. n BY <1>3
<1>6. \A i \in 1 .. Len(r) : r[i] = t[i] BY <1>3, <1>4, <1>5
<1> QED BY <1>2, <1>3, <1>4, <1>6, SeqEqual

\* Only the part i differs.
SameBut(p, q, i) ==
  /\ Len(q) = Len(p)
  /\ \A k \in 1 .. Len(p) : k # i => q[k] = p[k]

\* What changing one part changes.
LEMMA FlattenChange ==
  ASSUME NEW A, NEW p \in Seq(Seq(A)), NEW q \in Seq(Seq(A)), NEW i \in 1 .. Len(p),
         SameBut(p, q, i)
  PROVE  /\ FlattenSeq(SubSeq(p, 1, i - 1)) \in Seq(A)
         /\ FlattenSeq(SubSeq(p, i + 1, Len(p))) \in Seq(A)
         /\ FlattenSeq(p) = (FlattenSeq(SubSeq(p, 1, i - 1)) \o p[i])
                               \o FlattenSeq(SubSeq(p, i + 1, Len(p)))
         /\ FlattenSeq(q) = (FlattenSeq(SubSeq(p, 1, i - 1)) \o q[i])
                               \o FlattenSeq(SubSeq(p, i + 1, Len(p)))
<1>1. SubSeq(q, 1, i - 1) = SubSeq(p, 1, i - 1)
  <2>1. 1 \in Nat \ {0} /\ i - 1 \in Nat /\ i - 1 <= Len(p) OBVIOUS
  <2>2. Len(q) = Len(p) /\ \A k \in 1 .. i - 1 : q[k] = p[k]
    <3>1. \A k \in 1 .. i - 1 : k \in 1 .. Len(p) /\ k # i OBVIOUS
    <3> QED BY ONLY <3>1, SameBut(p, q, i) DEF SameBut
  <2> QED BY <2>1, <2>2, SameStretch
<1>2. SubSeq(q, i + 1, Len(p)) = SubSeq(p, i + 1, Len(p))
  <2>1. i + 1 \in Nat \ {0} /\ Len(p) \in Nat /\ Len(p) <= Len(p) OBVIOUS
  <2>2. Len(q) = Len(p) /\ \A k \in i + 1 .. Len(p) : q[k] = p[k] BY DEF SameBut
  <2> QED BY <2>1, <2>2, SameStretch
<1>3. /\ SubSeq(p, 1, i - 1) \in Seq(Seq(A)) /\ SubSeq(p, i + 1, Len(p)) \in Seq(Seq(A))
      /\ FlattenSeq(p) = (FlattenSeq(SubSeq(p, 1, i - 1)) \o p[i])
                           \o FlattenSeq(SubSeq(p, i + 1, Len(p)))
  BY FlattenSplit
<1>4. FlattenSeq(q) = (FlattenSeq(SubSeq(q, 1, i - 1)) \o q[i])
                           \o FlattenSeq(SubSeq(q, i + 1, Len(q)))
  <2>1. i \in 1 .. Len(q) BY DEF SameBut
  <2> QED BY <2>1, FlattenSplit
<1>5. Len(q) = Len(p) BY DEF SameBut
<1> QED BY <1>1, <1>2, <1>3, <1>4, <1>5, FlattenTyped

\* Each part follows the ones before it.
LEMMA FlattenStep ==
  ASSUME NEW A, NEW p \in Seq(Seq(A)), NEW i \in 1 .. Len(p)
  PROVE  /\ FlattenSeq(SubSeq(p, 1, i - 1)) \in Seq(A)
         /\ FlattenSeq(SubSeq(p, 1, i)) = FlattenSeq(SubSeq(p, 1, i - 1)) \o p[i]
<1>1. PICK k : k = i - 1 OBVIOUS
<1>2. k \in Nat /\ k + 1 = i /\ k + 1 <= Len(p) BY <1>1
<1>3. PICK r : r = SubSeq(p, 1, k) OBVIOUS
<1>4. r \in Seq(Seq(A)) /\ SubSeq(p, 1, k + 1) = Append(r, p[k + 1])
  BY <1>2, <1>3, PrefixGrows
<1>5. p[k + 1] \in Seq(A) BY <1>2
<1>6. FlattenSeq(Append(r, p[k + 1])) = FlattenSeq(r) \o p[k + 1]
  BY <1>4, <1>5, FlattenAppend
<1> QED BY <1>1, <1>2, <1>3, <1>4, <1>6, FlattenTyped

EmptyAfter(p, i) == \A k \in 1 .. Len(p) : i < k => p[k] = << >>
EmptyBefore(p, i) == \A k \in 1 .. Len(p) : k < i => p[k] = << >>

\* The parts after it being empty, a change is at the end.
LEMMA FlattenLast ==
  ASSUME NEW A, NEW p \in Seq(Seq(A)), NEW q \in Seq(Seq(A)), NEW i \in 1 .. Len(p),
         SameBut(p, q, i), EmptyAfter(p, i)
  PROVE  \E a \in Seq(A) : FlattenSeq(p) = a \o p[i] /\ FlattenSeq(q) = a \o q[i]
<1>1. PICK a, b : a = FlattenSeq(SubSeq(p, 1, i - 1)) /\ b = FlattenSeq(SubSeq(p, i + 1, Len(p)))
  OBVIOUS
<1>0. /\ a \in Seq(A) /\ b \in Seq(A)
      /\ FlattenSeq(p) = (a \o p[i]) \o b
      /\ FlattenSeq(q) = (a \o q[i]) \o b
  <2>1. SameBut(p, q, i) /\ p \in Seq(Seq(A)) /\ q \in Seq(Seq(A)) /\ i \in 1 .. Len(p) OBVIOUS
  <2> QED BY ONLY <1>1, <2>1, FlattenChange
<1>2. b = << >>
  <2>1. PICK t : t = SubSeq(p, i + 1, Len(p)) OBVIOUS
  <2>2. i + 1 \in Int /\ Len(p) \in Int /\ \A k \in i + 1 .. Len(p) : p[k] \in Seq(A) OBVIOUS
  <2>3. /\ t \in Seq(Seq(A)) /\ Len(t) = (IF i + 1 <= Len(p) THEN Len(p) - (i + 1) + 1 ELSE 0)
        /\ \A k \in 1 .. Len(p) - (i + 1) + 1 : t[k] = p[(i + 1) + k - 1]
    BY <2>1, <2>2, SubSeqProperties
  <2>4. \A k \in 1 .. Len(t) : t[k] = << >>
    <3> TAKE k \in 1 .. Len(t)
    <3>1. k \in 1 .. Len(p) - (i + 1) + 1 BY <2>3
    <3>2. PICK j : j = (i + 1) + k - 1 OBVIOUS
    <3>3. j \in 1 .. Len(p) /\ i < j BY <3>1, <3>2
    <3> QED BY <2>3, <3>1, <3>2, <3>3 DEF EmptyAfter
  <2> QED BY <1>1, <2>1, <2>3, <2>4, FlattenNothing
<1>3. p[i] \in Seq(A) /\ q[i] \in Seq(A)
  <2>1. i \in 1 .. Len(p) /\ i \in 1 .. Len(q) BY DEF SameBut
  <2> QED BY ONLY <2>1, p \in Seq(Seq(A)), q \in Seq(Seq(A)), ElementOfSeq
<1>4. \A c \in Seq(A) : (a \o c) \o << >> = a \o c
  BY <1>0, ConcatProperties, ConcatEmptySeq
<1> QED BY <1>0, <1>2, <1>3, <1>4

\* The parts before it being empty, it is at the beginning.
LEMMA FlattenFirst ==
  ASSUME NEW A, NEW p \in Seq(Seq(A)), NEW q \in Seq(Seq(A)), NEW i \in 1 .. Len(p),
         SameBut(p, q, i), EmptyBefore(p, i)
  PROVE  /\ FlattenSeq(SubSeq(p, i + 1, Len(p))) \in Seq(A)
         /\ FlattenSeq(p) = p[i] \o FlattenSeq(SubSeq(p, i + 1, Len(p)))
         /\ FlattenSeq(q) = q[i] \o FlattenSeq(SubSeq(p, i + 1, Len(p)))
<1>1. PICK a, b : a = FlattenSeq(SubSeq(p, 1, i - 1)) /\ b = FlattenSeq(SubSeq(p, i + 1, Len(p)))
  OBVIOUS
<1>0. /\ a \in Seq(A) /\ b \in Seq(A)
      /\ FlattenSeq(p) = (a \o p[i]) \o b
      /\ FlattenSeq(q) = (a \o q[i]) \o b
  <2>1. SameBut(p, q, i) /\ p \in Seq(Seq(A)) /\ q \in Seq(Seq(A)) /\ i \in 1 .. Len(p) OBVIOUS
  <2> QED BY ONLY <1>1, <2>1, FlattenChange
<1>2. a = << >>
  <2>1. PICK t : t = SubSeq(p, 1, i - 1) OBVIOUS
  <2>2. 1 \in Int /\ i - 1 \in Int /\ \A k \in 1 .. i - 1 : p[k] \in Seq(A) OBVIOUS
  <2>3. /\ t \in Seq(Seq(A)) /\ Len(t) = (IF 1 <= i - 1 THEN (i - 1) - 1 + 1 ELSE 0)
        /\ \A k \in 1 .. (i - 1) - 1 + 1 : t[k] = p[1 + k - 1]
    BY <2>1, <2>2, SubSeqProperties
  <2>4. \A k \in 1 .. Len(t) : t[k] = << >>
    <3> TAKE k \in 1 .. Len(t)
    <3>1. k \in 1 .. (i - 1) - 1 + 1 /\ 1 + k - 1 = k /\ k \in 1 .. Len(p) /\ k < i BY <2>3
    <3> QED BY <2>3, <3>1 DEF EmptyBefore
  <2> QED BY <1>1, <2>1, <2>3, <2>4, FlattenNothing
<1>3. p[i] \in Seq(A) /\ q[i] \in Seq(A)
  <2>1. i \in 1 .. Len(p) /\ i \in 1 .. Len(q) BY DEF SameBut
  <2> QED BY ONLY <2>1, p \in Seq(Seq(A)), q \in Seq(Seq(A)), ElementOfSeq
<1>4. \A c \in Seq(A) : << >> \o c = c BY ConcatEmptySeq
<1> QED BY <1>0, <1>1, <1>2, <1>3, <1>4

\* A part of one element gives the element its place.
LEMMA FlattenUnit ==
  ASSUME NEW A, NEW p \in Seq(Seq(A)), NEW i \in 1 .. Len(p), NEW x \in A, p[i] = <<x>>
  PROVE  /\ Len(FlattenSeq(SubSeq(p, 1, i))) \in 1 .. Len(FlattenSeq(p))
         /\ FlattenSeq(p)[Len(FlattenSeq(SubSeq(p, 1, i)))] = x
<1>1. PICK a, b : /\ a = FlattenSeq(SubSeq(p, 1, i - 1)) /\ a \in Seq(A) /\ b \in Seq(A)
                  /\ FlattenSeq(p) = (a \o p[i]) \o b
  <2>1. PICK r, t : r = SubSeq(p, 1, i - 1) /\ t = SubSeq(p, i + 1, Len(p)) OBVIOUS
  <2>2. /\ r \in Seq(Seq(A)) /\ t \in Seq(Seq(A))
        /\ FlattenSeq(p) = (FlattenSeq(r) \o p[i]) \o FlattenSeq(t)
    BY <2>1, FlattenSplit
  <2>3. FlattenSeq(r) \in Seq(A) /\ FlattenSeq(t) \in Seq(A) BY ONLY <2>2, FlattenTyped
  <2> QED BY <2>1, <2>2, <2>3
<1>2. PICK c : c = a \o <<x>> OBVIOUS
<1>3. c \in Seq(A) /\ Len(c) = Len(a) + 1 /\ c[Len(a) + 1] = x
  <2>1. <<x>> \in Seq(A) OBVIOUS
  <2>2. Len(a) \in Nat BY <1>1
  <2>3. c = Append(a, x) BY <1>1, <1>2
  <2> QED BY <1>1, <2>2, <2>3
<1>4. FlattenSeq(SubSeq(p, 1, i)) = c BY <1>1, <1>2, FlattenStep
<1>5. FlattenSeq(p) = c \o b BY <1>1, <1>2
<1>6. /\ Len(c \o b) = Len(c) + Len(b)
      /\ \A k \in 1 .. Len(c) + Len(b) : (c \o b)[k] = IF k <= Len(c) THEN c[k] ELSE b[k - Len(c)]
  BY <1>1, <1>3, ConcatProperties
<1>7. Len(c) \in Nat /\ Len(b) \in Nat /\ Len(c) # 0 /\ Len(c) = Len(a) + 1
  BY <1>1, <1>3
<1>8. Len(c) \in 1 .. Len(c) + Len(b) /\ Len(c) <= Len(c) BY <1>7
<1> QED BY <1>3, <1>4, <1>5, <1>6, <1>7, <1>8

Replaced(f, k, y) == [f EXCEPT ![k] = y]

\* Another element there changes nothing else.
LEMMA FlattenReplace ==
  ASSUME NEW A, NEW p \in Seq(Seq(A)), NEW q \in Seq(Seq(A)), NEW i \in 1 .. Len(p),
         SameBut(p, q, i),
         NEW x \in A, p[i] = <<x>>, NEW y \in A, q[i] = <<y>>
  PROVE  FlattenSeq(q) = Replaced(FlattenSeq(p), Len(FlattenSeq(SubSeq(p, 1, i))), y)
<1>1. PICK a, b : a = FlattenSeq(SubSeq(p, 1, i - 1)) /\ b = FlattenSeq(SubSeq(p, i + 1, Len(p)))
  OBVIOUS
<1>0. /\ a \in Seq(A) /\ b \in Seq(A)
      /\ FlattenSeq(p) = (a \o p[i]) \o b
      /\ FlattenSeq(q) = (a \o q[i]) \o b
  <2>1. SameBut(p, q, i) /\ p \in Seq(Seq(A)) /\ q \in Seq(Seq(A)) /\ i \in 1 .. Len(p) OBVIOUS
  <2> QED BY ONLY <1>1, <2>1, FlattenChange
<1>2. PICK n : n = Len(FlattenSeq(SubSeq(p, 1, i))) OBVIOUS
<1>3. n = Len(a) + 1
  <2>1. FlattenSeq(SubSeq(p, 1, i)) = a \o <<x>> BY <1>1, FlattenStep
  <2>2. a \o <<x>> = Append(a, x) BY <1>0
  <2> QED BY <1>0, <1>2, <2>1, <2>2
<1>4. PICK c, d : c = Append(a, x) /\ d = Append(a, y) OBVIOUS
<1>5. /\ c \in Seq(A) /\ d \in Seq(A) /\ Len(c) = n /\ Len(d) = n /\ n \in Nat
      /\ c[n] = x /\ d[n] = y /\ \A k \in 1 .. n : k # n => c[k] = d[k]
  BY SMTT(20), <1>0, <1>3, <1>4
<1>6. FlattenSeq(p) = c \o b /\ FlattenSeq(q) = d \o b
  <2>1. a \o <<x>> = c /\ a \o <<y>> = d BY <1>0, <1>4
  <2> QED BY <1>0, <2>1
<1>7. PICK s, t : s = c \o b /\ t = d \o b OBVIOUS
<1>8. /\ s \in Seq(A) /\ Len(s) = n + Len(b)
      /\ \A k \in 1 .. n + Len(b) : s[k] = IF k <= n THEN c[k] ELSE b[k - n]
  <2>1. c \in Seq(A) /\ b \in Seq(A) /\ Len(c) = n BY <1>0, <1>5
  <2> QED BY ONLY <2>1, <1>7, ConcatProperties
<1>9. /\ t \in Seq(A) /\ Len(t) = n + Len(b)
      /\ \A k \in 1 .. n + Len(b) : t[k] = IF k <= n THEN d[k] ELSE b[k - n]
  <2>1. d \in Seq(A) /\ b \in Seq(A) /\ Len(d) = n BY <1>0, <1>5
  <2> QED BY ONLY <2>1, <1>7, ConcatProperties
<1>10. Len(b) \in Nat /\ n \in 1 .. n + Len(b) /\ n # 0
  BY <1>0, <1>3, <1>5
<1>11. PICK u : u = [s EXCEPT ![n] = y] OBVIOUS
<1>12. /\ u \in Seq(A) /\ Len(u) = Len(s)
       /\ \A k \in 1 .. Len(s) : u[k] = IF k = n THEN y ELSE s[k]
  <2>1. n \in 1 .. Len(s) BY <1>8, <1>10
  <2> QED BY <1>8, <1>11, <2>1, ExceptSeq
<1>13. \A k \in 1 .. Len(u) : u[k] = t[k]
  <2> TAKE k \in 1 .. Len(u)
  <2>1. k \in 1 .. n + Len(b) BY <1>8, <1>12
  <2>2. CASE k = n BY <1>5, <1>9, <1>12, <2>1, <2>2, <1>8
  <2>3. CASE k # n
    <3>1. u[k] = s[k] BY <1>12, <2>3
    <3>2. CASE k <= n
      <4>1. k \in 1 .. n BY <2>1, <3>2, <1>5
      <4> QED BY <1>5, <1>8, <1>9, <2>1, <2>3, <3>1, <3>2, <4>1
    <3>3. CASE ~(k <= n) BY <1>8, <1>9, <2>1, <3>1, <3>3
    <3> QED BY <3>2, <3>3
  <2> QED BY <2>2, <2>3
<1>14. u = t BY <1>8, <1>9, <1>12, <1>13, SeqEqual
<1> QED BY <1>2, <1>6, <1>7, <1>11, <1>14 DEF Replaced

\* A concatenation comes apart where it was put together.
LEMMA ConcatApart ==
  ASSUME NEW A, NEW b \in Seq(A), NEW c \in Seq(A)
  PROVE  /\ SubSeq(b \o c, 1, Len(b)) = b
         /\ SubSeq(b \o c, Len(b) + 1, Len(b \o c)) = c
         /\ Len(b) <= Len(b \o c)
<1>1. PICK m, n \in Nat : m = Len(b) /\ n = Len(c) OBVIOUS
<1>2. PICK s : s = b \o c OBVIOUS
<1>3. /\ s \in Seq(A) /\ Len(s) = m + n
      /\ \A i \in 1 .. m + n : s[i] = IF i <= m THEN b[i] ELSE c[i - m]
  <2>1. b \in Seq(A) /\ c \in Seq(A) OBVIOUS
  <2> QED BY ONLY <1>1, <1>2, <2>1, ConcatProperties
<1>4. \A i \in 1 .. m + n : s[i] \in A BY <1>3
<1>5. SubSeq(s, 1, m) = b
  <2>1. PICK t : t = SubSeq(s, 1, m) OBVIOUS
  <2>2. 1 \in Int /\ m \in Int /\ \A i \in 1 .. m : s[i] \in A BY <1>4
  <2>3. /\ t \in Seq(A) /\ Len(t) = (IF 1 <= m THEN m - 1 + 1 ELSE 0)
        /\ \A i \in 1 .. m - 1 + 1 : t[i] = s[1 + i - 1]
    BY ONLY <2>1, <2>2, SubSeqProperties
  <2>4. \A i \in 1 .. m : i \in 1 .. m - 1 + 1 /\ 1 + i - 1 = i /\ i \in 1 .. m + n /\ i <= m
    OBVIOUS
  <2>5. \A i \in 1 .. m : t[i] = b[i] BY <1>3, <2>3, <2>4
  <2>6. Len(t) = m BY <2>3
  <2> QED BY <1>1, <2>1, <2>3, <2>5, <2>6, SeqEqual
<1>6. SubSeq(s, m + 1, m + n) = c
  <2>1. PICK t : t = SubSeq(s, m + 1, m + n) OBVIOUS
  <2>2. m + 1 \in Int /\ m + n \in Int /\ \A i \in m + 1 .. m + n : s[i] \in A BY <1>4
  <2>3. /\ t \in Seq(A) /\ Len(t) = (IF m + 1 <= m + n THEN m + n - (m + 1) + 1 ELSE 0)
        /\ \A i \in 1 .. m + n - (m + 1) + 1 : t[i] = s[m + 1 + i - 1]
    BY ONLY <2>1, <2>2, SubSeqProperties
  <2>4. \A i \in 1 .. n : /\ i \in 1 .. m + n - (m + 1) + 1 /\ m + 1 + i - 1 = m + i
                          /\ m + i \in 1 .. m + n /\ ~(m + i <= m) /\ (m + i) - m = i
    OBVIOUS
  <2>5. \A i \in 1 .. n : t[i] = c[i] BY <1>3, <2>3, <2>4
  <2>6. Len(t) = n BY <2>3
  <2> QED BY <1>1, <2>1, <2>3, <2>5, <2>6, SeqEqual
<1> QED BY <1>1, <1>2, <1>3, <1>5, <1>6

\* Parts of one element each are the elements.
LEMMA FlattenUnits ==
  ASSUME NEW A, NEW s \in Seq(A), NEW p, p = [i \in 1 .. Len(s) |-> <<s[i]>>]
  PROVE  FlattenSeq(p) = s
<1>1. PICK n : n = Len(s) OBVIOUS
<1>2. n \in Nat /\ \A i \in 1 .. n : s[i] \in A BY <1>1
<1>3. p \in Seq(Seq(A)) /\ Len(p) = n /\ \A i \in 1 .. n : p[i] = <<s[i]>>
  <2>1. \A i \in 1 .. n : <<s[i]>> \in Seq(A) BY <1>2
  <2>2. p \in [1 .. n -> Seq(A)] BY <1>1, <2>1
  <2> QED BY <1>1, <1>2, <2>2
<1>4. PICK f : Flattening(f, A, n, p) BY <1>3, FlatteningExists
<1>5. f[0] = << >> /\ \A i \in 1 .. n : f[i] = f[i - 1] \o p[i] BY <1>4 DEF Flattening
<1> DEFINE Told == {k \in Nat : k <= n => f[k] = SubSeq(s, 1, k)}
<1>6. 0 \in Told
  <2>1. SubSeq(s, 1, 0) = << >> OBVIOUS
  <2> QED BY <1>5, <2>1
<1>7. ASSUME NEW k \in Nat, k \in Told PROVE k + 1 \in Told
  <2> SUFFICES ASSUME k + 1 <= n PROVE f[k + 1] = SubSeq(s, 1, k + 1) OBVIOUS
  <2>1. k + 1 \in 1 .. n /\ (k + 1) - 1 = k /\ k <= n BY <1>2
  <2>2. f[k] = SubSeq(s, 1, k) BY <1>7, <2>1
  <2>3. f[k + 1] = f[k] \o <<s[k + 1]>> BY <1>3, <1>5, <2>1
  <2>4. SubSeq(s, 1, k) \in Seq(A) /\ SubSeq(s, 1, k + 1) = Append(SubSeq(s, 1, k), s[k + 1])
    BY <1>1, PrefixGrows
  <2>5. s[k + 1] \in A BY <1>2, <2>1
  <2>6. SubSeq(s, 1, k) \o <<s[k + 1]>> = Append(SubSeq(s, 1, k), s[k + 1]) BY ONLY <2>4, <2>5
  <2> QED BY <2>2, <2>3, <2>4, <2>6
<1>8. n \in Told
  <2> HIDE DEF Told
  <2>1. Nat \subseteq Told BY <1>6, <1>7, SetInduction
  <2> QED BY <1>2, <2>1
<1>9. f[n] = SubSeq(s, 1, n) BY <1>2, <1>8
<1>10. SubSeq(s, 1, n) = s BY <1>1
<1>11. FlattenSeq(p) = f[n] BY <1>3, <1>4, FlattenIs
<1> QED BY <1>9, <1>10, <1>11
=============================================================================

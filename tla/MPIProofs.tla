----------------------------- MODULE MPIProofs ------------------------------
(***************************************************************************)
(* The MPI programs, for every size of the job and every number of         *)
(* elements: when a job ends without an error, every rank has received     *)
(* what was meant for it (Collected).                                      *)
(*                                                                         *)
(* Three kinds of programs have an invariant each.  Where all ranks go     *)
(* through the same collectives, what each has brought and got so far is   *)
(* fixed by its script (CollInv).  Where rank 0 sends to the others, the   *)
(* messages in transit are those that it has sent and their receiver has   *)
(* not taken (LetterInv).  In the exchange of two ranks, the partner's     *)
(* message is in transit or has been taken by the open request (SwapInv).  *)
(***************************************************************************)
EXTENDS MPI, SequenceTheorems, FiniteSetTheorems, WellFoundedInduction, TLAPS

-----------------------------------------------------------------------------
(* A property that holds at 0 or 1 and is kept by the successor holds for  *)
(* every number up to a bound; TLAPS's induction theorems would need it as *)
(* an operator, so a set is shown to be empty instead.                     *)

(* A set of natural numbers that is not empty has a least element.         *)
LEMMA LeastNumber ==
  ASSUME NEW B \in SUBSET Nat, B # {}
  PROVE  \E n \in B : \A m \in B : n <= m
<1>1. PICK n \in B : \A m \in B : <<m, n>> \notin OpToRel(<, Nat)
  BY NatLessThanWellFounded, WFMin
<1>2. \A m \in B : ~(m < n)
  BY <1>1 DEF OpToRel
<1> QED
  BY <1>2

(* A set of numbers with 0 and the successor of each up to n holds 0..n.   *)
LEMMA Upwards ==
  ASSUME NEW n \in Nat, NEW S, 0 \in S, \A m \in 1..n : m - 1 \in S => m \in S
  PROVE  0..n \subseteq S
<1> DEFINE B == (0..n) \ S
<1> SUFFICES ASSUME B # {} PROVE FALSE
  OBVIOUS
<1>1. B \in SUBSET Nat
  OBVIOUS
<1>2. \E m \in B : \A k \in B : m <= k
  <2> HIDE DEF B
  <2> QED
    BY <1>1, LeastNumber
<1>3. PICK m \in B : \A k \in B : m <= k
  BY <1>2
<1>4. m \in 1..n /\ m - 1 \in S
  BY <1>3
<1> QED
  BY <1>3, <1>4

-----------------------------------------------------------------------------
(* What FlattenSeq joins: the first n sequences, and then the next one.    *)

\* How FlattenSeq joins the first m of seqs.
Joins(h, seqs, m) ==
  h = [i \in 1..m |-> IF i = 1 THEN seqs[i] ELSE h[i - 1] \o seqs[i]]

LEMMA FlattenUnfolds ==
  ASSUME NEW n \in Nat \ {0}, NEW seqs, Len(seqs) = n, NEW g, Joins(g, seqs, n)
  PROVE  \E h : Joins(h, seqs, n) /\ FlattenSeq(seqs) = h[n]
<1> DEFINE h == CHOOSE h : Joins(h, seqs, n)
<1>1. Joins(h, seqs, n)
  OBVIOUS
<1>2. FlattenSeq(seqs) = h[n]
  BY DEF Joins, FlattenSeq
<1> QED
  BY <1>1, <1>2

\* The i-th of the n sequences ends at place d[i] when they are joined.
EndAt(d, V, seqs, n) == /\ seqs \in [1..n -> Seq(V)]
                        /\ d \in [0..n -> Nat]
                        /\ d[0] = 0
                        /\ \A i \in 1..n : d[i] = d[i - 1] + Len(seqs[i])

\* Sequence s is the first m of them joined.
Joined(s, V, seqs, d, m) ==
  /\ s \in Seq(V) /\ Len(s) = d[m]
  /\ \A i \in 1..m : d[i] <= d[m]
  /\ \A i \in 1..m : \A j \in 1..Len(seqs[i]) : s[d[i - 1] + j] = seqs[i][j]

LEMMA EndFacts ==
  ASSUME NEW V, NEW n \in Nat, NEW seqs, NEW d, EndAt(d, V, seqs, n), NEW i \in 1..n
  PROVE  /\ seqs[i] \in Seq(V) /\ Len(seqs[i]) \in Nat
         /\ d[i] \in Nat /\ d[i - 1] \in Nat /\ d[i] = d[i - 1] + Len(seqs[i])
<1>1. seqs \in [1..n -> Seq(V)] /\ d \in [0..n -> Nat]
  BY DEF EndAt
<1>2. d[i] = d[i - 1] + Len(seqs[i])
  BY Zenon DEF EndAt
<1>3. i \in 0..n /\ i - 1 \in 0..n
  OBVIOUS
<1> QED
  BY <1>1, <1>2, <1>3

LEMMA JoinedStep ==
  ASSUME NEW V, NEW n \in Nat \ {0}, NEW seqs, NEW d, EndAt(d, V, seqs, n),
         NEW m \in 2..n, NEW s, Joined(s, V, seqs, d, m - 1)
  PROVE  Joined(s \o seqs[m], V, seqs, d, m)
<1>0. ASSUME NEW i \in 1..n
      PROVE  /\ seqs[i] \in Seq(V) /\ Len(seqs[i]) \in Nat
             /\ d[i] \in Nat /\ d[i - 1] \in Nat /\ d[i] = d[i - 1] + Len(seqs[i])
  BY EndFacts
<1>1. /\ s \in Seq(V) /\ Len(s) = d[m - 1] /\ seqs[m] \in Seq(V)
      /\ d[m] = d[m - 1] + Len(seqs[m]) /\ d[m - 1] \in Nat /\ d[m] \in Nat
      /\ Len(seqs[m]) \in Nat
  <2>1. s \in Seq(V) /\ Len(s) = d[m - 1]
    BY DEF Joined
  <2> QED
    BY <2>1, <1>0
<1>2. /\ s \o seqs[m] \in Seq(V) /\ Len(s \o seqs[m]) = d[m]
      /\ \A k \in 1..d[m - 1] : (s \o seqs[m])[k] = s[k]
      /\ \A k \in 1..Len(seqs[m]) : (s \o seqs[m])[d[m - 1] + k] = seqs[m][k]
  <2>1. /\ s \o seqs[m] \in Seq(V) /\ Len(s \o seqs[m]) = Len(s) + Len(seqs[m])
        /\ \A k \in 1..Len(s) + Len(seqs[m]) : (s \o seqs[m])[k]
             = IF k <= Len(s) THEN s[k] ELSE seqs[m][k - Len(s)]
    BY <1>1, ConcatProperties
  <2>2. Len(s) = d[m - 1] /\ d[m - 1] \in Nat /\ Len(seqs[m]) \in Nat
    BY <1>1
  <2> DEFINE a == d[m - 1]
             b == Len(seqs[m])
             u == s \o seqs[m]
  <2>3. /\ \A k \in 1..a + b : u[k] = IF k <= a THEN s[k] ELSE seqs[m][k - a]
        /\ a \in Nat /\ b \in Nat
    BY <2>1, <2>2
  <2>4. /\ \A k \in 1..a : u[k] = s[k]
        /\ \A k \in 1..b : u[a + k] = seqs[m][k]
    <3> HIDE DEF a, b, u
    <3>1. \A k \in 1..a : u[k] = s[k]
      BY <2>3
    <3>2. ASSUME NEW k \in 1..b PROVE u[a + k] = seqs[m][k]
      <4>1. a + k \in 1..a + b /\ ~(a + k <= a) /\ (a + k) - a = k
        BY <2>3
      <4> QED
        BY <2>3, <4>1
    <3> QED
      BY <3>1, <3>2
  <2> QED
    BY <1>1, <2>1, <2>4
<1>3. ASSUME NEW i \in 1..m PROVE d[i] <= d[m]
  <2>1. CASE i = m
    BY <1>1, <2>1
  <2>2. CASE i \in 1..m - 1
    <3>1. d[i] <= d[m - 1]
      BY <2>2 DEF Joined
    <3>2. d[i] \in Nat
      BY <1>0
    <3> QED
      BY <1>1, <3>1, <3>2
  <2> QED
    BY <2>1, <2>2
<1>4. ASSUME NEW i \in 1..m, NEW j \in 1..Len(seqs[i])
      PROVE  (s \o seqs[m])[d[i - 1] + j] = seqs[i][j]
  <2>1. CASE i = m
    BY <1>2, <2>1
  <2>2. CASE i \in 1..m - 1
    <3>1. s[d[i - 1] + j] = seqs[i][j] /\ d[i] <= d[m - 1]
      BY <2>2 DEF Joined
    <3>2. Len(seqs[i]) \in Nat /\ d[i - 1] \in Nat /\ d[i] = d[i - 1] + Len(seqs[i])
      BY <1>0
    <3>3. d[i - 1] + j \in 1..d[m - 1]
      <4> DEFINE a == d[i - 1]
                 b == Len(seqs[i])
                 c == d[m - 1]
      <4>1. a \in Nat /\ b \in Nat /\ c \in Nat /\ a + b <= c /\ j \in 1..b
        BY <1>1, <3>1, <3>2
      <4> HIDE DEF a, b, c
      <4>2. a + j \in 1..c
        BY <4>1
      <4> QED
        BY <4>2 DEF a, c
    <3> QED
      BY <1>2, <3>1, <3>3
  <2>3. i = m \/ i \in 1..m - 1
    OBVIOUS
  <2> QED
    BY <2>1, <2>2, <2>3
<1> QED
  BY <1>2, <1>3, <1>4 DEF Joined

(* The elements of seqs, one sequence behind the other.                    *)
LEMMA Flattened ==
  ASSUME NEW V, NEW n \in Nat \ {0}, NEW seqs, NEW d, EndAt(d, V, seqs, n)
  PROVE  Joined(FlattenSeq(seqs), V, seqs, d, n)
<1>0. Len(seqs) = n
  BY DEF EndAt
<1>1. \E g : Joins(g, seqs, n)
  <2> DEFINE S == {0} \cup {m \in 1..n : \E g : Joins(g, seqs, m)}
  <2>1. ASSUME NEW m \in 1..n, m - 1 \in S PROVE m \in S
    <3>1. CASE m = 1
      <4>1. Joins([i \in 1..1 |-> seqs[1]], seqs, 1)
        BY DEF Joins
      <4> QED
        BY <3>1, <4>1
    <3>2. CASE m > 1
      <4>1. PICK g : Joins(g, seqs, m - 1)
        BY <2>1, <3>2
      <4> DEFINE h == [i \in 1..m |-> IF i = m THEN g[m - 1] \o seqs[m] ELSE g[i]]
      <4>2. ASSUME NEW i \in 1..m
            PROVE  h[i] = IF i = 1 THEN seqs[i] ELSE h[i - 1] \o seqs[i]
        <5>1. CASE i = m
          <6>0. m \in 1..m /\ m - 1 \in 1..m /\ m - 1 # m /\ m # 1
            BY <3>2
          <6>1. h[m] = g[m - 1] \o seqs[m] /\ h[m - 1] = g[m - 1]
            BY <6>0
          <6>2. h[m] = h[m - 1] \o seqs[m]
            BY <6>1
          <6> HIDE DEF h
          <6> QED
            BY <5>1, <6>0, <6>2
        <5>2. CASE i \in 1..m - 1
          <6>1. g[i] = IF i = 1 THEN seqs[i] ELSE g[i - 1] \o seqs[i]
            BY <4>1, <5>2 DEF Joins
          <6> QED
            BY <5>2, <6>1
        <5> QED
          BY <5>1, <5>2
      <4>3. h = [i \in 1..m |-> h[i]]
        OBVIOUS
      <4>4. Joins(h, seqs, m)
        <5> HIDE DEF h
        <5> QED
          BY <4>2, <4>3 DEF Joins
      <4> QED
        BY <4>4
    <3> QED
      BY <3>1, <3>2
  <2>2. 0..n \subseteq S
    <3> HIDE DEF S
    <3>1. 0 \in S
      BY DEF S
    <3> QED
      BY <2>1, <3>1, Upwards
  <2>3. n \in S
    BY <2>2
  <2> QED
    BY <2>3
<1>2. PICK h : Joins(h, seqs, n) /\ FlattenSeq(seqs) = h[n]
  BY <1>0, <1>1, FlattenUnfolds
<1> DEFINE S == {0} \cup {m \in 1..n : Joined(h[m], V, seqs, d, m)}
<1>3. ASSUME NEW m \in 1..n, m - 1 \in S PROVE m \in S
  <2>0. h[m] = IF m = 1 THEN seqs[m] ELSE h[m - 1] \o seqs[m]
    BY <1>2 DEF Joins
  <2>1. CASE m = 1
    <3>1. h[1] = seqs[1] /\ seqs[1] \in Seq(V) /\ d[1] = Len(seqs[1]) /\ d[0] = 0
      BY <2>0, <2>1 DEF EndAt
    <3>2. Joined(h[1], V, seqs, d, 1)
      BY <3>1 DEF Joined
    <3> QED
      BY <2>1, <3>2
  <2>2. CASE m > 1
    <3>1. Joined(h[m - 1], V, seqs, d, m - 1)
      BY <1>3, <2>2
    <3>2. Joined(h[m - 1] \o seqs[m], V, seqs, d, m)
      BY <2>2, <3>1, JoinedStep
    <3> QED
      BY <2>0, <2>2, <3>2
  <2> QED
    BY <2>1, <2>2
<1>4. 0..n \subseteq S
  <2> HIDE DEF S
  <2>1. 0 \in S
    BY DEF S
  <2> QED
    BY <1>3, <2>1, Upwards
<1>5. n \in S
  BY <1>4
<1> QED
  BY <1>2, <1>5

-----------------------------------------------------------------------------
(* The offsets of the blocks, and the sum of the ranks.                    *)

SizeOK == world \in Nat \ {0} /\ Total \in Nat

LEMMA ShareFacts ==
  ASSUME SizeOK
  PROVE  /\ Share \in Nat /\ Total % world \in Nat /\ Total % world < world
         /\ Total = Share * world + (Total % world)
BY DEF SizeOK, Share

\* Where rank r's block begins: the ranks before it have a share each, and one
\* more as long as the remainder lasts.
Begin(r) == Share * r + (IF r < Total % world THEN r ELSE Total % world)

LEMMA BeginFacts ==
  ASSUME SizeOK
  PROVE  /\ Begin(0) = 0
         /\ Begin(world) = Total
         /\ \A r \in Nat : Begin(r) \in Nat /\ sendcounts(r) \in Nat
         /\ \A r \in Nat \ {0} : Begin(r) = Begin(r - 1) + sendcounts(r - 1)
<1> DEFINE rest == Total % world
<1>1. /\ Share \in Nat /\ rest \in Nat /\ rest < world /\ world \in Nat
      /\ Total = Share * world + rest
  BY ShareFacts DEF SizeOK
<1>2. \A r : sendcounts(r) = Share + (IF r < rest THEN 1 ELSE 0)
  BY DEF sendcounts, Share
<1>3. \A r : Begin(r) = Share * r + (IF r < rest THEN r ELSE rest)
  BY DEF Begin
<1> HIDE DEF rest
<1>4. ASSUME NEW r \in Nat PROVE Begin(r) \in Nat /\ sendcounts(r) \in Nat
  <2>1. Share * r \in Nat
    BY <1>1
  <2> QED
    BY <1>1, <1>2, <1>3, <2>1
<1>5. ASSUME NEW r \in Nat \ {0} PROVE Begin(r) = Begin(r - 1) + sendcounts(r - 1)
  <2>1. Share * r = Share * (r - 1) + Share /\ Share * (r - 1) \in Nat
    BY <1>1
  <2> QED
    BY <1>1, <1>2, <1>3, <2>1
<1>6. Begin(0) = 0 /\ Begin(world) = Total
  BY <1>1, <1>3
<1> QED
  BY <1>4, <1>5, <1>6

(* The root's displacements are those of the blocks.                       *)
LEMMA Displacements ==
  ASSUME SizeOK
  PROVE  \A r \in Nat : displs[r] = Begin(r)
<1> DEFINE g == [r \in Nat |-> Begin(r)]
<1>1. ASSUME NEW r \in Nat
      PROVE  g[r] = IF r = 0 THEN 0 ELSE g[r - 1] + sendcounts(r - 1)
  BY BeginFacts
<1>2. g = [r \in Nat |-> g[r]]
  OBVIOUS
<1> HIDE DEF g
<1>3. g = [r \in Nat |-> IF r = 0 THEN 0 ELSE g[r - 1] + sendcounts(r - 1)]
  BY <1>1, <1>2
<1>4. displs = [r \in Nat |-> IF r = 0 THEN 0 ELSE displs[r - 1] + sendcounts(r - 1)]
  BY <1>3 DEF displs
<1> SUFFICES ASSUME NEW n \in Nat PROVE displs[n] = Begin(n)
  OBVIOUS
<1> DEFINE S == {r \in Nat : displs[r] = Begin(r)}
<1>5. 0 \in S
  BY <1>4, BeginFacts
<1>6. ASSUME NEW m \in 1..n, m - 1 \in S PROVE m \in S
  <2>1. displs[m] = displs[m - 1] + sendcounts(m - 1) /\ m \in Nat \ {0}
    BY <1>4
  <2> QED
    BY <1>6, <2>1, BeginFacts
<1>7. 0..n \subseteq S
  <2> HIDE DEF S
  <2> QED
    BY <1>5, <1>6, Upwards
<1> QED
  BY <1>7

\* How Reduced adds up the offers.
AddsUp(h, offers) ==
  h = [u \in 0..world |-> IF u = 0 THEN 0 ELSE h[u - 1] + offers[u - 1]]

Triangle(u) == (u * (u - 1)) \div 2

LEMMA TriangleStep ==
  ASSUME NEW u \in Nat, u # 0
  PROVE  Triangle(u) = Triangle(u - 1) + (u - 1)
<1> DEFINE x == (u - 1) * ((u - 1) - 1)
<1>1. x \in Int /\ u * (u - 1) = x + 2 * (u - 1)
  OBVIOUS
<1> HIDE DEF x
<1>2. (x + 2 * (u - 1)) \div 2 = x \div 2 + (u - 1)
  BY <1>1
<1> QED
  BY <1>1, <1>2 DEF x, Triangle

(* 0 + 1 + ... + (world - 1).                                              *)
LEMMA SumOfRanks ==
  ASSUME SizeOK, NEW offers, \A u \in Ranks : offers[u] = u
  PROVE  Reduced(offers) = (world * (world - 1)) \div 2
<1>0. world \in Nat /\ \A u \in 1..world : u \in Nat /\ u # 0 /\ u - 1 \in Ranks
  BY DEF SizeOK, Ranks
<1>1. Triangle(0) = 0 /\ Triangle(world) = (world * (world - 1)) \div 2
  BY DEF Triangle
<1> DEFINE g == [u \in 0..world |-> Triangle(u)]
<1>2. ASSUME NEW u \in 0..world
      PROVE  g[u] = IF u = 0 THEN 0 ELSE g[u - 1] + offers[u - 1]
  <2>1. CASE u = 0
    BY <1>1, <2>1
  <2>2. CASE u # 0
    <3>1. u \in Nat /\ u - 1 \in Ranks /\ u - 1 \in 0..world
      BY <1>0, <2>2
    <3>2. g[u] = Triangle(u) /\ g[u - 1] = Triangle(u - 1) /\ offers[u - 1] = u - 1
      BY <3>1
    <3> HIDE DEF g
    <3> QED
      BY <2>2, <3>1, <3>2, TriangleStep
  <2> QED
    BY <2>1, <2>2
<1>3. g = [u \in 0..world |-> g[u]]
  OBVIOUS
<1> HIDE DEF g
<1>4. AddsUp(g, offers)
  BY <1>2, <1>3 DEF AddsUp
<1> DEFINE h == CHOOSE h : AddsUp(h, offers)
<1>5. AddsUp(h, offers)
  BY <1>4
<1>6. Reduced(offers) = h[world]
  BY DEF AddsUp, Reduced
<1> HIDE DEF h
<1> DEFINE S == {u \in 0..world : h[u] = Triangle(u)}
<1>7. 0 \in S
  BY <1>0, <1>1, <1>5 DEF AddsUp
<1>8. ASSUME NEW m \in 1..world, m - 1 \in S PROVE m \in S
  <2>1. h[m] = h[m - 1] + offers[m - 1] /\ m \in Nat /\ m # 0
    BY <1>5, <1>0 DEF AddsUp
  <2>2. offers[m - 1] = m - 1 /\ h[m - 1] = Triangle(m - 1)
    BY <1>0, <1>8
  <2> QED
    BY <2>1, <2>2, TriangleStep
<1>9. world \in S
  <2> HIDE DEF S
  <2>1. 0..world \subseteq S
    BY <1>0, <1>7, <1>8, Upwards
  <2> QED
    BY <1>0, <2>1
<1> QED
  BY <1>1, <1>6, <1>9

(* Every place of the joined sequences is one of the i-th, for some i.     *)
LEMMA Covered ==
  ASSUME NEW V, NEW n \in Nat \ {0}, NEW seqs, NEW d, EndAt(d, V, seqs, n), NEW k \in 1..d[n]
  PROVE  \E i \in 1..n : seqs[i] \in Seq(V) /\ \E j \in 1..Len(seqs[i]) : k = d[i - 1] + j
<1> DEFINE Part(i) == \E j \in 1..Len(seqs[i]) : k = d[i - 1] + j
           S == {m \in 0..n : k <= d[m] => \E i \in 1..m : Part(i)}
<1>0. ASSUME NEW i \in 1..n
      PROVE  /\ seqs[i] \in Seq(V) /\ Len(seqs[i]) \in Nat
             /\ d[i] \in Nat /\ d[i - 1] \in Nat /\ d[i] = d[i - 1] + Len(seqs[i])
  BY EndFacts
<1>1. 0 \in S
  <2>1. d[0] = 0 /\ d[n] \in Nat
    BY <1>0 DEF EndAt
  <2> QED
    BY <2>1
<1>2. ASSUME NEW m \in 1..n, m - 1 \in S PROVE m \in S
  <2> SUFFICES ASSUME k <= d[m] PROVE \E i \in 1..m : Part(i)
    BY <1>2
  <2>1. /\ Len(seqs[m]) \in Nat /\ d[m] \in Nat /\ d[m - 1] \in Nat
        /\ d[m] = d[m - 1] + Len(seqs[m])
    BY <1>0
  <2>2. k \in Nat /\ 1 <= k
    <3>1. d[n] \in Nat
      BY <1>0
    <3> QED
      BY <3>1
  <2>3. CASE k <= d[m - 1]
    <3> HIDE DEF Part
    <3> QED
      BY <1>2, <2>3
  <2>4. CASE ~(k <= d[m - 1])
    <3> DEFINE a == d[m - 1]
               b == Len(seqs[m])
    <3>1. a \in Nat /\ b \in Nat /\ k <= a + b /\ ~(k <= a)
      BY <2>1, <2>4
    <3>2. k - a \in 1..b /\ k = a + (k - a)
      <4> HIDE DEF a, b
      <4> QED
        BY <2>2, <3>1
    <3>3. Part(m)
      BY <3>2
    <3> HIDE DEF Part
    <3> QED
      BY <3>3
  <2> QED
    BY <2>3, <2>4
<1>3. n \in S
  <2> HIDE DEF S
  <2>1. 0..n \subseteq S
    BY <1>1, <1>2, Upwards
  <2> QED
    BY <2>1
<1>4. k <= d[n]
  <2>1. d[n] \in Nat
    BY <1>0
  <2> QED
    BY <2>1
<1>5. PICK i \in 1..n : Part(i)
  BY <1>3, <1>4
<1> QED
  BY <1>0, <1>5

\* The sequences are consecutive parts of an array.
PartsOf(whole, seqs, d, n) ==
  \A i \in 1..n : \A j \in 1..Len(seqs[i]) : seqs[i][j] = whole[d[i - 1] + j]

(* When the sequences are the parts of an array, they make up the array.   *)
LEMMA MakesUp ==
  ASSUME NEW V, NEW n \in Nat \ {0}, NEW seqs, NEW d, EndAt(d, V, seqs, n),
         NEW whole, whole = [k \in 1..d[n] |-> whole[k]],
         PartsOf(whole, seqs, d, n)
  PROVE  FlattenSeq(seqs) = whole
<1> DEFINE s == FlattenSeq(seqs)
<1>0. Joined(s, V, seqs, d, n)
  BY Flattened
<1>1. s \in Seq(V) /\ Len(s) = d[n] /\ d[n] \in Nat
  BY <1>0, EndFacts DEF Joined
<1>2. ASSUME NEW k \in 1..d[n] PROVE s[k] = whole[k]
  <2>1. PICK i \in 1..n : seqs[i] \in Seq(V) /\ \E j \in 1..Len(seqs[i]) : k = d[i - 1] + j
    BY Covered
  <2>2. PICK j \in 1..Len(seqs[i]) : k = d[i - 1] + j
    BY <2>1
  <2>3. s[d[i - 1] + j] = seqs[i][j]
    BY <1>0 DEF Joined
  <2>4. seqs[i][j] = whole[d[i - 1] + j]
    BY DEF PartsOf
  <2> QED
    BY <2>2, <2>3, <2>4
<1> HIDE DEF s
<1>3. s = [k \in 1..d[n] |-> s[k]]
  BY <1>1
<1>4. s = whole
  BY <1>2, <1>3
<1> QED
  BY <1>4 DEF s

(* Appending the next value of f to the first n.                           *)
LEMMA AppendNext ==
  ASSUME NEW f, NEW n \in Nat
  PROVE  Append([j \in 1..n |-> f[j]], f[n + 1]) = [j \in 1..n + 1 |-> f[j]]
<1> DEFINE V == {f[j] : j \in 1..n + 1}
           s == [j \in 1..n |-> f[j]]
<1>1. s \in Seq(V) /\ Len(s) = n /\ f[n + 1] \in V
  OBVIOUS
<1>2. ASSUME NEW j \in 1..n + 1 PROVE Append(s, f[n + 1])[j] = f[j]
  <2>1. \A i \in 1..n : s[i] = f[i]
    OBVIOUS
  <2> HIDE DEF s, V
  <2> QED
    BY <1>1, <2>1, AppendProperties
<1>3. Append(s, f[n + 1]) \in Seq(V) /\ Len(Append(s, f[n + 1])) = n + 1
  <2> HIDE DEF s, V
  <2> QED
    BY <1>1, AppendProperties
<1> HIDE DEF s, V
<1>4. Append(s, f[n + 1]) = [j \in 1..n + 1 |-> Append(s, f[n + 1])[j]]
  BY <1>3
<1>5. Append(s, f[n + 1]) = [j \in 1..n + 1 |-> f[j]]
  BY <1>2, <1>4
<1> QED
  BY <1>5 DEF s

-----------------------------------------------------------------------------
(* The programs of collectives.  All ranks have the same script, so what a *)
(* rank brings to its j-th collective and gets from it is known from the   *)
(* start: CollInv says that what it has brought and got so far is just     *)
(* that.                                                                   *)

CollPrograms == {"Bcast_Reduce", "Scatter", "Scatterv", "ScatterAndGather", "ALLGather",
                 "NewCommunicator"}

\* What rank r brings to a collective.
Brought(op, r) ==
  CASE op = "bcast" -> IF r = Root THEN 1000 ELSE 0
    [] op = "reduce" -> r
    [] op \in {"scatter", "scatterv"} -> IF r = Root THEN [i \in 1..Total |-> i - 1] ELSE <<>>
    [] op = "gather" -> [i \in 1..Share |-> (Share * r + i - 1) * (Share * r + i - 1)]
    [] op = "allgather" -> [i \in 1..Share |-> r + i - 1]
    [] op = "split" -> r % 3

\* What it gets there.
Obtained(op, r) ==
  CASE op = "bcast" -> 1000
    [] op = "reduce" -> IF r = Root THEN (world * (world - 1)) \div 2 ELSE 0
    [] op = "scatter" -> [i \in 1..Share |-> Share * r + i - 1]
    [] op = "scatterv" -> [i \in 1..sendcounts(r) |-> Begin(r) + i - 1]
    [] op = "gather" -> IF r = Root THEN Gathered([u \in Ranks |-> Brought("gather", u)])
                        ELSE <<>>
    [] op = "allgather" -> Gathered([u \in Ranks |-> Brought("allgather", u)])
    [] op = "split" -> Cardinality({u \in Ranks : u < r /\ u % 3 = r % 3})

AllBrought(r) == [j \in 1..Len(Script(r)) |-> Brought(Script(r)[j].op, r)]
AllObtained(r) == [j \in 1..Len(Script(r)) |-> Obtained(Script(r)[j].op, r)]

\* The collectives that rank r has entered.
Entered(r) == IF phase[r] = "inside" THEN at[r] ELSE at[r] - 1

\* Nothing but collectives goes on.
Quiet == /\ \A pair \in Ranks \X Ranks : channel[pair] = <<>>
         /\ \A r \in Ranks : requests[r] = {}

InScript == /\ at \in [Ranks -> Nat \ {0}] /\ phase \in [Ranks -> {"enter", "inside"}]
            /\ \A r \in Ranks : /\ at[r] <= Len(Script(r)) + 1
                                /\ phase[r] = "inside" => at[r] <= Len(Script(r))

Exchanged ==
  /\ got = [r \in Ranks |-> [j \in 1..at[r] - 1 |-> AllObtained(r)[j]]]
  /\ offered = [r \in Ranks |-> [j \in 1..Entered(r) |-> AllBrought(r)[j]]]

CollInv == prog \in CollPrograms /\ SizeOK /\ Quiet /\ InScript /\ Exchanged

LEMMA SizeFacts == Init => SizeOK
BY WorldsAssumption DEF Init, SizeOK

\* The scripts of these programs.
LEMMA CollScripts ==
  ASSUME prog \in CollPrograms, NEW r
  PROVE  /\ Script(r) = Script(Root)
         /\ prog = "Bcast_Reduce" => Script(r) = <<Simple("bcast"), Simple("reduce")>>
         /\ prog = "Scatter" => Script(r) = <<Simple("scatter")>>
         /\ prog = "Scatterv" => Script(r) = <<Simple("scatterv")>>
         /\ prog = "ScatterAndGather" => Script(r) = <<Simple("scatter"), Simple("gather")>>
         /\ prog = "ALLGather" => Script(r) = <<Simple("allgather")>>
         /\ prog = "NewCommunicator" => Script(r) = <<Simple("split")>>
BY DEF CollPrograms, Script

LEMMA CollOps ==
  ASSUME prog \in CollPrograms, NEW r
  PROVE  /\ Len(Script(r)) \in {1, 2}
         /\ \A j \in 1..Len(Script(r)) : Script(r)[j].op \in Collectives
         /\ \A j \in 1..Len(Script(r)) :
              Script(r)[j].op = "gather" => j = 2 /\ Script(r)[1].op = "scatter"
<1> USE CollScripts DEF Simple, Collectives, FromRoot, ToRoot
<1>1. CASE prog = "Bcast_Reduce"
  BY <1>1
<1>2. CASE prog = "ScatterAndGather"
  BY <1>2
<1>3. CASE prog \in {"Scatter", "Scatterv", "ALLGather", "NewCommunicator"}
  <2>1. PICK op \in {"scatter", "scatterv", "allgather", "split"} : Script(r) = <<Simple(op)>>
    BY <1>3
  <2> QED
    BY <2>1
<1> QED
  BY <1>1, <1>2, <1>3 DEF CollPrograms

\* Only collectives are executed.
LEMMA CollActs ==
  ASSUME CollInv, NEW r \in Ranks, Act(r) \/ ReturnsBuffered(r) \/ LeaveEarly(r)
  PROVE  Enter(r) \/ \E needed : Needed(r) \subseteq needed /\ LeaveAfter(r, needed)
<1>1. ASSUME NEW ops, NEW label, Doing(r, ops, label), ops \cap Collectives = {} PROVE FALSE
  <2>1. at[r] \in 1..Len(Script(r))
    BY <1>1, CollOps DEF Doing, Finished, CollInv, InScript
  <2>2. Op(r).op \in Collectives
    BY <2>1, CollOps DEF Op, CollInv
  <2> QED
    BY <1>1, <2>2 DEF Doing
<1>2. {"send", "isend", "recv", "irecv", "waitall"} \cap Collectives = {}
  BY DEF Collectives, FromRoot, ToRoot
<1>3. ~(Abort(r) \/ Void(r) \/ Post(r) \/ SendReturns(r) \/ OpenRequest(r) \/ Receive(r)
          \/ WaitallReturns(r) \/ ReturnsBuffered(r))
  BY <1>1, <1>2 DEF Abort, Void, Post, SendReturns, OpenRequest, Receive, WaitallReturns,
                    ReturnsBuffered
<1>4. ~Deliver(r)
  BY DEF Deliver, CollInv, Quiet
<1>5. CASE LeaveTogether(r)
  <2>1. Needed(r) \subseteq Ranks
    BY DEF Needed, Root, Ranks, CollInv, SizeOK
  <2> QED
    BY <1>5, <2>1 DEF LeaveTogether
<1>6. CASE LeaveEarly(r)
  BY <1>6 DEF LeaveEarly
<1> QED
  BY <1>3, <1>4, <1>5, <1>6 DEF Act

\* What depends on the program and the job's size only does not change.
LEMMA CollSame ==
  ASSUME prog' = prog, world' = world
  PROVE  /\ SizeOK' <=> SizeOK
         /\ Ranks' = Ranks
         /\ \A r : /\ Script(r)' = Script(r)
                   /\ AllBrought(r)' = AllBrought(r)
                   /\ AllObtained(r)' = AllObtained(r)
<1>1. Ranks' = Ranks /\ (SizeOK' <=> SizeOK)
  BY DEF Ranks, SizeOK
<1>2. ASSUME NEW r PROVE Script(r)' = Script(r)
  BY DEF Script
<1>3. Share' = Share
  BY DEF Share
<1>4. ASSUME NEW r, NEW op PROVE Brought(op, r)' = Brought(op, r)
  BY <1>3 DEF Brought
<1>5. ASSUME NEW r, NEW op PROVE Obtained(op, r)' = Obtained(op, r)
  <2>1. sendcounts(r)' = sendcounts(r) /\ Begin(r)' = Begin(r)
    BY <1>3 DEF sendcounts, Begin
  <2>2. ASSUME NEW o
        PROVE  Gathered([u \in Ranks |-> Brought(o, u)])'
                 = Gathered([u \in Ranks |-> Brought(o, u)])
    <3> DEFINE parts == [u \in Ranks |-> Brought(o, u)]
    <3>1. parts' = parts
      BY <1>1, <1>4
    <3> HIDE DEF parts
    <3>2. Gathered(parts)' = Gathered(parts)
      BY <3>1 DEF Gathered
    <3> QED
      BY <3>2 DEF parts
  <2> QED
    BY <1>1, <1>3, <2>1, <2>2 DEF Obtained
<1> QED
  BY <1>1, <1>2, <1>4, <1>5 DEF AllBrought, AllObtained

\* Where a rank is that executes a collective.
LEMMA CollPlace ==
  ASSUME CollInv, NEW r \in Ranks, NEW label, Doing(r, Collectives, label)
  PROVE  /\ at[r] \in 1..Len(Script(r)) /\ at[r] \in Nat
         /\ Op(r) = Script(r)[at[r]]
         /\ Op(r).op \in Collectives
         /\ AllBrought(r)[at[r]] = Brought(Op(r).op, r)
         /\ AllObtained(r)[at[r]] = Obtained(Op(r).op, r)
<1>1. at[r] \in 1..Len(Script(r)) /\ at[r] \in Nat
  BY CollOps DEF Doing, Finished, CollInv, InScript
<1> QED
  BY <1>1 DEF Doing, Op, AllBrought, AllObtained

LEMMA OfferIs ==
  ASSUME CollInv, NEW r \in Ranks, Doing(r, Collectives, "enter")
  PROVE  Offer(r) = AllBrought(r)[at[r]]
<1> DEFINE op == Op(r).op
<1>0. /\ at[r] \in 1..Len(Script(r)) /\ op = Script(r)[at[r]].op
      /\ op \in Collectives
      /\ AllBrought(r)[at[r]] = Brought(op, r)
  BY CollPlace
<1>1. CASE op = "gather"
  <2>1. at[r] = 2 /\ Script(r)[1].op = "scatter" /\ Len(Script(r)) \in {1, 2}
    BY <1>0, <1>1, CollOps DEF CollInv
  <2>2. got[r] = [j \in 1..at[r] - 1 |-> AllObtained(r)[j]]
    BY DEF CollInv, Exchanged
  <2>3. Last(got[r]) = AllObtained(r)[1]
    BY <2>1, <2>2 DEF Last
  <2>4. AllObtained(r)[1] = Obtained("scatter", r)
    BY <2>1 DEF AllObtained
  <2>5. Last(got[r]) = [i \in 1..Share |-> Share * r + i - 1]
    BY <2>3, <2>4 DEF Obtained
  <2>6. Offer(r) = [i \in 1..Share |-> Last(got[r])[i] * Last(got[r])[i]]
    BY <1>1 DEF Offer
  <2> QED
    BY <1>0, <1>1, <2>5, <2>6 DEF Brought
<1>2. CASE op # "gather"
  <2>1. Offer(r) = Brought(op, r)
    BY <1>0, <1>2 DEF Offer, Brought, Collectives, FromRoot, ToRoot
  <2> QED
    BY <1>0, <2>1
<1> QED
  BY <1>1, <1>2

LEMMA EnterKeeps ==
  ASSUME CollInv, NEW r \in Ranks, Enter(r)
  PROVE  CollInv'
<1>0. Doing(r, Collectives, "enter") /\ phase[r] = "enter"
  BY DEF Enter, Doing
<1>1. prog' = prog /\ world' = world /\ at' = at /\ got' = got /\ channel' = channel
      /\ requests' = requests
  BY DEF Enter, GoInside
<1>2. at[r] \in 1..Len(Script(r)) /\ at[r] \in Nat
  BY <1>0, CollPlace
<1>3. phase' = [phase EXCEPT ![r] = "inside"]
  BY DEF Enter, GoInside
<1>4. InScript'
  <2>1. /\ at \in [Ranks -> Nat \ {0}] /\ phase \in [Ranks -> {"enter", "inside"}]
        /\ \A u \in Ranks : /\ at[u] <= Len(Script(u)) + 1
                            /\ phase[u] = "inside" => at[u] <= Len(Script(u))
    BY DEF CollInv, InScript
  <2>2. Ranks' = Ranks /\ \A u : Len(Script(u))' = Len(Script(u))
    BY <1>1, CollSame
  <2>3. Len(Script(r)) \in Nat
    BY CollOps DEF CollInv
  <2> QED
    BY <1>1, <1>2, <1>3, <2>1, <2>2, <2>3 DEF InScript
<1>5. ASSUME NEW u \in Ranks
      PROVE  offered'[u] = [j \in 1..Entered(u)' |-> AllBrought(u)'[j]]
  <2>0. offered[u] = [j \in 1..Entered(u) |-> AllBrought(u)[j]] /\ AllBrought(u)' = AllBrought(u)
    BY <1>1, CollSame DEF CollInv, Exchanged
  <2>1. CASE u # r
    <3>1. offered'[u] = offered[u] /\ Entered(u)' = Entered(u)
      BY <1>1, <1>3, <2>1 DEF Enter, CollInv, Exchanged, Entered, InScript
    <3> QED
      BY <2>0, <3>1
  <2>2. CASE u = r
    <3>1. Entered(r) = at[r] - 1 /\ Entered(r)' = at[r]
      BY <1>0, <1>1, <1>3 DEF Entered, CollInv, InScript
    <3>2. offered'[r] = Append(offered[r], AllBrought(r)[at[r]])
      BY <1>0, OfferIs DEF Enter, CollInv, Exchanged
    <3> DEFINE n == at[r] - 1
    <3>3. n \in Nat /\ n + 1 = at[r]
      BY <1>2
    <3>4. offered[r] = [j \in 1..n |-> AllBrought(r)[j]]
      BY <2>0, <2>2, <3>1
    <3> HIDE DEF n
    <3>5. offered'[r] = [j \in 1..n + 1 |-> AllBrought(r)[j]]
      BY <3>2, <3>3, <3>4, AppendNext
    <3> QED
      BY <2>0, <2>2, <3>1, <3>3, <3>5
  <2> QED
    BY <2>1, <2>2
<1>6. offered' = [u \in Ranks |-> offered'[u]]
  BY DEF Enter, CollInv, Exchanged
<1>7. Exchanged'
  <2>1. got' = [u \in Ranks' |-> [j \in 1..at'[u] - 1 |-> AllObtained(u)'[j]]]
    BY <1>1, CollSame DEF CollInv, Exchanged
  <2>2. offered' = [u \in Ranks' |-> [j \in 1..Entered(u)' |-> AllBrought(u)'[j]]]
    BY <1>1, <1>5, <1>6, CollSame
  <2> QED
    BY <2>1, <2>2 DEF Exchanged
<1> QED
  BY <1>1, <1>4, <1>7, CollSame DEF CollInv, Quiet

\* What the offers are of those that have entered rank r's collective.
LEMMA OffersAre ==
  ASSUME CollInv, NEW r \in Ranks, Doing(r, Collectives, "inside"),
         NEW u \in Ranks, HasEntered(u, r)
  PROVE  Offers(r)[u] = Brought(Op(r).op, u)
<1>1. /\ at[r] \in 1..Len(Script(r)) /\ at[r] \in Nat /\ Op(r) = Script(r)[at[r]]
      /\ Script(r) = Script(u)
  BY CollPlace, CollScripts DEF CollInv
<1>2. Entered(r) = at[r] /\ Entered(u) \in Nat
  BY DEF Doing, Entered, CollInv, InScript
<1>3. /\ offered[r] = [j \in 1..Entered(r) |-> AllBrought(r)[j]]
      /\ offered[u] = [j \in 1..Entered(u) |-> AllBrought(u)[j]]
  BY DEF CollInv, Exchanged
<1>4. Len(offered[r]) = at[r] /\ Len(offered[u]) = Entered(u)
  BY <1>1, <1>2, <1>3
<1>5. at[r] \in 1..Entered(u)
  BY <1>1, <1>2, <1>4 DEF HasEntered
<1>6. offered[u][at[r]] = AllBrought(u)[at[r]]
  BY <1>3, <1>5
<1>7. AllBrought(u)[at[r]] = Brought(Op(r).op, u)
  BY <1>1 DEF AllBrought
<1>8. Offers(r)[u] = offered[u][Len(offered[r])]
  BY DEF Offers
<1> QED
  BY <1>4, <1>6, <1>7, <1>8

\* A block of the root's array.
LEMMA BlockIs ==
  ASSUME NEW first \in Nat, NEW n \in Nat, first + n <= Total, Total \in Nat
  PROVE  SubSeq([i \in 1..Total |-> i - 1], first + 1, first + n)
           = [i \in 1..n |-> first + i - 1]
<1> DEFINE s == [i \in 1..Total |-> i - 1]
           b == SubSeq(s, first + 1, first + n)
<1>1. \A k \in first + 1..first + n : s[k] = k - 1 /\ s[k] \in Int
  OBVIOUS
<1>2. /\ b \in Seq(Int)
      /\ Len(b) = IF first + 1 <= first + n THEN first + n - (first + 1) + 1 ELSE 0
      /\ \A i \in 1..first + n - (first + 1) + 1 : b[i] = s[first + 1 + i - 1]
  <2> HIDE DEF s
  <2> QED
    BY <1>1, SubSeqProperties
<1> HIDE DEF b
<1>3. Len(b) = n /\ \A i \in 1..n : b[i] = first + i - 1
  <2>1. Len(b) = n
    BY <1>2
  <2>2. ASSUME NEW i \in 1..n PROVE b[i] = first + i - 1
    <3>1. b[i] = s[first + 1 + i - 1] /\ first + 1 + i - 1 \in first + 1..first + n
      BY <1>2
    <3> QED
      BY <1>1, <3>1
  <2> QED
    BY <2>1, <2>2
<1>4. b = [i \in 1..n |-> b[i]]
  BY <1>2, <1>3
<1>5. b = [i \in 1..n |-> first + i - 1]
  BY <1>3, <1>4
<1> QED
  BY <1>5 DEF b

\* The blocks are within the array.
LEMMA BlocksWithin ==
  ASSUME SizeOK, NEW r \in Ranks
  PROVE  /\ r \in Nat
         /\ Share * r \in Nat /\ Share \in Nat /\ Share * r + Share <= Total
         /\ Begin(r) \in Nat /\ sendcounts(r) \in Nat /\ Begin(r) + sendcounts(r) <= Total
<1> DEFINE rest == Total % world
<1>1. /\ Share \in Nat /\ rest \in Nat /\ rest < world /\ world \in Nat
      /\ Total = Share * world + rest
  BY ShareFacts DEF SizeOK
<1>2. sendcounts(r) = Share + (IF r < rest THEN 1 ELSE 0)
  BY DEF sendcounts, Share
<1>3. Begin(r) = Share * r + (IF r < rest THEN r ELSE rest)
  BY DEF Begin
<1> HIDE DEF rest
<1>4. r \in Nat /\ r + 1 <= world
  BY <1>1 DEF Ranks
<1>5. Share * r + Share <= Share * world /\ Share * r \in Nat
  <2>1. Share * (r + 1) <= Share * world /\ Share * (r + 1) = Share * r + Share
    BY <1>1, <1>4
  <2> QED
    BY <1>1, <1>4, <2>1
<1>6. Share * world \in Nat
  BY <1>1
<1> QED
  BY <1>1, <1>2, <1>3, <1>4, <1>5, <1>6

LEMMA ResultIs ==
  ASSUME CollInv, NEW r \in Ranks, Doing(r, Collectives, "inside"),
         \A u \in Needed(r) : HasEntered(u, r)
  PROVE  Result(r) = AllObtained(r)[at[r]]
<1> DEFINE op == Op(r).op
<1>0. op \in Collectives /\ AllObtained(r)[at[r]] = Obtained(op, r)
  BY CollPlace
<1>1. SizeOK /\ Root \in Ranks /\ r \in Nat
  BY DEF CollInv, SizeOK, Root, Ranks
<1>2. \A u \in Ranks : HasEntered(u, r) => Offers(r)[u] = Brought(op, u)
  BY OffersAre
<1>3. HasEntered(r, r)
  <2>1. Len(offered[r]) \in Nat
    <3>1. offered[r] = [j \in 1..Entered(r) |-> AllBrought(r)[j]] /\ Entered(r) \in Nat
      BY DEF Entered, CollInv, InScript, Exchanged
    <3> QED
      BY <3>1
  <2> QED
    BY <2>1 DEF HasEntered
<1>4. CASE op \in FromRoot
  <2>0. Needed(r) = {Root}
    BY <1>4 DEF Needed, FromRoot, ToRoot
  <2>1. Offers(r)[Root] = Brought(op, Root)
    BY <1>1, <1>2, <2>0
  <2>2. CASE op = "bcast"
    <3>1. Result(r) = Offers(r)[Root]
      BY <2>2 DEF Result
    <3> QED
      BY <1>0, <2>1, <2>2, <3>1 DEF Brought, Obtained
  <2>3. op \in {"scatter", "scatterv"} => Offers(r)[Root] = [i \in 1..Total |-> i - 1]
    BY <2>1 DEF Brought
  <2>4. CASE op = "scatter"
    <3>1. Result(r) = SubSeq(Offers(r)[Root], r * Share + 1, (r + 1) * Share)
      BY <2>4 DEF Result
    <3>2. r * Share = Share * r /\ (r + 1) * Share = Share * r + Share
      BY <1>1, BlocksWithin
    <3>3. SubSeq([i \in 1..Total |-> i - 1], Share * r + 1, Share * r + Share)
            = [i \in 1..Share |-> Share * r + i - 1]
      BY <1>1, BlockIs, BlocksWithin DEF SizeOK
    <3> QED
      BY <1>0, <2>3, <2>4, <3>1, <3>2, <3>3 DEF Obtained
  <2>5. CASE op = "scatterv"
    <3>1. Result(r) = SubSeq(Offers(r)[Root], displs[r] + 1, displs[r] + sendcounts(r))
      BY <2>5 DEF Result
    <3>2. displs[r] = Begin(r)
      BY <1>1, Displacements
    <3>3. SubSeq([i \in 1..Total |-> i - 1], Begin(r) + 1, Begin(r) + sendcounts(r))
            = [i \in 1..sendcounts(r) |-> Begin(r) + i - 1]
      BY <1>1, BlockIs, BlocksWithin DEF SizeOK
    <3> QED
      BY <1>0, <2>3, <2>5, <3>1, <3>2, <3>3 DEF Obtained
  <2> QED
    BY <1>4, <2>2, <2>4, <2>5 DEF FromRoot
<1>5. CASE op \in ToRoot
  <2>0. op \in {"reduce", "gather"} /\ op \notin FromRoot
    BY <1>5 DEF ToRoot, FromRoot
  <2>1. CASE r # Root
    BY <1>0, <2>0, <2>1 DEF Result, Obtained
  <2>2. CASE r = Root
    <3>1. \A u \in Ranks : Offers(r)[u] = Brought(op, u)
      BY <1>2, <2>0, <1>5, <2>2 DEF Needed
    <3>2. CASE op = "reduce"
      <4>1. Reduced(Offers(r)) = (world * (world - 1)) \div 2
        BY <1>1, <3>1, <3>2, SumOfRanks DEF Brought
      <4> QED
        BY <1>0, <2>2, <3>2, <4>1 DEF Result, Obtained
    <3>3. CASE op = "gather"
      <4>1. Offers(r) = [u \in Ranks |-> Brought("gather", u)]
        BY <3>1, <3>3 DEF Offers
      <4>2. Result(r) = Gathered(Offers(r))
        BY <2>2, <3>3 DEF Result
      <4> QED
        BY <1>0, <2>2, <3>3, <4>1, <4>2 DEF Obtained
    <3> QED
      BY <2>0, <3>2, <3>3
  <2> QED
    BY <2>1, <2>2
<1>6. CASE op \in {"allgather", "split"}
  <2>1. \A u \in Ranks : Offers(r)[u] = Brought(op, u)
    BY <1>2, <1>6 DEF Needed, FromRoot, ToRoot
  <2>2. CASE op = "allgather"
    <3>1. Offers(r) = [u \in Ranks |-> Brought("allgather", u)]
      BY <2>1, <2>2 DEF Offers
    <3>2. Result(r) = Gathered(Offers(r))
      BY <2>2 DEF Result
    <3> QED
      BY <1>0, <2>2, <3>1, <3>2 DEF Obtained
  <2>3. CASE op = "split"
    <3>1. \A u \in Ranks : Offers(r)[u] = u % 3
      BY <2>1, <2>3 DEF Brought
    <3>2. Result(r) = Cardinality({u \in Ranks : u < r /\ Offers(r)[u] = Offers(r)[r]})
      BY <2>3 DEF Result
    <3>3. {u \in Ranks : u < r /\ Offers(r)[u] = Offers(r)[r]}
            = {u \in Ranks : u < r /\ u % 3 = r % 3}
      BY <3>1
    <3> QED
      BY <1>0, <2>3, <3>2, <3>3 DEF Obtained
  <2> QED
    BY <1>6, <2>2, <2>3
<1> QED
  BY <1>0, <1>4, <1>5, <1>6 DEF Collectives

LEMMA LeaveKeeps ==
  ASSUME CollInv, NEW r \in Ranks, NEW needed, Needed(r) \subseteq needed, LeaveAfter(r, needed)
  PROVE  CollInv'
<1>0. Doing(r, Collectives, "inside") /\ phase[r] = "inside"
  BY DEF LeaveAfter, Doing
<1>1. prog' = prog /\ world' = world /\ channel' = channel /\ requests' = requests
      /\ offered' = offered
  BY DEF LeaveAfter
<1>2. at[r] \in 1..Len(Script(r)) /\ at[r] \in Nat
  BY <1>0, CollPlace
<1>3. phase' = [phase EXCEPT ![r] = "enter"] /\ at' = [at EXCEPT ![r] = @ + 1]
  BY DEF LeaveAfter, GoOn
<1>4. InScript'
  <2>1. /\ at \in [Ranks -> Nat \ {0}] /\ phase \in [Ranks -> {"enter", "inside"}]
        /\ \A u \in Ranks : /\ at[u] <= Len(Script(u)) + 1
                            /\ phase[u] = "inside" => at[u] <= Len(Script(u))
    BY DEF CollInv, InScript
  <2>2. Ranks' = Ranks /\ \A u : Len(Script(u))' = Len(Script(u))
    BY <1>1, CollSame
  <2>3. Len(Script(r)) \in Nat
    BY CollOps DEF CollInv
  <2> QED
    BY <1>2, <1>3, <2>1, <2>2, <2>3 DEF InScript
<1>5. Result(r) = AllObtained(r)[at[r]]
  <2>1. \A u \in Needed(r) : HasEntered(u, r)
    BY DEF LeaveAfter
  <2> QED
    BY <1>0, <2>1, ResultIs
<1>6. ASSUME NEW u \in Ranks
      PROVE  got'[u] = [j \in 1..at'[u] - 1 |-> AllObtained(u)'[j]]
  <2>0. got[u] = [j \in 1..at[u] - 1 |-> AllObtained(u)[j]] /\ AllObtained(u)' = AllObtained(u)
    BY <1>1, CollSame DEF CollInv, Exchanged
  <2>1. CASE u # r
    <3>1. got'[u] = got[u] /\ at'[u] = at[u]
      BY <1>3, <2>1 DEF LeaveAfter, Get, CollInv, Exchanged, InScript
    <3> QED
      BY <2>0, <3>1
  <2>2. CASE u = r
    <3>1. at'[r] = at[r] + 1
      BY <1>3 DEF CollInv, InScript
    <3>2. got'[r] = Append(got[r], AllObtained(r)[at[r]])
      BY <1>5 DEF LeaveAfter, Get, CollInv, Exchanged
    <3> DEFINE n == at[r] - 1
    <3>3. n \in Nat /\ n + 1 = at[r] /\ at'[r] - 1 = n + 1
      BY <1>2, <3>1
    <3>4. got[r] = [j \in 1..n |-> AllObtained(r)[j]]
      BY <2>0, <2>2
    <3> HIDE DEF n
    <3>5. got'[r] = [j \in 1..n + 1 |-> AllObtained(r)[j]]
      BY <3>2, <3>3, <3>4, AppendNext
    <3> QED
      BY <2>0, <2>2, <3>3, <3>5
  <2> QED
    BY <2>1, <2>2
<1>7. got' = [u \in Ranks |-> got'[u]]
  BY DEF LeaveAfter, Get, CollInv, Exchanged
<1>8. \A u \in Ranks : Entered(u)' = Entered(u)
  BY <1>0, <1>2, <1>3 DEF Entered, CollInv, InScript
<1>9. Exchanged'
  <2>1. got' = [u \in Ranks' |-> [j \in 1..at'[u] - 1 |-> AllObtained(u)'[j]]]
    BY <1>1, <1>6, <1>7, CollSame
  <2>2. offered' = [u \in Ranks' |-> [j \in 1..Entered(u)' |-> AllBrought(u)'[j]]]
    BY <1>1, <1>8, CollSame DEF CollInv, Exchanged
  <2> QED
    BY <2>1, <2>2 DEF Exchanged
<1> QED
  BY <1>1, <1>4, <1>9, CollSame DEF CollInv, Quiet

LEMMA CollInit == Init /\ prog \in CollPrograms => CollInv
<1> SUFFICES ASSUME Init, prog \in CollPrograms PROVE CollInv
  OBVIOUS
<1>1. \A r : Len(Script(r)) \in {1, 2}
  BY CollOps
<1>2. InScript
  BY <1>1 DEF Init, InScript
<1>3. \A r \in Ranks : Entered(r) = 0 /\ at[r] = 1
  BY DEF Init, Entered
<1>4. got = [r \in Ranks |-> [j \in 1..at[r] - 1 |-> AllObtained(r)[j]]]
  BY <1>3 DEF Init
<1>5. offered = [r \in Ranks |-> [j \in 1..Entered(r) |-> AllBrought(r)[j]]]
  BY <1>3 DEF Init
<1> QED
  BY <1>2, <1>4, <1>5, SizeFacts DEF CollInv, Exchanged, Quiet, Init

LEMMA CollNext == CollInv /\ [Next]_vars => CollInv'
<1> SUFFICES ASSUME CollInv, [Next]_vars PROVE CollInv'
  OBVIOUS
<1>1. CASE UNCHANGED vars
  <2>1. /\ prog' = prog /\ world' = world /\ at' = at /\ phase' = phase
        /\ channel' = channel /\ requests' = requests /\ got' = got /\ offered' = offered
    BY <1>1 DEF vars
  <2>2. \A r : Entered(r)' = Entered(r)
    BY <2>1 DEF Entered
  <2>3. Exchanged'
    <3>1. got' = [u \in Ranks' |-> [j \in 1..at'[u] - 1 |-> AllObtained(u)'[j]]]
      BY <2>1, CollSame DEF CollInv, Exchanged
    <3>2. offered' = [u \in Ranks' |-> [j \in 1..Entered(u)' |-> AllBrought(u)'[j]]]
      BY <2>1, <2>2, CollSame DEF CollInv, Exchanged
    <3> QED
      BY <3>1, <3>2 DEF Exchanged
  <2>4. InScript'
    BY <2>1, CollSame DEF CollInv, InScript
  <2> QED
    BY <2>1, <2>3, <2>4, CollSame DEF CollInv, Quiet
<1>2. CASE \E r \in Ranks : Act(r) \/ ReturnsBuffered(r) \/ LeaveEarly(r)
  BY <1>2, CollActs, EnterKeeps, LeaveKeeps
<1> QED
  BY <1>1, <1>2 DEF Next, Ended

-----------------------------------------------------------------------------
(* The collected data.                                                     *)

\* The i-th of the blocks has length c[i], and the next one begins where it ends.
Blocks(d, c, n) == /\ d \in [0..n -> Nat] /\ c \in [1..n -> Nat]
                   /\ d[0] = 0
                   /\ \A i \in 1..n : d[i] = d[i - 1] + c[i]

\* The blocks of an array f, and the array up to place m.
BlocksOf(f, d, c, n) == [u \in 1..n |-> [i \in 1..c[u] |-> f[d[u - 1] + i]]]
UpTo(f, m) == [k \in 1..m |-> f[k]]

\* What an array's blocks make up is the array.
LEMMA BlocksMakeUp ==
  ASSUME NEW n \in Nat \ {0}, NEW d, NEW c, Blocks(d, c, n), NEW f
  PROVE  FlattenSeq(BlocksOf(f, d, c, n)) = UpTo(f, d[n])
<1> DEFINE seqs == [u \in 1..n |-> [i \in 1..c[u] |-> f[d[u - 1] + i]]]
           V == {f[k] : k \in Nat}
           whole == [k \in 1..d[n] |-> f[k]]
<1>1. ASSUME NEW u \in 1..n
      PROVE  c[u] \in Nat /\ d[u - 1] \in Nat /\ d[u] \in Nat
  BY DEF Blocks
<1>2. ASSUME NEW u \in 1..n
      PROVE  /\ seqs[u] = [i \in 1..c[u] |-> f[d[u - 1] + i]]
             /\ seqs[u] \in Seq(V) /\ Len(seqs[u]) = c[u]
  <2>1. seqs[u] = [i \in 1..c[u] |-> f[d[u - 1] + i]]
    OBVIOUS
  <2>2. \A i \in 1..c[u] : f[d[u - 1] + i] \in V
    BY <1>1
  <2> HIDE DEF V
  <2>3. c[u] \in Nat
    BY <1>1
  <2>4. seqs[u] \in [1..c[u] -> V]
    BY <2>1, <2>2
  <2>5. seqs[u] \in Seq(V)
    BY <2>3, <2>4, SeqDef, Zenon
  <2>6. Len(seqs[u]) = c[u]
    BY <2>3, <2>4
  <2> QED
    BY <2>1, <2>5, <2>6
<1>21. seqs \in [1..n -> Seq(V)]
  BY <1>2
<1> HIDE DEF V, seqs
<1>3. EndAt(d, V, seqs, n)
  <2>1. seqs \in [1..n -> Seq(V)]
    BY <1>21
  <2>2. \A i \in 1..n : d[i] = d[i - 1] + Len(seqs[i])
    BY <1>2, Zenon DEF Blocks
  <2>3. d \in [0..n -> Nat] /\ d[0] = 0
    BY DEF Blocks
  <2> QED
    BY <2>1, <2>2, <2>3, Zenon DEF EndAt
<1>4. \A i \in 1..n : d[i] <= d[n] /\ d[i] = d[i - 1] + c[i]
  BY <1>3, Flattened, Zenon DEF Joined, Blocks
<1>5. PartsOf(whole, seqs, d, n)
  <2> SUFFICES ASSUME NEW i \in 1..n, NEW j \in 1..Len(seqs[i])
               PROVE  seqs[i][j] = whole[d[i - 1] + j]
    BY DEF PartsOf
  <2>1. /\ d[i] \in Nat /\ d[i - 1] \in Nat /\ c[i] \in Nat
        /\ j \in 1..c[i] /\ d[i] <= d[n] /\ d[i] = d[i - 1] + c[i]
    BY <1>1, <1>2, <1>4, Zenon
  <2>0. n \in 1..n
    OBVIOUS
  <2>4. d[n] \in Nat
    BY <1>1, <2>0
  <2>2. d[i - 1] + j \in 1..d[n]
    BY <2>1, <2>4
  <2>3. seqs[i][j] = f[d[i - 1] + j]
    BY <1>2, <2>1
  <2> QED
    BY <2>2, <2>3
<1>6. whole = [k \in 1..d[n] |-> whole[k]]
  OBVIOUS
<1> HIDE DEF whole
<1>7. FlattenSeq(seqs) = whole
  BY <1>3, <1>5, <1>6, MakesUp
<1> QED
  BY <1>7 DEF whole, seqs, BlocksOf, UpTo

\* The even distribution.
EvenEnds == [i \in 0..world |-> Share * i]
EvenSizes == [i \in 1..world |-> Share]

LEMMA EvenBlocks ==
  ASSUME SizeOK
  PROVE  Blocks(EvenEnds, EvenSizes, world) /\ EvenEnds[world] = world * Share
<1>1. Share \in Nat /\ world \in Nat
  BY ShareFacts DEF SizeOK
<1>2. ASSUME NEW i \in 0..world PROVE Share * i \in Nat
  BY <1>1
<1>3. ASSUME NEW i \in 1..world PROVE Share * i = Share * (i - 1) + Share
  BY <1>1
<1>4. Share * 0 = 0 /\ Share * world = world * Share
  BY <1>1
<1>5. \A i \in 1..world : i \in 0..world /\ i - 1 \in 0..world
  BY <1>1
<1>6. 0 \in 0..world /\ world \in 0..world
  BY <1>1
<1>7. \A i \in 1..world : EvenEnds[i] = EvenEnds[i - 1] + EvenSizes[i]
  <2> SUFFICES ASSUME NEW i \in 1..world
               PROVE  EvenEnds[i] = EvenEnds[i - 1] + EvenSizes[i]
    OBVIOUS
  <2>1. EvenEnds[i] = Share * i /\ EvenEnds[i - 1] = Share * (i - 1) /\ EvenSizes[i] = Share
    BY <1>5 DEF EvenEnds, EvenSizes
  <2> QED
    BY <1>3, <2>1
<1>8. EvenEnds \in [0..world -> Nat] /\ EvenSizes \in [1..world -> Nat]
  BY <1>1, <1>2 DEF EvenEnds, EvenSizes
<1>9. EvenEnds[0] = 0 /\ EvenEnds[world] = world * Share
  BY <1>4, <1>6 DEF EvenEnds
<1> QED
  BY <1>7, <1>8, <1>9 DEF Blocks

\* The distribution with remainder.
FairEnds == [i \in 0..world |-> Begin(i)]
FairSizes == [i \in 1..world |-> sendcounts(i - 1)]

LEMMA FairBlocks ==
  ASSUME SizeOK
  PROVE  Blocks(FairEnds, FairSizes, world) /\ FairEnds[world] = Total
<1>1. world \in Nat \ {0}
  BY DEF SizeOK
<1>2. /\ Begin(0) = 0 /\ Begin(world) = Total
      /\ \A i \in Nat : Begin(i) \in Nat /\ sendcounts(i) \in Nat
      /\ \A i \in Nat \ {0} : Begin(i) = Begin(i - 1) + sendcounts(i - 1)
  BY BeginFacts
<1>3. FairEnds \in [0..world -> Nat]
  BY <1>2 DEF FairEnds
<1>4. FairSizes \in [1..world -> Nat]
  <2>1. \A i \in 1..world : i - 1 \in Nat
    BY <1>1
  <2> QED
    BY <1>2, <2>1 DEF FairSizes
<1>5. FairEnds[0] = 0 /\ FairEnds[world] = Total
  BY <1>1, <1>2 DEF FairEnds
<1>6. ASSUME NEW i \in 1..world PROVE FairEnds[i] = FairEnds[i - 1] + FairSizes[i]
  <2>1. i \in 0..world /\ i - 1 \in 0..world /\ i \in Nat \ {0}
    BY <1>1
  <2>2. Begin(i) = Begin(i - 1) + sendcounts(i - 1)
    BY <1>2, <2>1
  <2> QED
    BY <2>1, <2>2 DEF FairEnds, FairSizes
<1> QED
  BY <1>3, <1>4, <1>5, <1>6 DEF Blocks

LEMMA GotAll ==
  ASSUME CollInv, AllDone, NEW r \in Ranks, NEW j \in 1..Len(Script(r))
  PROVE  got[r][j] = Obtained(Script(r)[j].op, r)
<1>1. at[r] = Len(Script(r)) + 1
  BY CollOps DEF CollInv, InScript, AllDone, Finished
<1>2. got[r] = [k \in 1..at[r] - 1 |-> AllObtained(r)[k]]
  BY DEF CollInv, Exchanged
<1>3. j \in 1..at[r] - 1
  BY <1>1, CollOps DEF CollInv
<1>4. got[r][j] = AllObtained(r)[j]
  BY <1>2, <1>3
<1> QED
  BY <1>4 DEF AllObtained

\* What the ranks get from a scatter is the root's array, without what an even
\* distribution leaves over.
LEMMA ScatteredAll ==
  ASSUME SizeOK, \A r \in Ranks : got[r][1] = Obtained("scatter", r)
  PROVE  AllTogether(1) = Array(world * Share)
<1> DEFINE seqs == [u \in 1..world |-> got[u - 1][1]]
           f == [k \in Nat |-> k - 1]
           blocks == BlocksOf(f, EvenEnds, EvenSizes, world)
<1>1. Share \in Nat /\ world \in Nat \ {0}
  BY ShareFacts DEF SizeOK
<1>2. ASSUME NEW u \in 1..world
      PROVE  got[u - 1][1] = [i \in 1..EvenSizes[u] |-> f[EvenEnds[u - 1] + i]]
  <2>1. u - 1 \in Ranks /\ u - 1 \in 0..world
    BY <1>1 DEF Ranks
  <2>2. got[u - 1][1] = [i \in 1..Share |-> Share * (u - 1) + i - 1]
    BY <2>1 DEF Obtained
  <2>3. EvenSizes[u] = Share /\ EvenEnds[u - 1] = Share * (u - 1)
    BY <2>1 DEF EvenSizes, EvenEnds
  <2>4. Share * (u - 1) \in Nat
    BY <1>1
  <2>5. ASSUME NEW i \in 1..Share
        PROVE  f[Share * (u - 1) + i] = Share * (u - 1) + i - 1
    BY <2>4
  <2> HIDE DEF f
  <2> QED
    BY <2>2, <2>3, <2>5
<1>3. seqs = blocks
  BY <1>2 DEF BlocksOf
<1>4. FlattenSeq(blocks) = UpTo(f, world * Share)
  <2> HIDE DEF f
  <2> QED
    BY <1>1, EvenBlocks, BlocksMakeUp
<1>5. UpTo(f, world * Share) = Array(world * Share)
  BY <1>1 DEF Array, UpTo
<1>6. AllTogether(1) = FlattenSeq(seqs)
  BY DEF AllTogether
<1> QED
  BY <1>3, <1>4, <1>5, <1>6

\* With the remainder, it is all of the array.
LEMMA ScattervedAll ==
  ASSUME SizeOK, \A r \in Ranks : got[r][1] = Obtained("scatterv", r)
  PROVE  AllTogether(1) = Array(Total)
<1> DEFINE seqs == [u \in 1..world |-> got[u - 1][1]]
           f == [k \in Nat |-> k - 1]
           blocks == BlocksOf(f, FairEnds, FairSizes, world)
<1>1. world \in Nat \ {0} /\ Total \in Nat
  BY DEF SizeOK
<1>2. ASSUME NEW u \in 1..world
      PROVE  got[u - 1][1] = [i \in 1..FairSizes[u] |-> f[FairEnds[u - 1] + i]]
  <2>1. u - 1 \in Ranks /\ u - 1 \in 0..world /\ u - 1 \in Nat
    BY <1>1 DEF Ranks
  <2>2. got[u - 1][1] = [i \in 1..sendcounts(u - 1) |-> Begin(u - 1) + i - 1]
    BY <2>1 DEF Obtained
  <2>3. FairSizes[u] = sendcounts(u - 1) /\ FairEnds[u - 1] = Begin(u - 1)
    BY <2>1 DEF FairSizes, FairEnds
  <2>4. Begin(u - 1) \in Nat /\ sendcounts(u - 1) \in Nat
    BY <2>1, BeginFacts
  <2>5. ASSUME NEW i \in 1..sendcounts(u - 1)
        PROVE  f[Begin(u - 1) + i] = Begin(u - 1) + i - 1
    BY <2>4
  <2> HIDE DEF f
  <2> QED
    BY <2>2, <2>3, <2>5
<1>3. seqs = blocks
  BY <1>2 DEF BlocksOf
<1>4. FlattenSeq(blocks) = UpTo(f, Total)
  <2> HIDE DEF f
  <2> QED
    BY <1>1, FairBlocks, BlocksMakeUp
<1>5. UpTo(f, Total) = Array(Total)
  BY <1>1 DEF Array, UpTo
<1>6. AllTogether(1) = FlattenSeq(seqs)
  BY DEF AllTogether
<1> QED
  BY <1>3, <1>4, <1>5, <1>6

\* The squares that the root gathers.
LEMMA GatheredSquares ==
  ASSUME SizeOK
  PROVE  Gathered([u \in Ranks |-> Brought("gather", u)])
           = [i \in 1..Total |-> IF i <= world * Share THEN (i - 1) * (i - 1) ELSE Unset]
<1> DEFINE parts == [u \in Ranks |-> Brought("gather", u)]
           seqs == [u \in 1..world |-> parts[u - 1]]
           f == [k \in Nat |-> (k - 1) * (k - 1)]
           blocks == BlocksOf(f, EvenEnds, EvenSizes, world)
<1>1. Share \in Nat /\ world \in Nat \ {0} /\ world * Share \in Nat
  BY ShareFacts DEF SizeOK
<1>2. ASSUME NEW u \in 1..world
      PROVE  parts[u - 1] = [i \in 1..EvenSizes[u] |-> f[EvenEnds[u - 1] + i]]
  <2>1. u - 1 \in Ranks /\ u - 1 \in 0..world
    BY <1>1 DEF Ranks
  <2> DEFINE b == Share * (u - 1)
  <2>2. parts[u - 1] = [i \in 1..Share |-> (b + i - 1) * (b + i - 1)]
    BY <2>1 DEF Brought
  <2>3. EvenSizes[u] = Share /\ EvenEnds[u - 1] = b
    BY <2>1 DEF EvenSizes, EvenEnds
  <2>4. b \in Nat
    BY <1>1
  <2> HIDE DEF b, parts
  <2>5. ASSUME NEW i \in 1..Share
        PROVE  f[b + i] = (b + i - 1) * (b + i - 1)
    BY <2>4
  <2> HIDE DEF f
  <2> QED
    BY <2>2, <2>3, <2>5
<1> HIDE DEF parts
<1>3. seqs = blocks
  BY <1>2 DEF BlocksOf
<1> DEFINE all == FlattenSeq(seqs)
<1>4. all = [k \in 1..world * Share |-> f[k]]
  <2>1. FlattenSeq(blocks) = UpTo(f, world * Share)
    <3> HIDE DEF f
    <3> QED
      BY <1>1, EvenBlocks, BlocksMakeUp
  <2> QED
    BY <1>3, <2>1 DEF UpTo
<1>5. Gathered(parts) = [i \in 1..Total |-> IF i <= Len(all) THEN all[i] ELSE Unset]
  BY DEF Gathered
<1> HIDE DEF all
<1>6. Len(all) = world * Share
  <2> HIDE DEF f
  <2> QED
    BY <1>1, <1>4
<1>7. ASSUME NEW i \in 1..Total, i <= world * Share PROVE all[i] = (i - 1) * (i - 1)
  <2>1. Total \in Nat
    BY DEF SizeOK
  <2>2. i \in 1..world * Share /\ i \in Nat
    BY <1>1, <1>7, <2>1
  <2>3. all[i] = f[i]
    <3> HIDE DEF f
    <3> QED
      BY <1>4, <2>2
  <2> QED
    BY <2>2, <2>3
<1>8. Gathered(parts) = [i \in 1..Total |-> IF i <= world * Share THEN (i - 1) * (i - 1)
                                           ELSE Unset]
  BY <1>5, <1>6, <1>7
<1> QED
  BY <1>8 DEF parts

\* What every rank gets from all ranks.
LEMMA GatheredByAll ==
  ASSUME SizeOK, NEW u \in Ranks, NEW i \in 1..Share
  PROVE  Gathered([v \in Ranks |-> Brought("allgather", v)])[u * Share + i] = u + i - 1
<1> DEFINE parts == [v \in Ranks |-> Brought("allgather", v)]
           seqs == [v \in 1..world |-> parts[v - 1]]
           all == FlattenSeq(seqs)
<1>1. Share \in Nat /\ world \in Nat \ {0} /\ u \in Nat /\ u + 1 \in 1..world
  BY ShareFacts DEF SizeOK, Ranks
<1>2. ASSUME NEW v \in 1..world
      PROVE  parts[v - 1] = [j \in 1..Share |-> (v - 1) + j - 1]
  <2>1. v - 1 \in Ranks
    BY <1>1 DEF Ranks
  <2> QED
    BY <2>1 DEF Brought
<1> HIDE DEF parts
<1>3. ASSUME NEW v \in 1..world
      PROVE  seqs[v] \in Seq(Int) /\ Len(seqs[v]) = Share
  <2>1. seqs[v] = [j \in 1..Share |-> (v - 1) + j - 1]
    BY <1>2
  <2>2. seqs[v] \in [1..Share -> Int]
    BY <1>1, <2>1
  <2> HIDE DEF seqs
  <2>3. seqs[v] \in Seq(Int)
    BY <1>1, <2>2, SeqDef, Zenon
  <2> QED
    BY <1>1, <2>2, <2>3
<1>4. seqs \in [1..world -> Seq(Int)]
  BY <1>3
<1> PICK w \in 1..world : w = u + 1
  BY <1>1
<1>5. seqs[w] = [j \in 1..Share |-> u + j - 1]
  <2>1. w - 1 = u
    BY <1>1
  <2>2. seqs[w] = parts[w - 1]
    OBVIOUS
  <2>3. parts[w - 1] = [j \in 1..Share |-> (w - 1) + j - 1]
    BY <1>2
  <2> QED
    BY <2>1, <2>2, <2>3
<1> HIDE DEF seqs
<1>6. Blocks(EvenEnds, EvenSizes, world) /\ EvenEnds[world] = world * Share
  BY EvenBlocks
<1>7. EndAt(EvenEnds, Int, seqs, world)
  <2>1. \A v \in 1..world : EvenEnds[v] = EvenEnds[v - 1] + Len(seqs[v])
    <3>1. \A v \in 1..world : EvenSizes[v] = Share
      BY DEF EvenSizes
    <3> QED
      BY <1>3, <1>6, <3>1, Zenon DEF Blocks
  <2>2. EvenEnds \in [0..world -> Nat] /\ EvenEnds[0] = 0
    BY <1>6 DEF Blocks
  <2> QED
    BY <1>4, <2>1, <2>2, Zenon DEF EndAt
<1>8. Joined(all, Int, seqs, EvenEnds, world)
  BY <1>1, <1>7, Flattened
<1>9. all[EvenEnds[w - 1] + i] = seqs[w][i]
  <2>1. i \in 1..Len(seqs[w])
    BY <1>3
  <2>2. \A v \in 1..world : \A j \in 1..Len(seqs[v]) :
          all[EvenEnds[v - 1] + j] = seqs[v][j]
    BY <1>8 DEF Joined
  <2> HIDE DEF all
  <2> QED
    BY <2>1, <2>2
<1>10. Len(all) = world * Share
  BY <1>6, <1>8 DEF Joined
<1>11. EvenEnds[w - 1] = u * Share
  <2>1. w - 1 = u /\ u \in 0..world /\ Share * u = u * Share
    BY <1>1
  <2> QED
    BY <2>1 DEF EvenEnds
<1>12. all[u * Share + i] = u + i - 1
  BY <1>5, <1>9, <1>11
<1>13. u * Share + i \in 1..Total /\ u * Share + i <= world * Share
  <2>1. Share * u + Share <= Total /\ Share * u \in Nat /\ Total \in Nat
    BY BlocksWithin DEF SizeOK
  <2>2. Share * (u + 1) <= Share * world /\ Share * (u + 1) = Share * u + Share
    BY <1>1
  <2>3. Share * world = world * Share /\ Share * u = u * Share /\ world * Share \in Nat
    BY <1>1
  <2> HIDE DEF all
  <2> QED
    BY <1>1, <2>1, <2>2, <2>3
<1>14. Gathered(parts) = [k \in 1..Total |-> IF k <= Len(all) THEN all[k] ELSE Unset]
  BY DEF Gathered, seqs
<1> HIDE DEF all
<1>15. Gathered(parts)[u * Share + i] = u + i - 1
  BY <1>10, <1>12, <1>13, <1>14
<1> QED
  BY <1>15 DEF parts

\* In its part of a split communicator, no two ranks get the same number.
LEMMA SplitDiffers ==
  ASSUME SizeOK, NEW r \in Ranks, NEW u \in Ranks, u < r, u % 3 = r % 3
  PROVE  Obtained("split", u) # Obtained("split", r)
<1> DEFINE below(q) == {v \in Ranks : v < q /\ v % 3 = q % 3}
<1>1. world \in Nat /\ \A q \in Ranks : q \in Nat
  BY DEF SizeOK, Ranks
<1>2. IsFiniteSet(Ranks)
  BY <1>1, FS_Interval DEF Ranks
<1>3. below(u) \subseteq below(r) /\ u \in below(r) /\ u \notin below(u)
  BY <1>1
<1>4. IsFiniteSet(below(r)) /\ below(u) # below(r)
  BY <1>2, <1>3, FS_Subset
<1>5. Cardinality(below(u)) # Cardinality(below(r))
  <2> HIDE DEF below
  <2> QED
    BY <1>3, <1>4, FS_Subset
<1> QED
  BY <1>5 DEF Obtained

(* When all ranks are done with a program of collectives, they have what   *)
(* Collected says.                                                         *)
LEMMA CollCollected == CollInv => Collected
<1> SUFFICES ASSUME CollInv, AllDone PROVE Collected
  BY DEF Collected
<1>1. SizeOK /\ Quiet /\ prog \in CollPrograms
  BY DEF CollInv
<1>2. ASSUME NEW r \in Ranks, NEW op, Script(r) = <<Simple(op)>>
      PROVE  got[r][1] = Obtained(op, r)
  <2>1. Len(Script(r)) = 1 /\ Script(r)[1].op = op
    BY <1>2 DEF Simple
  <2> QED
    BY <2>1, GotAll
<1>3. ASSUME NEW r \in Ranks, NEW op, NEW next, Script(r) = <<Simple(op), Simple(next)>>
      PROVE  got[r][1] = Obtained(op, r) /\ got[r][2] = Obtained(next, r)
  <2>1. Len(Script(r)) = 2 /\ Script(r)[1].op = op /\ Script(r)[2].op = next
    BY <1>3 DEF Simple
  <2> QED
    BY <2>1, GotAll
<1>4. Root \in Ranks
  BY <1>1 DEF SizeOK, Ranks, Root
<1>5. ASSUME prog = "Bcast_Reduce"
      PROVE  /\ \A r \in Ranks : got[r][1] = 1000
             /\ got[Root][2] = (world * (world - 1)) \div 2
  <2>1. \A r \in Ranks : /\ got[r][1] = Obtained("bcast", r)
                         /\ got[r][2] = Obtained("reduce", r)
    BY <1>1, <1>3, <1>5, CollScripts
  <2> QED
    BY <1>4, <2>1 DEF Obtained
<1>6. ASSUME prog \in {"Scatter", "ScatterAndGather"}
      PROVE  AllTogether(1) = Array(world * Share)
  <2>1. \A r \in Ranks : got[r][1] = Obtained("scatter", r)
    BY <1>1, <1>2, <1>3, <1>6, CollScripts
  <2> QED
    BY <1>1, <2>1, ScatteredAll
<1>7. ASSUME prog = "Scatterv" PROVE AllTogether(1) = Array(Total)
  <2>1. \A r \in Ranks : got[r][1] = Obtained("scatterv", r)
    BY <1>1, <1>2, <1>7, CollScripts
  <2> QED
    BY <1>1, <2>1, ScattervedAll
<1>8. ASSUME prog = "ScatterAndGather"
      PROVE  got[Root][2] = [i \in 1..Total |-> IF i <= world * Share THEN (i - 1) * (i - 1)
                                                ELSE Unset]
  <2>1. got[Root][2] = Obtained("gather", Root)
    BY <1>1, <1>3, <1>4, <1>8, CollScripts
  <2> QED
    BY <1>1, <2>1, GatheredSquares DEF Obtained
<1>9. ASSUME prog = "ALLGather", NEW r \in Ranks, NEW u \in Ranks, NEW i \in 1..Share
      PROVE  got[r][1][u * Share + i] = u + i - 1
  <2>1. got[r][1] = Obtained("allgather", r)
    BY <1>1, <1>2, <1>9, CollScripts
  <2> QED
    BY <1>1, <2>1, GatheredByAll DEF Obtained
<1>10. ASSUME prog = "NewCommunicator", NEW r \in Ranks, NEW u \in Ranks, u < r, u % 3 = r % 3
       PROVE  got[u] # got[r]
  <2>1. got[r][1] = Obtained("split", r) /\ got[u][1] = Obtained("split", u)
    BY <1>1, <1>2, <1>10, CollScripts
  <2> QED
    BY <1>1, <1>10, <2>1, SplitDiffers
<1>11. prog \notin {"BlockingSendRecv", "SendRecv", "IrecvIsend"}
  BY <1>1 DEF CollPrograms
<1> QED
  BY <1>1, <1>5, <1>6, <1>7, <1>8, <1>9, <1>10, <1>11 DEF Collected, Quiet

-----------------------------------------------------------------------------
(* Messages.                                                               *)

\* The first message with a tag, when it is the first of all.
LEMMA FirstWithTag ==
  ASSUME NEW sent, NEW tag, Len(sent) \in Nat, FirstWith(tag, sent) # 0
  PROVE  /\ Len(sent) # 0
         /\ sent[1].tag = tag => FirstWith(tag, sent) = 1
<1> DEFINE I == {i \in 1..Len(sent) : sent[i].tag = tag}
<1>1. FirstWith(tag, sent) = IF I # {} THEN Min(I) ELSE 0
  BY DEF FirstWith, SelectInSeq
<1>2. Len(sent) # 0
  BY <1>1
<1>3. ASSUME sent[1].tag = tag PROVE Min(I) = 1
  <2>1. 1 \in I /\ \A i \in I : 1 <= i /\ i \in Nat
    BY <1>2, <1>3
  <2> HIDE DEF I
  <2>2. Min(I) \in I /\ Min(I) <= 1
    BY <2>1 DEF Min
  <2> QED
    BY <2>1, <2>2
<1>4. sent[1].tag = tag => I # {}
  BY <1>2
<1> QED
  BY <1>1, <1>2, <1>3, <1>4

\* The messages f[a], ..., f[b], in order, and what is left without the first.
Messages(f, a, b) == [i \in 1..b - a + 1 |-> f[a + i - 1]]

LEMMA MessagesAll ==
  ASSUME NEW f, NEW a \in Nat, NEW b \in Nat, a <= b + 1
  PROVE  /\ Len(Messages(f, a, b)) = b - a + 1
         /\ a = b + 1 => Messages(f, a, b) = <<>>
         /\ a <= b => /\ Messages(f, a, b)[1] = f[a]
                      /\ RemoveAt(Messages(f, a, b), 1) = Messages(f, a + 1, b)
         /\ Append(Messages(f, a, b), f[b + 1]) = Messages(f, a, b + 1)
<1> DEFINE n == b - a + 1
           s == Messages(f, a, b)
           V == {f[k] : k \in a..b}
<1>1. n \in Nat /\ s = [i \in 1..n |-> f[a + i - 1]]
  BY DEF Messages
<1>2. Len(s) = n /\ (n # 0 <=> a <= b) /\ (n = 0 <=> a = b + 1)
  BY <1>1
<1>3. ASSUME a = b + 1 PROVE s = <<>>
  <2>1. n = 0
    BY <1>3
  <2> QED
    BY <1>1, <2>1
<1>4. ASSUME NEW i \in 1..n PROVE f[a + i - 1] \in V
  BY <1>1
<1>5. s \in [1..n -> V]
  <2> HIDE DEF V, n, s
  <2> QED
    BY <1>1, <1>4
<1>6. s \in Seq(V)
  BY <1>1, <1>5, SeqDef, Zenon
<1>7. ASSUME a <= b
      PROVE  s[1] = f[a] /\ RemoveAt(s, 1) = Messages(f, a + 1, b)
  <2>1. s[1] = f[a]
    BY <1>1, <1>7
  <2>2. RemoveAt(s, 1) = SubSeq(s, 1, 0) \o SubSeq(s, 2, Len(s))
    BY DEF RemoveAt
  <2> DEFINE front == SubSeq(s, 1, 0)
             rest == SubSeq(s, 2, n)
  <2>3. front \in Seq(V) /\ Len(front) = 0
    <3> HIDE DEF s, V, n
    <3>1. \A i \in 1..0 : s[i] \in V
      OBVIOUS
    <3> QED
      BY <3>1, SubSeqProperties
  <2>4. rest \in Seq(V) /\ Len(rest) = n - 1 /\ \A i \in 1..n - 1 : rest[i] = s[i + 1]
    <3>1. n \in Nat /\ n # 0
      BY <1>2, <1>7
    <3> HIDE DEF s, V, n
    <3>2. \A i \in 2..n : s[i] \in V
      BY <1>5, <3>1
    <3>3. /\ rest \in Seq(V) /\ Len(rest) = IF 2 <= n THEN n - 2 + 1 ELSE 0
          /\ \A i \in 1..n - 2 + 1 : rest[i] = s[2 + i - 1]
      BY <3>1, <3>2, SubSeqProperties
    <3> QED
      BY <3>1, <3>3
  <2>5. front \o rest = rest
    <3> HIDE DEF front, rest, V
    <3>1. front = <<>>
      BY <2>3
    <3> QED
      BY <2>4, <3>1
  <2>6. RemoveAt(s, 1) = rest
    BY <1>2, <2>2, <2>5
  <2>7. rest = [i \in 1..n - 1 |-> rest[i]]
    <3> HIDE DEF rest, V, s
    <3> QED
      BY <1>1, <2>4
  <2>8. ASSUME NEW i \in 1..n - 1 PROVE rest[i] = f[a + 1 + i - 1]
    <3>1. rest[i] = s[i + 1]
      BY <2>4
    <3>2. s[i + 1] = f[a + (i + 1) - 1] /\ a + (i + 1) - 1 = a + 1 + i - 1
      BY <1>1
    <3> QED
      BY <3>1, <3>2
  <2>9. Messages(f, a + 1, b) = [i \in 1..n - 1 |-> f[a + 1 + i - 1]]
    <3>1. b - (a + 1) + 1 = n - 1
      OBVIOUS
    <3> QED
      BY <3>1 DEF Messages
  <2> HIDE DEF rest, n, s
  <2>10. rest = [i \in 1..n - 1 |-> f[a + 1 + i - 1]]
    BY <2>7, <2>8
  <2> QED
    BY <2>1, <2>6, <2>9, <2>10
<1>8. Append(s, f[b + 1]) = Messages(f, a, b + 1)
  <2> DEFINE g == [i \in Nat |-> f[a + i - 1]]
  <2>1. s = [i \in 1..n |-> g[i]]
    BY <1>1
  <2>2. g[n + 1] = f[b + 1]
    <3>1. n + 1 \in Nat /\ a + (n + 1) - 1 = b + 1
      BY <1>1
    <3> QED
      BY <3>1
  <2>3. Append([i \in 1..n |-> g[i]], g[n + 1]) = [i \in 1..n + 1 |-> g[i]]
    <3> HIDE DEF g, n
    <3> QED
      BY <1>1, AppendNext
  <2>4. Messages(f, a, b + 1) = [i \in 1..n + 1 |-> g[i]]
    <3>1. (b + 1) - a + 1 = n + 1
      OBVIOUS
    <3> QED
      BY <1>1, <3>1 DEF Messages
  <2> HIDE DEF g, s
  <2> QED
    BY <2>1, <2>2, <2>3, <2>4
<1> QED
  BY <1>1, <1>2, <1>3, <1>7, <1>8

LEMMA MessagesFacts ==
  ASSUME NEW f, NEW a \in Nat, NEW b \in Nat, a <= b + 1
  PROVE  /\ Len(Messages(f, a, b)) \in Nat
         /\ Len(Messages(f, a, b)) # 0 <=> a <= b
         /\ a = b + 1 => Messages(f, a, b) = <<>>
         /\ a <= b => Messages(f, a, b)[1] = f[a]
<1>1. Len(Messages(f, a, b)) = b - a + 1
  BY MessagesAll, Zenon
<1>2. /\ a = b + 1 => Messages(f, a, b) = <<>>
      /\ a <= b => Messages(f, a, b)[1] = f[a]
  BY MessagesAll, Zenon
<1> QED
  BY <1>1, <1>2

LEMMA MessagesGrow ==
  ASSUME NEW f, NEW a \in Nat, NEW b \in Nat, a <= b + 1
  PROVE  Append(Messages(f, a, b), f[b + 1]) = Messages(f, a, b + 1)
BY MessagesAll, Zenon

LEMMA MessagesShrink ==
  ASSUME NEW f, NEW a \in Nat, NEW b \in Nat, a <= b
  PROVE  RemoveAt(Messages(f, a, b), 1) = Messages(f, a + 1, b)
<1>1. a <= b + 1
  OBVIOUS
<1> QED
  BY <1>1, MessagesAll, Zenon

\* What is taken from messages with different tags, one after another.
LEMMA FirstTaken ==
  ASSUME NEW f, NEW a \in Nat, NEW b \in Nat, a <= b + 1,
         NEW sent, sent = Messages(f, a, b), FirstWith(f[a].tag, sent) # 0
  PROVE  /\ a <= b
         /\ FirstWith(f[a].tag, sent) = 1
         /\ sent[1] = f[a]
         /\ RemoveAt(sent, 1) = Messages(f, a + 1, b)
<1>1. Len(sent) \in Nat /\ (Len(sent) # 0 <=> a <= b)
  BY MessagesFacts, Zenon
<1>2. Len(sent) # 0
  BY <1>1, FirstWithTag
<1>3. a <= b
  BY <1>1, <1>2
<1>4. sent[1] = f[a]
  BY <1>3, MessagesFacts, Zenon
<1> QED
  BY <1>1, <1>3, <1>4, FirstWithTag, MessagesShrink

-----------------------------------------------------------------------------
(* The programs in which rank 0 sends and the others receive.              *)

Letters == {"BlockingSendRecv", "SendRecv"}

\* How many of rank 0's first p messages go to rank r.
PostedTo(r, p) ==
  IF prog = "SendRecv"
  THEN IF r = 1 /\ p >= 1 THEN 1 ELSE 0
  ELSE CASE r = 1 -> IF p >= 3 THEN 2 ELSE IF p >= 1 THEN 1 ELSE 0
         [] r = 2 -> IF p >= 4 THEN 2 ELSE IF p >= 2 THEN 1 ELSE 0
         [] OTHER -> 0

Message(tag, data, id) == [tag |-> tag, data |-> data, id |-> id]

\* These messages.
MessagesTo(r) ==
  IF prog = "SendRecv" THEN <<Message(0, 7, 1)>>
  ELSE IF r = 1 THEN <<Message(0, 100, 1), Message(1, 7, 3)>>
  ELSE <<Message(0, 100, 2), Message(1, 7, 4)>>

\* The k-th operation of rank 0 sends the next of the messages to its peer.
LEMMA Senders ==
  ASSUME prog \in Letters
  PROVE  /\ Len(Script(0)) \in Nat
         /\ \A k \in 1..Len(Script(0)) :
              LET o == Script(0)[k]
              IN  /\ o.op = "send" /\ o.peer \in {1, 2}
                  /\ PostedTo(o.peer, k) = PostedTo(o.peer, k - 1) + 1
                  /\ MessagesTo(o.peer)[PostedTo(o.peer, k)] = Message(o.tag, o.data, k)
                  /\ \A r : r # o.peer => PostedTo(r, k) = PostedTo(r, k - 1)
<1>1. CASE prog = "SendRecv"
  <2>1. Script(0) = <<Send(1, 0, 7)>>
    BY <1>1 DEF Script, SendRecv
  <2>2. Len(Script(0)) = 1 /\ Script(0)[1] = Send(1, 0, 7)
    BY <2>1
  <2> QED
    BY <1>1, <2>2 DEF Send, PostedTo, MessagesTo, Message
<1>2. CASE prog = "BlockingSendRecv"
  <2>1. Script(0) = <<Send(1, 0, 100), Send(2, 0, 100), Send(1, 1, 7), Send(2, 1, 7)>>
    BY <1>2 DEF Script, BlockingSendRecv
  <2>2. /\ Len(Script(0)) = 4
        /\ Script(0)[1] = Send(1, 0, 100) /\ Script(0)[2] = Send(2, 0, 100)
        /\ Script(0)[3] = Send(1, 1, 7) /\ Script(0)[4] = Send(2, 1, 7)
    BY <2>1
  <2>3. prog # "SendRecv"
    BY <1>2
  <2>4. /\ MessagesTo(1) = <<Message(0, 100, 1), Message(1, 7, 3)>>
        /\ MessagesTo(2) = <<Message(0, 100, 2), Message(1, 7, 4)>>
    BY <2>3 DEF MessagesTo
  <2>5. \A p \in 0..4 : /\ PostedTo(1, p) = IF p >= 3 THEN 2 ELSE IF p >= 1 THEN 1 ELSE 0
                        /\ PostedTo(2, p) = IF p >= 4 THEN 2 ELSE IF p >= 2 THEN 1 ELSE 0
                        /\ \A r : r \notin {1, 2} => PostedTo(r, p) = 0
    BY <2>3 DEF PostedTo
  <2> QED
    BY <2>2, <2>4, <2>5 DEF Send, Message
<1> QED
  BY <1>1, <1>2 DEF Letters

\* The others receive the messages to them in order, and no others.
LEMMA Receivers ==
  ASSUME prog \in Letters, NEW r, r # 0
  PROVE  /\ Len(Script(r)) \in Nat
         /\ \A k \in 1..Len(Script(r)) :
              Script(r)[k].op = "recv" /\ Script(r)[k].peer = 0
              /\ Script(r)[k].tag = MessagesTo(r)[k].tag
         /\ \A p \in 0..Len(Script(0)) : PostedTo(r, p) \in 0..Len(Script(r))
         /\ PostedTo(r, 0) = 0 /\ PostedTo(r, Len(Script(0))) = Len(Script(r))
<1>1. CASE prog = "SendRecv"
  <2>1. Script(0) = <<Send(1, 0, 7)>> /\ Script(r) = IF r = 1 THEN <<Recv(0, 0)>> ELSE <<>>
    BY <1>1 DEF Script, SendRecv
  <2>2. Len(Script(0)) = 1
    BY <2>1
  <2>3. MessagesTo(r) = <<Message(0, 7, 1)>>
    BY <1>1 DEF MessagesTo
  <2>4. \A p : PostedTo(r, p) = IF r = 1 /\ p >= 1 THEN 1 ELSE 0
    BY <1>1 DEF PostedTo
  <2> QED
    BY <2>1, <2>2, <2>3, <2>4 DEF Recv, Message
<1>2. CASE prog = "BlockingSendRecv"
  <2>1. /\ Script(0) = <<Send(1, 0, 100), Send(2, 0, 100), Send(1, 1, 7), Send(2, 1, 7)>>
        /\ Script(r) = IF r \in {1, 2} THEN <<Recv(0, 0), Recv(0, 1)>> ELSE <<>>
    BY <1>2 DEF Script, BlockingSendRecv
  <2>2. Len(Script(0)) = 4
    BY <2>1
  <2>3. prog # "SendRecv"
    BY <1>2
  <2>4. MessagesTo(r)[1].tag = 0 /\ MessagesTo(r)[2].tag = 1
    BY <2>3 DEF MessagesTo, Message
  <2>5. CASE r \in {1, 2}
    <3>1. Len(Script(r)) = 2 /\ Script(r)[1] = Recv(0, 0) /\ Script(r)[2] = Recv(0, 1)
      BY <2>1, <2>5
    <3>2. \A k \in 1..2 : k = 1 \/ k = 2
      OBVIOUS
    <3>3. /\ \A p \in 0..4 : PostedTo(r, p) \in 0..2
          /\ PostedTo(r, 0) = 0 /\ PostedTo(r, 4) = 2
      BY <2>3, <2>5 DEF PostedTo
    <3>4. \A k \in 1..2 : /\ Script(r)[k].op = "recv" /\ Script(r)[k].peer = 0
                          /\ Script(r)[k].tag = MessagesTo(r)[k].tag
      BY <2>4, <3>1, <3>2 DEF Recv
    <3>5. Len(Script(r)) = 2 /\ Len(Script(0)) = 4 /\ Len(Script(r)) \in Nat
      BY <2>2, <3>1
    <3> QED
      BY <3>3, <3>4, <3>5, Zenon
  <2>6. CASE r \notin {1, 2}
    <3>1. Len(Script(r)) = 0
      BY <2>1, <2>6
    <3>2. \A p : PostedTo(r, p) = 0
      BY <2>3, <2>6 DEF PostedTo
    <3> QED
      BY <2>2, <3>1, <3>2
  <2> QED
    BY <2>5, <2>6
<1> QED
  BY <1>1, <1>2 DEF Letters

\* The sends that rank 0 has posted.
Passed == IF phase[0] = "inside" THEN at[0] ELSE at[0] - 1

InTransit(r) == Messages(MessagesTo(r), at[r], PostedTo(r, Passed))

LetterPlaces ==
  /\ at \in [Ranks -> Nat \ {0}] /\ phase \in [Ranks -> {"enter", "inside"}]
  /\ at[0] <= Len(Script(0)) + 1
  /\ phase[0] = "inside" => at[0] <= Len(Script(0))
  /\ \A r \in Ranks \ {0} : phase[r] = "enter" /\ at[r] <= PostedTo(r, Passed) + 1
  /\ \A k \in 1..Passed : Script(0)[k].peer \in Ranks

LetterMail ==
  /\ channel = [pair \in Ranks \X Ranks |->
                  IF pair[1] = 0 /\ pair[2] # 0 THEN InTransit(pair[2]) ELSE <<>>]
  /\ requests = [r \in Ranks |-> {}]
  /\ got = [r \in Ranks |-> IF r = 0 THEN <<>>
                            ELSE [k \in 1..at[r] - 1 |-> MessagesTo(r)[k].data]]

(* Rank 0 has posted the messages of the sends that it has passed, each to *)
(* a rank that exists; the others have taken them in order.                *)
LetterInv == prog \in Letters /\ SizeOK /\ LetterPlaces /\ LetterMail

\* What the program and the job's size fix.
LEMMA LetterSame ==
  ASSUME prog' = prog, world' = world
  PROVE  /\ SizeOK' <=> SizeOK
         /\ Ranks' = Ranks
         /\ \A r : Script(r)' = Script(r) /\ MessagesTo(r)' = MessagesTo(r)
         /\ \A r, p : PostedTo(r, p)' = PostedTo(r, p)
BY DEF SizeOK, Ranks, Script, MessagesTo, PostedTo

LEMMA LetterFacts ==
  ASSUME LetterInv
  PROVE  /\ 0 \in Ranks /\ \A r \in Ranks : r \in Nat
         /\ \A r \in Ranks : at[r] \in Nat \ {0} /\ phase[r] \in {"enter", "inside"}
         /\ Passed \in 0..Len(Script(0)) /\ Len(Script(0)) \in Nat
         /\ \A r \in Ranks \ {0} :
              /\ PostedTo(r, Passed) \in Nat /\ PostedTo(r, Passed) <= Len(Script(r))
              /\ at[r] <= PostedTo(r, Passed) + 1
<1>1. 0 \in Ranks /\ \A r \in Ranks : r \in Nat
  BY DEF LetterInv, SizeOK, Ranks
<1>2. /\ \A r \in Ranks : at[r] \in Nat \ {0} /\ phase[r] \in {"enter", "inside"}
      /\ Len(Script(0)) \in Nat
  BY Senders DEF LetterInv, LetterPlaces
<1>3. Passed \in 0..Len(Script(0))
  BY <1>1, <1>2 DEF LetterInv, LetterPlaces, Passed
<1>4. \A r \in Ranks \ {0} : /\ PostedTo(r, Passed) \in 0..Len(Script(r))
                             /\ Len(Script(r)) \in Nat
  BY <1>3, Receivers DEF LetterInv
<1> QED
  BY <1>1, <1>2, <1>3, <1>4 DEF LetterInv, LetterPlaces

LEMMA LetterInit == Init /\ prog \in Letters => LetterInv
<1> SUFFICES ASSUME Init, prog \in Letters PROVE LetterInv
  OBVIOUS
<1>1. SizeOK /\ 0 \in Ranks
  BY SizeFacts DEF SizeOK, Ranks
<1>2. /\ at = [r \in Ranks |-> 1] /\ phase = [r \in Ranks |-> "enter"]
      /\ requests = [r \in Ranks |-> {}] /\ got = [r \in Ranks |-> <<>>]
      /\ channel = [pair \in Ranks \X Ranks |-> <<>>]
  BY DEF Init
<1>3. Passed = 0
  BY <1>1, <1>2 DEF Passed
<1>4. \A r : r # 0 => PostedTo(r, Passed) = 0
  BY <1>3, Receivers
<1>5. Len(Script(0)) \in Nat
  BY Senders
<1>6. LetterPlaces
  BY <1>1, <1>2, <1>3, <1>4, <1>5 DEF LetterPlaces
<1>7. ASSUME NEW r \in Ranks, r # 0 PROVE InTransit(r) = <<>>
  <2>1. InTransit(r) = Messages(MessagesTo(r), 1, 0)
    BY <1>2, <1>4, <1>7 DEF InTransit
  <2>2. Messages(MessagesTo(r), 1, 0) = <<>>
    <3>1. 1 \in Nat /\ 0 \in Nat /\ 1 <= 0 + 1 /\ 1 = 0 + 1
      OBVIOUS
    <3> QED
      BY <3>1, MessagesFacts, Zenon
  <2> QED
    BY <2>1, <2>2
<1>8. ASSUME NEW r \in Ranks
      PROVE  (IF r = 0 THEN <<>> ELSE [k \in 1..at[r] - 1 |-> MessagesTo(r)[k].data]) = <<>>
  <2>1. 1..at[r] - 1 = {}
    BY <1>2
  <2> QED
    BY <1>2, <2>1
<1>9. channel = [pair \in Ranks \X Ranks |->
                   IF pair[1] = 0 /\ pair[2] # 0 THEN InTransit(pair[2]) ELSE <<>>]
  BY <1>2, <1>7
<1>10. got = [r \in Ranks |-> IF r = 0 THEN <<>>
                              ELSE [k \in 1..at[r] - 1 |-> MessagesTo(r)[k].data]]
  BY <1>2, <1>8
<1> QED
  BY <1>1, <1>2, <1>6, <1>9, <1>10 DEF LetterInv, LetterMail

\* Only sends of rank 0 and receives of the others are executed.
LEMMA LetterActs ==
  ASSUME LetterInv, NEW r \in Ranks, Act(r) \/ ReturnsBuffered(r) \/ LeaveEarly(r)
  PROVE  \/ Abort(r)
         \/ r = 0 /\ Post(0)
         \/ r = 0 /\ Doing(0, {"send"}, "inside") /\ GoOn(0)
              /\ UNCHANGED <<prog, world, channel, requests, got, offered, aborted>>
         \/ r # 0 /\ Receive(r)
<1>1. ASSUME NEW ops, NEW label, Doing(r, ops, label)
      PROVE  /\ r = 0 => "send" \in ops
             /\ r # 0 => "recv" \in ops
  <2>1. at[r] \in 1..Len(Script(r)) /\ Op(r) = Script(r)[at[r]] /\ Op(r).op \in ops
    <3>1. at[r] \in Nat \ {0} /\ Len(Script(r)) \in Nat
      BY LetterFacts, Receivers DEF LetterInv
    <3> QED
      BY <1>1, <3>1 DEF Doing, Finished, Op
  <2>2. r = 0 => Op(r).op = "send"
    BY <2>1, Senders DEF LetterInv
  <2>3. r # 0 => Op(r).op = "recv"
    BY <2>1, Receivers DEF LetterInv
  <2> QED
    BY <2>1, <2>2, <2>3
<1>2. "send" \notin Collectives /\ "recv" \notin Collectives
  BY DEF Collectives, FromRoot, ToRoot
<1>3. ~(Void(r) \/ OpenRequest(r) \/ WaitallReturns(r))
  BY <1>1 DEF Void, OpenRequest, WaitallReturns
<1>4. ~(Enter(r) \/ LeaveTogether(r) \/ LeaveEarly(r))
  BY <1>1, <1>2 DEF Enter, LeaveTogether, LeaveEarly, LeaveAfter
<1>5. ~Deliver(r)
  BY DEF Deliver, LetterInv, LetterMail
<1>6. Post(r) => r = 0
  BY <1>1 DEF Post
<1>7. SendReturns(r) \/ ReturnsBuffered(r) =>
        r = 0 /\ Doing(0, {"send"}, "inside") /\ GoOn(0)
          /\ UNCHANGED <<prog, world, channel, requests, got, offered, aborted>>
  BY <1>1 DEF SendReturns, ReturnsBuffered
<1>8. Receive(r) => r # 0
  BY <1>1 DEF Receive
<1> QED
  BY <1>3, <1>4, <1>5, <1>6, <1>7, <1>8 DEF Act

\* The sends posted do not change, and no rank takes a message.
LEMMA LetterReturns ==
  ASSUME LetterInv, Doing(0, {"send"}, "inside"), GoOn(0),
         UNCHANGED <<prog, world, channel, requests, got>>
  PROVE  LetterInv'
<1>0. 0 \in Ranks /\ at[0] \in Nat /\ phase[0] = "inside" /\ at[0] <= Len(Script(0))
      /\ Len(Script(0)) \in Nat
  BY LetterFacts DEF LetterInv, LetterPlaces, Doing
<1>1. at' = [at EXCEPT ![0] = @ + 1] /\ phase' = [phase EXCEPT ![0] = "enter"]
  BY DEF GoOn
<1>2. at'[0] = at[0] + 1 /\ phase'[0] = "enter"
  BY <1>0, <1>1 DEF LetterInv, LetterPlaces
<1>3. \A r \in Ranks \ {0} : at'[r] = at[r] /\ phase'[r] = phase[r]
  BY <1>1 DEF LetterInv, LetterPlaces
<1>4. Passed' = Passed
  <2>1. Passed = at[0] /\ Passed' = at'[0] - 1
    BY <1>0, <1>2 DEF Passed
  <2> QED
    BY <1>0, <1>2, <2>1
<1>5. LetterPlaces'
  <2>1. /\ at' \in [Ranks -> Nat \ {0}] /\ phase' \in [Ranks -> {"enter", "inside"}]
        /\ at'[0] <= Len(Script(0)) + 1 /\ phase'[0] = "enter"
    BY <1>0, <1>1, <1>2 DEF LetterInv, LetterPlaces
  <2>2. \A r \in Ranks \ {0} : phase'[r] = "enter" /\ at'[r] <= PostedTo(r, Passed) + 1
    BY <1>3 DEF LetterInv, LetterPlaces
  <2>3. \A k \in 1..Passed : Script(0)[k].peer \in Ranks
    BY DEF LetterInv, LetterPlaces
  <2>4. /\ Ranks' = Ranks /\ \A r : Script(r)' = Script(r)
        /\ \A r : PostedTo(r, Passed)' = PostedTo(r, Passed)
    BY <1>4, LetterSame DEF PostedTo
  <2> QED
    BY <1>4, <2>1, <2>2, <2>3, <2>4 DEF LetterPlaces
<1>6. ASSUME NEW r \in Ranks, r # 0
      PROVE  /\ InTransit(r)' = InTransit(r) /\ at'[r] = at[r]
             /\ MessagesTo(r)' = MessagesTo(r)
  <2>1. at'[r] = at[r]
    BY <1>3, <1>6
  <2>2. MessagesTo(r)' = MessagesTo(r) /\ PostedTo(r, Passed)' = PostedTo(r, Passed)
    BY <1>4, LetterSame DEF PostedTo
  <2> QED
    BY <2>1, <2>2 DEF InTransit, Messages
<1>7. LetterMail'
  <2>1. Ranks' = Ranks
    BY LetterSame
  <2>2. channel' = [pair \in Ranks' \X Ranks' |->
                      IF pair[1] = 0 /\ pair[2] # 0 THEN InTransit(pair[2])' ELSE <<>>]
    BY <1>6, <2>1 DEF LetterInv, LetterMail
  <2>3. got' = [r \in Ranks' |-> IF r = 0 THEN <<>>
                                 ELSE [k \in 1..at'[r] - 1 |-> MessagesTo(r)'[k].data]]
    BY <1>6, <2>1 DEF LetterInv, LetterMail
  <2> QED
    BY <2>1, <2>2, <2>3 DEF LetterInv, LetterMail
<1> QED
  BY <1>5, <1>7, LetterSame DEF LetterInv

\* Rank 0's next message goes to its peer.
LEMMA LetterPosts ==
  ASSUME LetterInv, Post(0)
  PROVE  LetterInv'
<1> PICK k \in Nat : k = at[0]
  BY LetterFacts
<1> PICK q \in Ranks : q = Op(0).peer
  BY DEF Post
<1> DEFINE p == PostedTo(q, Passed)
<1>0. /\ 0 \in Ranks /\ k \in 1..Len(Script(0)) /\ k \in Nat /\ phase[0] = "enter"
      /\ Len(Script(0)) \in Nat /\ Op(0) = Script(0)[k] /\ q \in Ranks
  BY LetterFacts DEF Post, Doing, Finished, Op
<1>1. /\ Op(0).op = "send" /\ q # 0
      /\ PostedTo(q, k) = PostedTo(q, k - 1) + 1
      /\ MessagesTo(q)[PostedTo(q, k)] = Message(Op(0).tag, Op(0).data, k)
      /\ \A r : r # q => PostedTo(r, k) = PostedTo(r, k - 1)
  <2>1. prog \in Letters
    BY DEF LetterInv
  <2>2. LET o == Script(0)[k]
        IN  /\ o.op = "send" /\ o.peer \in {1, 2}
            /\ PostedTo(o.peer, k) = PostedTo(o.peer, k - 1) + 1
            /\ MessagesTo(o.peer)[PostedTo(o.peer, k)] = Message(o.tag, o.data, k)
            /\ \A r : r # o.peer => PostedTo(r, k) = PostedTo(r, k - 1)
    BY <1>0, <2>1, Senders, Zenon
  <2>3. Script(0)[k].peer = q
    BY <1>0
  <2> QED
    BY <1>0, <2>2, <2>3
<1>2. prog' = prog /\ world' = world /\ at' = at /\ requests' = requests /\ got' = got
  BY <1>1 DEF Post, GoInside
<1>3. phase' = [phase EXCEPT ![0] = "inside"]
  BY <1>1 DEF Post, GoInside
<1>4. Passed = k - 1 /\ Passed' = k
  <2>1. phase'[0] = "inside"
    BY <1>0, <1>3 DEF LetterInv, LetterPlaces
  <2> QED
    BY <1>0, <1>2, <2>1 DEF Passed
<1>5. /\ PostedTo(q, Passed)' = p + 1
      /\ \A r : r # q => PostedTo(r, Passed)' = PostedTo(r, Passed)
  <2>1. \A r : PostedTo(r, Passed)' = PostedTo(r, k)
    BY <1>2, <1>4 DEF PostedTo
  <2> QED
    BY <1>1, <1>4, <2>1
<1>6. p \in Nat /\ at[q] \in Nat /\ at[q] <= p + 1
  BY <1>0, <1>1, LetterFacts
<1>7. LetterPlaces'
  <2>1. at' \in [Ranks -> Nat \ {0}] /\ phase' \in [Ranks -> {"enter", "inside"}]
    BY <1>2, <1>3 DEF LetterInv, LetterPlaces
  <2>2. at'[0] <= Len(Script(0)) + 1 /\ at'[0] <= Len(Script(0))
    BY <1>0, <1>2
  <2>3. ASSUME NEW r \in Ranks \ {0}
        PROVE  phase'[r] = "enter" /\ at'[r] <= PostedTo(r, Passed)' + 1
    <3>1. phase'[r] = "enter"
      BY <1>3 DEF LetterInv, LetterPlaces
    <3>2. PostedTo(r, Passed) \in Nat /\ at[r] \in Nat /\ at[r] <= PostedTo(r, Passed) + 1
      BY LetterFacts
    <3>3. CASE r = q
      <4>1. PostedTo(r, Passed)' = PostedTo(r, Passed) + 1
        BY <1>5, <3>3
      <4> QED
        BY <1>2, <3>1, <3>2, <4>1
    <3>4. CASE r # q
      BY <1>2, <1>5, <3>1, <3>2, <3>4
    <3> QED
      BY <3>3, <3>4
  <2>4. \A j \in 1..k : Script(0)[j].peer \in Ranks
    <3>1. \A j \in 1..k - 1 : Script(0)[j].peer \in Ranks
      BY <1>4 DEF LetterInv, LetterPlaces
    <3>2. \A j \in 1..k : j = k \/ j \in 1..k - 1
      BY <1>0
    <3>3. Script(0)[k].peer \in Ranks
      BY <1>0
    <3> QED
      BY <3>1, <3>2, <3>3
  <2>5. Ranks' = Ranks /\ Script(0)' = Script(0)
    BY <1>2, LetterSame
  <2> HIDE DEF p
  <2> QED
    BY <1>4, <2>1, <2>2, <2>3, <2>4, <2>5 DEF LetterPlaces
<1>8. ASSUME NEW r \in Ranks, r # 0
      PROVE  InTransit(r)' = IF r = q THEN Append(InTransit(r), Message(Op(0).tag, Op(0).data, k))
                             ELSE InTransit(r)
  <2>0. MessagesTo(r)' = MessagesTo(r) /\ at'[r] = at[r]
    BY <1>2, LetterSame
  <2>1. CASE r = q
    <3>1. Append(Messages(MessagesTo(q), at[q], p), MessagesTo(q)[p + 1])
            = Messages(MessagesTo(q), at[q], p + 1)
      <4> DEFINE f == MessagesTo(q)
                 a == at[q]
      <4>1. a \in Nat /\ p \in Nat /\ a <= p + 1
        BY <1>6
      <4> HIDE DEF p, f, a
      <4>2. Append(Messages(f, a, p), f[p + 1]) = Messages(f, a, p + 1)
        BY <4>1, MessagesGrow, Zenon
      <4> QED
        BY <4>2 DEF f, a
    <3>2. MessagesTo(q)[p + 1] = Message(Op(0).tag, Op(0).data, k)
      BY <1>1, <1>4
    <3>3. InTransit(r)' = Messages(MessagesTo(q), at[q], p + 1)
      BY <1>5, <2>0, <2>1 DEF InTransit, Messages
    <3>4. InTransit(r) = Messages(MessagesTo(q), at[q], p)
      BY <2>1 DEF InTransit
    <3> QED
      BY <2>1, <3>1, <3>2, <3>3, <3>4
  <2>2. CASE r # q
    <3>1. PostedTo(r, Passed)' = PostedTo(r, Passed)
      BY <1>5, <2>2
    <3> QED
      BY <2>0, <2>2, <3>1 DEF InTransit, Messages
  <2> QED
    BY <2>1, <2>2
<1>9. LetterMail'
  <2>1. Ranks' = Ranks /\ \A r : MessagesTo(r)' = MessagesTo(r)
    BY <1>2, LetterSame
  <2>2. channel' = [channel EXCEPT ![<<0, q>>] = Append(@, Message(Op(0).tag, Op(0).data, k))]
    BY DEF Post, Message
  <2>3. ASSUME NEW pair \in Ranks \X Ranks
        PROVE  channel'[pair] = IF pair[1] = 0 /\ pair[2] # 0 THEN InTransit(pair[2])' ELSE <<>>
    <3>1. channel[pair] = IF pair[1] = 0 /\ pair[2] # 0 THEN InTransit(pair[2]) ELSE <<>>
      BY DEF LetterInv, LetterMail
    <3>2. pair = <<pair[1], pair[2]>> /\ pair[1] \in Ranks /\ pair[2] \in Ranks
      OBVIOUS
    <3>3. CASE pair = <<0, q>>
      <4>1. channel'[pair] = Append(channel[pair], Message(Op(0).tag, Op(0).data, k))
        BY <2>2, <3>3 DEF LetterInv, LetterMail
      <4>2. pair[1] = 0 /\ pair[2] = q
        BY <3>3
      <4> QED
        BY <1>1, <1>8, <3>1, <3>2, <4>1, <4>2
    <3>4. CASE pair # <<0, q>>
      <4>1. channel'[pair] = channel[pair]
        BY <2>2, <3>4 DEF LetterInv, LetterMail
      <4>2. pair[1] = 0 => pair[2] # q
        BY <3>2, <3>4
      <4> QED
        BY <1>8, <3>1, <3>2, <4>1, <4>2
    <3> QED
      BY <3>3, <3>4
  <2>4. channel' = [pair \in Ranks \X Ranks |-> channel'[pair]]
    BY <2>2 DEF LetterInv, LetterMail
  <2>5. channel' = [pair \in Ranks' \X Ranks' |->
                      IF pair[1] = 0 /\ pair[2] # 0 THEN InTransit(pair[2])' ELSE <<>>]
    BY <2>1, <2>3, <2>4
  <2>6. got' = [r \in Ranks' |-> IF r = 0 THEN <<>>
                                 ELSE [j \in 1..at'[r] - 1 |-> MessagesTo(r)'[j].data]]
    BY <1>2, <2>1 DEF LetterInv, LetterMail
  <2>7. requests' = [r \in Ranks' |-> {}]
    BY <1>2, <2>1 DEF LetterInv, LetterMail
  <2> QED
    BY <2>5, <2>6, <2>7 DEF LetterMail
<1> QED
  BY <1>2, <1>7, <1>9, LetterSame DEF LetterInv

\* Rank r takes the first of the messages on their way to it.
LEMMA LetterReceives ==
  ASSUME LetterInv, NEW r \in Ranks, r # 0, Receive(r)
  PROVE  LetterInv'
<1> PICK a \in Nat : a = at[r]
  BY LetterFacts
<1> PICK p : p = PostedTo(r, Passed)
  OBVIOUS
<1> PICK f : f = MessagesTo(r)
  OBVIOUS
<1>0. /\ a # 0 /\ p \in Nat /\ a <= p + 1 /\ p <= Len(Script(r)) /\ 0 \in Ranks
      /\ Len(Script(r)) \in Nat
  BY LetterFacts, Receivers DEF LetterInv
<1>1. a \in 1..Len(Script(r)) /\ Op(r) = Script(r)[a]
  BY <1>0 DEF Receive, Doing, Finished, Op
<1>2. Op(r).peer = 0 /\ Op(r).tag = f[a].tag
  BY <1>1, Receivers DEF LetterInv
<1>3. /\ prog' = prog /\ world' = world /\ requests' = requests
      /\ Take(0, r, f[a].tag)
      /\ at' = [at EXCEPT ![r] = @ + 1] /\ phase' = [phase EXCEPT ![r] = "enter"]
  BY <1>2 DEF Receive, GoOn
<1>4. channel[<<0, r>>] = Messages(f, a, p)
  <2>1. channel[<<0, r>>] = InTransit(r)
    <3>1. <<0, r>> \in Ranks \X Ranks /\ <<0, r>>[1] = 0 /\ <<0, r>>[2] = r
      BY <1>0
    <3> QED
      BY <3>1 DEF LetterInv, LetterMail
  <2> QED
    BY <2>1 DEF InTransit
<1> DEFINE sent == channel[<<0, r>>]
           j == FirstWith(f[a].tag, sent)
<1>5. /\ j # 0
      /\ got' = [got EXCEPT ![r] = Append(@, sent[j].data)]
      /\ channel' = [channel EXCEPT ![<<0, r>>] = RemoveAt(@, j)]
  BY <1>3 DEF Take, Get
<1> HIDE DEF sent
<1>7. sent = Messages(f, a, p)
  BY <1>4 DEF sent
<1>6. a <= p /\ j = 1 /\ sent[1] = f[a] /\ RemoveAt(sent, 1) = Messages(f, a + 1, p)
  BY <1>0, <1>5, <1>7, FirstTaken
<1> HIDE DEF j
<1>8. /\ at'[r] = a + 1 /\ \A u \in Ranks \ {r} : at'[u] = at[u]
      /\ \A u \in Ranks : phase'[u] = phase[u]
  <2>1. phase[r] = "enter"
    BY DEF Receive, Doing
  <2> QED
    BY <1>3, <2>1 DEF LetterInv, LetterPlaces
<1>9. Passed' = Passed
  BY <1>0, <1>8 DEF Passed
<1>10. \A u : PostedTo(u, Passed)' = PostedTo(u, Passed)
  BY <1>3, <1>9 DEF PostedTo
<1>11. LetterPlaces'
  <2>1. at' \in [Ranks -> Nat \ {0}] /\ phase' \in [Ranks -> {"enter", "inside"}]
    <3>1. a + 1 \in Nat \ {0}
      BY <1>0
    <3> QED
      BY <1>3, <3>1 DEF LetterInv, LetterPlaces
  <2>2. at'[0] <= Len(Script(0)) + 1 /\ (phase'[0] = "inside" => at'[0] <= Len(Script(0)))
    BY <1>0, <1>8 DEF LetterInv, LetterPlaces
  <2>3. ASSUME NEW u \in Ranks \ {0}
        PROVE  phase'[u] = "enter" /\ at'[u] <= PostedTo(u, Passed) + 1
    <3>1. phase'[u] = "enter" /\ at[u] <= PostedTo(u, Passed) + 1
      BY <1>8 DEF LetterInv, LetterPlaces
    <3>2. CASE u = r
      BY <1>0, <1>6, <1>8, <3>1, <3>2
    <3>3. CASE u # r
      BY <1>8, <3>1, <3>3
    <3> QED
      BY <3>2, <3>3
  <2>4. \A k \in 1..Passed : Script(0)[k].peer \in Ranks
    BY DEF LetterInv, LetterPlaces
  <2>5. Ranks' = Ranks /\ Script(0)' = Script(0)
    BY <1>3, LetterSame
  <2> QED
    BY <1>9, <1>10, <2>1, <2>2, <2>3, <2>4, <2>5 DEF LetterPlaces
<1>12. ASSUME NEW u \in Ranks, u # 0
       PROVE  InTransit(u)' = IF u = r THEN Messages(f, a + 1, p) ELSE InTransit(u)
  <2>0. MessagesTo(u)' = MessagesTo(u)
    BY <1>3, LetterSame
  <2>1. InTransit(u)' = Messages(MessagesTo(u), at'[u], PostedTo(u, Passed))
    BY <1>10, <2>0 DEF InTransit, Messages
  <2> QED
    BY <1>8, <2>1 DEF InTransit
<1>13. ASSUME NEW u \in Ranks, u # 0
       PROVE  got'[u] = [k \in 1..at'[u] - 1 |-> MessagesTo(u)[k].data]
  <2>1. got[u] = [k \in 1..at[u] - 1 |-> MessagesTo(u)[k].data]
    BY <1>13 DEF LetterInv, LetterMail
  <2>2. CASE u = r
    <3> DEFINE n == a - 1
               g == [k \in Nat |-> f[k].data]
    <3>1. n \in Nat /\ n + 1 = a /\ at'[r] - 1 = n + 1 /\ g[n + 1] = f[a].data
      BY <1>0, <1>8
    <3>2. got[r] = [k \in 1..n |-> g[k]]
      <4>1. got[r] = [k \in 1..n |-> f[k].data]
        BY <2>1, <2>2
      <4>2. \A k \in 1..n : k \in Nat
        OBVIOUS
      <4> HIDE DEF n
      <4> QED
        BY <4>1, <4>2
    <3>3. got'[r] = Append(got[r], f[a].data)
      BY <1>5, <1>6 DEF LetterInv, LetterMail
    <3>4. Append([k \in 1..n |-> g[k]], g[n + 1]) = [k \in 1..n + 1 |-> g[k]]
      <4> HIDE DEF n, g
      <4> QED
        BY <3>1, AppendNext
    <3>5. [k \in 1..n + 1 |-> g[k]] = [k \in 1..n + 1 |-> f[k].data]
      OBVIOUS
    <3>6. got'[r] = [k \in 1..n + 1 |-> f[k].data]
      <4> HIDE DEF n, g
      <4> QED
        BY <3>1, <3>2, <3>3, <3>4, <3>5
    <3> HIDE DEF n, g
    <3> QED
      BY <2>2, <3>1, <3>6
  <2>3. CASE u # r
    BY <1>5, <1>8, <2>1, <2>3 DEF LetterInv, LetterMail
  <2> QED
    BY <2>2, <2>3
<1>14. got'[0] = <<>> /\ got' = [u \in Ranks |-> got'[u]]
  BY <1>0, <1>5 DEF LetterInv, LetterMail
<1>15. LetterMail'
  <2>1. Ranks' = Ranks /\ \A u : MessagesTo(u)' = MessagesTo(u)
    BY <1>3, LetterSame
  <2>2. channel' = [channel EXCEPT ![<<0, r>>] = Messages(f, a + 1, p)]
    BY <1>5, <1>6 DEF sent
  <2>3. ASSUME NEW pair \in Ranks \X Ranks
        PROVE  channel'[pair] = IF pair[1] = 0 /\ pair[2] # 0 THEN InTransit(pair[2])' ELSE <<>>
    <3>1. channel[pair] = IF pair[1] = 0 /\ pair[2] # 0 THEN InTransit(pair[2]) ELSE <<>>
      BY DEF LetterInv, LetterMail
    <3>2. pair = <<pair[1], pair[2]>> /\ pair[1] \in Ranks /\ pair[2] \in Ranks
      OBVIOUS
    <3>3. CASE pair = <<0, r>>
      <4>1. channel'[pair] = Messages(f, a + 1, p)
        BY <2>2, <3>3 DEF LetterInv, LetterMail
      <4>2. pair[1] = 0 /\ pair[2] = r
        BY <3>3
      <4> QED
        BY <1>12, <3>2, <4>1, <4>2
    <3>4. CASE pair # <<0, r>>
      <4>1. channel'[pair] = channel[pair]
        BY <2>2, <3>4 DEF LetterInv, LetterMail
      <4>2. pair[1] = 0 => pair[2] # r
        BY <3>2, <3>4
      <4> QED
        BY <1>12, <3>1, <3>2, <4>1, <4>2
    <3> QED
      BY <3>3, <3>4
  <2>4. channel' = [pair \in Ranks \X Ranks |-> channel'[pair]]
    BY <2>2 DEF LetterInv, LetterMail
  <2>5. channel' = [pair \in Ranks' \X Ranks' |->
                      IF pair[1] = 0 /\ pair[2] # 0 THEN InTransit(pair[2])' ELSE <<>>]
    BY <2>1, <2>3, <2>4
  <2>6. got' = [u \in Ranks' |-> IF u = 0 THEN <<>>
                                 ELSE [k \in 1..at'[u] - 1 |-> MessagesTo(u)'[k].data]]
    BY <1>13, <1>14, <2>1
  <2>7. requests' = [u \in Ranks' |-> {}]
    BY <1>3, <2>1 DEF LetterInv, LetterMail
  <2> QED
    BY <2>5, <2>6, <2>7 DEF LetterMail
<1> QED
  BY <1>3, <1>11, <1>15, LetterSame DEF LetterInv

\* A step that changes neither a place nor a message.
LEMMA LetterRests ==
  ASSUME LetterInv, UNCHANGED <<prog, world, at, phase, channel, requests, got>>
  PROVE  LetterInv'
<1>1. Passed' = Passed
  BY DEF Passed
<1>2. Ranks' = Ranks /\ \A r : Script(r)' = Script(r) /\ MessagesTo(r)' = MessagesTo(r)
  BY LetterSame
<1>3. \A r : PostedTo(r, Passed)' = PostedTo(r, Passed)
  BY <1>1 DEF PostedTo
<1>4. \A r : InTransit(r)' = InTransit(r)
  BY <1>2, <1>3 DEF InTransit, Messages
<1>5. LetterPlaces'
  BY <1>1, <1>2, <1>3 DEF LetterInv, LetterPlaces
<1>6. LetterMail'
  BY <1>2, <1>4 DEF LetterInv, LetterMail
<1> QED
  BY <1>5, <1>6, LetterSame DEF LetterInv

LEMMA LetterNext == LetterInv /\ [Next]_vars => LetterInv'
<1> SUFFICES ASSUME LetterInv, [Next]_vars PROVE LetterInv'
  OBVIOUS
<1>1. CASE UNCHANGED vars
  BY <1>1, LetterRests DEF vars
<1>2. ASSUME NEW r \in Ranks, Act(r) \/ ReturnsBuffered(r) \/ LeaveEarly(r) PROVE LetterInv'
  <2>1. CASE Abort(r)
    BY <2>1, LetterRests DEF Abort
  <2>2. CASE r # 0 /\ Receive(r)
    BY <2>2, LetterReceives
  <2> QED
    BY <1>2, <2>1, <2>2, LetterActs, LetterPosts, LetterReturns
<1> QED
  BY <1>1, <1>2 DEF Next, Ended

LEMMA LetterCollected == LetterInv => Collected
<1> SUFFICES ASSUME LetterInv, AllDone PROVE Collected
  BY DEF Collected
<1>1. 0 \in Ranks /\ prog \in Letters
  BY LetterFacts DEF LetterInv
<1>2. Passed = Len(Script(0))
  BY <1>1, LetterFacts DEF LetterInv, LetterPlaces, AllDone, Finished, Passed
<1>3. ASSUME NEW r \in Ranks, r # 0
      PROVE  at[r] = Len(Script(r)) + 1 /\ PostedTo(r, Passed) = Len(Script(r))
             /\ Len(Script(r)) \in Nat
  <2>1. PostedTo(r, Passed) = Len(Script(r)) /\ Len(Script(r)) \in Nat
    BY <1>1, <1>2, <1>3, Receivers
  <2>2. at[r] \in Nat /\ at[r] <= PostedTo(r, Passed) + 1 /\ at[r] > Len(Script(r))
    BY <1>3, LetterFacts DEF AllDone, Finished
  <2> QED
    BY <2>1, <2>2
<1>4. ASSUME NEW r \in Ranks, r # 0 PROVE InTransit(r) = <<>>
  <2>1. at[r] \in Nat /\ PostedTo(r, Passed) \in Nat /\ at[r] = PostedTo(r, Passed) + 1
    BY <1>3, <1>4
  <2> DEFINE f == MessagesTo(r)
             a == at[r]
             p == PostedTo(r, Passed)
  <2>2. InTransit(r) = Messages(f, a, p)
    BY DEF InTransit
  <2>3. a \in Nat /\ p \in Nat /\ a <= p + 1 /\ a = p + 1
    BY <2>1
  <2> HIDE DEF f, a, p
  <2>4. Messages(f, a, p) = <<>>
    BY <2>3, MessagesFacts
  <2> QED
    BY <2>2, <2>4
<1>5. \A pair \in Ranks \X Ranks : channel[pair] = <<>>
  BY <1>4 DEF LetterInv, LetterMail
<1>6. ASSUME NEW r \in Ranks, r # 0
      PROVE  got[r] = [k \in 1..Len(Script(r)) |-> MessagesTo(r)[k].data]
  BY <1>3, <1>6 DEF LetterInv, LetterMail
<1>7. \A k \in 1..Len(Script(0)) : Script(0)[k].peer \in Ranks
  BY <1>2 DEF LetterInv, LetterPlaces
<1>8. ASSUME prog = "SendRecv" PROVE got[1] = <<7>>
  <2>1. Script(0) = <<Send(1, 0, 7)>> /\ Script(1) = <<Recv(0, 0)>>
    BY <1>8 DEF Script, SendRecv
  <2>2. Script(0)[1].peer = 1 /\ Len(Script(0)) = 1 /\ Len(Script(1)) = 1
    BY <2>1 DEF Send
  <2>3. 1 \in Ranks
    BY <1>7, <2>2
  <2>4. MessagesTo(1)[1].data = 7
    BY <1>8 DEF MessagesTo, Message
  <2>5. got[1] = [k \in 1..1 |-> MessagesTo(1)[k].data]
    BY <1>6, <2>2, <2>3
  <2> QED
    BY <2>4, <2>5
<1>9. ASSUME prog = "BlockingSendRecv", NEW r \in {1, 2} PROVE got[r] = <<100, 7>>
  <2>1. /\ Script(0) = <<Send(1, 0, 100), Send(2, 0, 100), Send(1, 1, 7), Send(2, 1, 7)>>
        /\ Script(r) = <<Recv(0, 0), Recv(0, 1)>>
    BY <1>9 DEF Script, BlockingSendRecv
  <2>2. Script(0)[1].peer = 1 /\ Script(0)[2].peer = 2 /\ Len(Script(0)) = 4
        /\ Len(Script(r)) = 2
    BY <2>1 DEF Send
  <2>3. r \in Ranks /\ r # 0
    BY <1>7, <2>2
  <2>4. MessagesTo(r)[1].data = 100 /\ MessagesTo(r)[2].data = 7
    BY <1>9 DEF MessagesTo, Message
  <2>5. got[r] = [k \in 1..2 |-> MessagesTo(r)[k].data]
    BY <1>6, <2>2, <2>3
  <2> QED
    BY <2>4, <2>5
<1>10. \A r \in Ranks : requests[r] = {}
  BY DEF LetterInv, LetterMail
<1> QED
  BY <1>1, <1>5, <1>8, <1>9, <1>10 DEF Collected, Letters

-----------------------------------------------------------------------------
(* The exchange between two ranks.                                         *)

\* In a job of two, what rank r has received and what is on its way to it.
Swaps(r) ==
  LET q == 1 - r
  IN  /\ got[r] \in {<<>>, <<q>>}
      /\ got[r] # <<>> => at[r] >= 2 /\ at[q] >= 3
      /\ requests[r] = IF at[r] >= 2 /\ got[r] = <<>> THEN {1} ELSE {}
      /\ channel[<<q, r>>] = IF at[q] >= 3 /\ got[r] = <<>> THEN <<Message(99, q, 2)>> ELSE <<>>
      /\ channel[<<r, r>>] = <<>>
      /\ at[r] <= 4 /\ phase[r] = "enter"
      /\ at[r] = 4 => got[r] # <<>>

SwapTypes == /\ phase \in [Ranks -> {"enter", "inside"}]
             /\ channel = [pair \in Ranks \X Ranks |-> channel[pair]]
             /\ requests = [r \in Ranks |-> requests[r]]
             /\ got = [r \in Ranks |-> got[r]]

(* In another job, the rank whose peer is missing does not get past the    *)
(* operation with that peer: rank 0 alone, or rank 2.                      *)
SwapInv == /\ prog = "IrecvIsend" /\ SizeOK
           /\ at \in [Ranks -> Nat \ {0}]
           /\ world = 1 => at[0] = 1
           /\ world = 2 => SwapTypes /\ \A r \in Ranks : Swaps(r)
           /\ world > 2 => at[2] <= 2

LEMMA SwapScript ==
  ASSUME prog = "IrecvIsend", NEW r
  PROVE  /\ Len(Script(r)) = 3
         /\ Script(r)[1].op = "irecv" /\ Script(r)[1].peer = 1 - r /\ Script(r)[1].tag = 99
         /\ Script(r)[2].op = "isend" /\ Script(r)[2].peer = 1 - r /\ Script(r)[2].tag = 99
         /\ Script(r)[2].data = r
         /\ Script(r)[3].op = "waitall"
<1>1. Script(r) = <<Irecv(1 - r, 99), Isend(1 - r, 99, r), Simple("waitall")>>
  BY DEF Script, IrecvIsend
<1>2. /\ Irecv(1 - r, 99).op = "irecv" /\ Irecv(1 - r, 99).peer = 1 - r
      /\ Irecv(1 - r, 99).tag = 99
  BY DEF Irecv, Recv
<1>3. /\ Isend(1 - r, 99, r).op = "isend" /\ Isend(1 - r, 99, r).peer = 1 - r
      /\ Isend(1 - r, 99, r).tag = 99 /\ Isend(1 - r, 99, r).data = r
  BY DEF Isend, Send
<1>4. Simple("waitall").op = "waitall"
  BY DEF Simple
<1> QED
  BY <1>1, <1>2, <1>3, <1>4

\* Which operation a rank is in tells what it does.
LEMMA SwapPlace ==
  ASSUME SwapInv, NEW r \in Ranks, NEW ops, NEW label, Doing(r, ops, label)
  PROVE  /\ at[r] \in 1..3 /\ Op(r) = Script(r)[at[r]] /\ r \in Nat
         /\ at[r] = 1 => "irecv" \in ops /\ Op(r).op = "irecv" /\ Op(r).peer = 1 - r
         /\ at[r] = 2 => "isend" \in ops /\ Op(r).op = "isend" /\ Op(r).peer = 1 - r
         /\ at[r] = 3 => "waitall" \in ops /\ Op(r).op = "waitall"
<1>1. r \in Nat /\ at[r] \in Nat \ {0}
  BY DEF SwapInv, SizeOK, Ranks
<1>2. at[r] \in 1..3 /\ Op(r) = Script(r)[at[r]] /\ Op(r).op \in ops
  BY <1>1, SwapScript DEF Doing, Finished, Op, SwapInv
<1> QED
  BY <1>1, <1>2, SwapScript DEF SwapInv

LEMMA SwapActs ==
  ASSUME SwapInv, NEW r \in Ranks, Act(r) \/ ReturnsBuffered(r) \/ LeaveEarly(r)
  PROVE  \/ UNCHANGED <<prog, world, at, phase, channel, requests, got>>
         \/ Void(r) /\ at[r] \in {1, 2}
         \/ Post(r) /\ at[r] = 2
         \/ OpenRequest(r) /\ at[r] = 1
         \/ Deliver(r)
         \/ /\ at[r] = 3 /\ requests[r] = {} /\ GoOn(r)
            /\ UNCHANGED <<prog, world, channel, requests, got, offered, aborted>>
<1>1. Abort(r) => UNCHANGED <<prog, world, at, phase, channel, requests, got>>
  BY DEF Abort
<1>2. Void(r) => at[r] \in {1, 2}
  BY SwapPlace DEF Void
<1>3. Post(r) => at[r] = 2
  BY SwapPlace DEF Post
<1>4. OpenRequest(r) => at[r] = 1
  BY SwapPlace DEF OpenRequest
<1>5. ~SendReturns(r) /\ ~Receive(r)
  BY SwapPlace DEF SendReturns, Receive
<1>6. "irecv" \notin Collectives /\ "isend" \notin Collectives /\ "waitall" \notin Collectives
  BY DEF Collectives, FromRoot, ToRoot
<1>7. ~Enter(r) /\ ~LeaveTogether(r) /\ ~LeaveEarly(r)
  BY <1>6, SwapPlace DEF Enter, LeaveTogether, LeaveEarly, LeaveAfter
<1>8. WaitallReturns(r) \/ ReturnsBuffered(r) =>
        /\ at[r] = 3 /\ requests[r] = {} /\ GoOn(r)
        /\ UNCHANGED <<prog, world, channel, requests, got, offered, aborted>>
  BY SwapPlace DEF WaitallReturns, ReturnsBuffered
<1> QED
  BY <1>1, <1>2, <1>3, <1>4, <1>5, <1>7, <1>8 DEF Act

LEMMA SwapInit == Init /\ prog = "IrecvIsend" => SwapInv
<1> SUFFICES ASSUME Init, prog = "IrecvIsend" PROVE SwapInv
  OBVIOUS
<1>1. SizeOK /\ 0 \in Ranks
  BY SizeFacts DEF SizeOK, Ranks
<1>2. at \in [Ranks -> Nat \ {0}] /\ \A r \in Ranks : at[r] = 1
  BY DEF Init
<1>3. SwapTypes
  BY DEF Init, SwapTypes
<1>4. ASSUME world = 2, NEW r \in Ranks PROVE Swaps(r)
  <2>1. Ranks = {0, 1}
    BY <1>4 DEF Ranks
  <2>2. /\ at[r] = 1 /\ at[1 - r] = 1 /\ got[r] = <<>> /\ requests[r] = {}
        /\ channel[<<1 - r, r>>] = <<>> /\ channel[<<r, r>>] = <<>> /\ phase[r] = "enter"
    BY <2>1 DEF Init
  <2> QED
    BY <2>2 DEF Swaps
<1>5. world > 2 => 2 \in Ranks
  BY <1>1 DEF SizeOK, Ranks
<1> QED
  BY <1>1, <1>2, <1>3, <1>4, <1>5 DEF SwapInv

\* Alone, or with a third rank, some rank does not get on.
LEMMA SwapStuck ==
  ASSUME SwapInv, world # 2, NEW r \in Ranks, Act(r) \/ ReturnsBuffered(r) \/ LeaveEarly(r)
  PROVE  SwapInv'
<1>0. /\ SizeOK /\ at \in [Ranks -> Nat \ {0}] /\ world \in Nat \ {0} /\ r \in Nat
      /\ prog = "IrecvIsend"
  BY DEF SwapInv, SizeOK, Ranks
<1>1. /\ prog' = prog /\ world' = world
      /\ at' = at \/ /\ at' = [at EXCEPT ![r] = @ + 1]
                     /\ \/ Void(r) /\ at[r] \in {1, 2}
                        \/ Post(r) /\ at[r] = 2
                        \/ OpenRequest(r) /\ at[r] = 1
                        \/ at[r] = 3
  <2>1. CASE Post(r) /\ at[r] = 2
    BY <2>1 DEF Post, GoInside, GoOn
  <2>2. CASE UNCHANGED <<prog, world, at, phase, channel, requests, got>>
    BY <2>2
  <2>3. CASE Deliver(r)
    BY <2>3 DEF Deliver
  <2>4. CASE Void(r) /\ at[r] \in {1, 2}
    BY <2>4 DEF Void, GoOn
  <2>5. CASE OpenRequest(r) /\ at[r] = 1
    BY <2>5 DEF OpenRequest, GoOn
  <2>6. CASE at[r] = 3 /\ GoOn(r) /\ UNCHANGED <<prog, world>>
    BY <2>6 DEF GoOn
  <2> QED
    BY <2>1, <2>2, <2>3, <2>4, <2>5, <2>6, SwapActs
<1>2. at' \in [Ranks -> Nat \ {0}]
  BY <1>0, <1>1
<1>3. ASSUME world = 1 PROVE at'[0] = 1
  <2>1. Ranks = {0} /\ r = 0 /\ at[0] = 1
    BY <1>3 DEF Ranks, SwapInv
  <2>2. ~Void(0) /\ ~OpenRequest(0)
    <3>1. ASSUME NEW ops, Doing(0, ops, "enter")
          PROVE  Op(0).peer = 1
      BY <2>1, <3>1, SwapPlace
    <3> QED
      BY <2>1, <3>1 DEF Void, OpenRequest, ProcNull, AnySource
  <2> QED
    BY <1>1, <2>1, <2>2
<1>4. ASSUME world > 2 PROVE at'[2] <= 2
  <2>1. 2 \in Ranks /\ at[2] \in Nat \ {0} /\ at[2] <= 2
    BY <1>0, <1>4 DEF Ranks, SwapInv
  <2>2. CASE r = 2 /\ at' # at
    <3>1. ASSUME NEW ops, Doing(2, ops, "enter"), at[2] = 2
          PROVE  Op(2).peer = -1
      BY <2>1, <3>1, SwapPlace
    <3>2. at[2] = 2 => ~Void(2) /\ ~Post(2)
      BY <1>0, <3>1 DEF Void, Post, ProcNull, Ranks
    <3>3. at[2] = 1
      BY <1>1, <2>1, <2>2, <3>2
    <3> QED
      BY <1>0, <1>1, <2>1, <2>2, <3>3
  <2>3. CASE r # 2 \/ at' = at
    BY <1>0, <1>1, <2>1, <2>3
  <2> QED
    BY <2>2, <2>3
<1>5. SizeOK' /\ Ranks' = Ranks
  BY <1>0, <1>1 DEF SizeOK, Ranks
<1> QED
  BY <1>0, <1>1, <1>2, <1>3, <1>4, <1>5 DEF SwapInv

LEMMA SwapRanks ==
  ASSUME SwapInv, world = 2, NEW r \in Ranks
  PROVE  /\ Ranks = {0, 1} /\ r \in {0, 1} /\ 1 - r \in Ranks /\ 1 - r # r /\ 1 - (1 - r) = r
         /\ at[r] \in Nat \ {0} /\ at[1 - r] \in Nat \ {0}
         /\ Swaps(r) /\ Swaps(1 - r) /\ SwapTypes
<1>1. Ranks = {0, 1}
  BY DEF Ranks
<1>2. r \in {0, 1} /\ 1 - r \in Ranks /\ 1 - r # r /\ 1 - (1 - r) = r
  BY <1>1
<1> QED
  BY <1>1, <1>2 DEF SwapInv

\* With two ranks, a step of rank r keeps what is said of both.
LEMMA SwapBoth ==
  ASSUME SwapInv, world = 2, NEW r \in Ranks, prog' = prog, world' = world,
         at' \in [Ranks -> Nat \ {0}], SwapTypes', Swaps(r)', Swaps(1 - r)'
  PROVE  SwapInv'
<1>1. Ranks = {0, 1} /\ r \in {0, 1} /\ Ranks' = Ranks
  BY SwapRanks DEF Ranks
<1>2. \A u \in Ranks' : Swaps(u)'
  BY <1>1
<1>3. SizeOK'
  BY DEF SwapInv, SizeOK
<1> QED
  BY <1>1, <1>2, <1>3 DEF SwapInv

LEMMA SwapOpens ==
  ASSUME SwapInv, world = 2, NEW r \in Ranks, OpenRequest(r), at[r] = 1
  PROVE  SwapInv'
<1> PICK q \in Ranks : q = 1 - r
  BY SwapRanks
<1>0. /\ q # r /\ r = 1 - q /\ Swaps(r) /\ Swaps(q) /\ SwapTypes
      /\ at \in [Ranks -> Nat \ {0}] /\ at[q] \in Nat \ {0}
  BY SwapRanks DEF SwapInv
<1>1. /\ prog' = prog /\ world' = world /\ channel' = channel /\ got' = got
      /\ requests' = [requests EXCEPT ![r] = @ \cup {1}]
      /\ at' = [at EXCEPT ![r] = 2] /\ phase' = [phase EXCEPT ![r] = "enter"]
  BY <1>0 DEF OpenRequest, GoOn
<1>2. /\ at'[r] = 2 /\ at'[q] = at[q] /\ phase'[r] = "enter" /\ phase'[q] = phase[q]
      /\ requests'[r] = requests[r] \cup {1} /\ requests'[q] = requests[q]
  BY <1>0, <1>1 DEF SwapTypes
<1>3. got[r] = <<>> /\ requests[r] = {}
  BY <1>0 DEF Swaps
<1>4. Swaps(r)'
  BY <1>0, <1>1, <1>2, <1>3 DEF Swaps
<1>5. Swaps(q)'
  BY <1>0, <1>1, <1>2 DEF Swaps
<1>6. at' \in [Ranks -> Nat \ {0}]
  BY <1>0, <1>1
<1>7. SwapTypes'
  <2>1. Ranks' = Ranks
    BY <1>1 DEF Ranks
  <2>2. requests' = [u \in Ranks |-> requests'[u]]
    BY <1>0, <1>1 DEF SwapTypes
  <2> QED
    BY <1>0, <1>1, <2>1, <2>2 DEF SwapTypes
<1> QED
  BY <1>1, <1>4, <1>5, <1>6, <1>7, SwapBoth

LEMMA SwapPosts ==
  ASSUME SwapInv, world = 2, NEW r \in Ranks, Post(r), at[r] = 2
  PROVE  SwapInv'
<1> PICK q \in Ranks : q = 1 - r
  BY SwapRanks
<1>0. /\ q # r /\ r = 1 - q /\ Swaps(r) /\ Swaps(q) /\ SwapTypes
      /\ at \in [Ranks -> Nat \ {0}] /\ at[q] \in Nat \ {0}
  BY SwapRanks DEF SwapInv
<1>1. Op(r).op = "isend" /\ Op(r).peer = q /\ Op(r).tag = 99 /\ Op(r).data = r
  BY SwapScript DEF SwapInv, Op
<1>2. /\ prog' = prog /\ world' = world /\ requests' = requests /\ got' = got
      /\ channel' = [channel EXCEPT ![<<r, q>>] = Append(@, Message(99, r, 2))]
      /\ at' = [at EXCEPT ![r] = 3] /\ phase' = [phase EXCEPT ![r] = "enter"]
  <2>1. channel' = [channel EXCEPT ![<<r, Op(r).peer>>] =
                      Append(@, [tag |-> Op(r).tag, data |-> Op(r).data, id |-> at[r]])]
    BY DEF Post
  <2>2. [tag |-> Op(r).tag, data |-> Op(r).data, id |-> at[r]] = Message(99, r, 2)
    BY <1>1 DEF Message
  <2>3. GoOn(r) /\ UNCHANGED <<prog, world, requests, got>>
    BY <1>1 DEF Post
  <2>4. channel' = [channel EXCEPT ![<<r, q>>] = Append(@, Message(99, r, 2))]
    BY <1>1, <2>1, <2>2
  <2>5. at' = [at EXCEPT ![r] = 3] /\ phase' = [phase EXCEPT ![r] = "enter"]
    BY <1>0, <2>3 DEF GoOn
  <2> QED
    BY <2>3, <2>4, <2>5
<1>3. /\ at'[r] = 3 /\ at'[q] = at[q] /\ phase'[r] = "enter" /\ phase'[q] = phase[q]
  BY <1>0, <1>2 DEF SwapTypes
<1>4. got[q] = <<>> /\ channel[<<r, q>>] = <<>>
  <2>1. got[q] # <<>> => at[1 - q] >= 3
    BY <1>0 DEF Swaps
  <2>2. at[1 - q] = 2 /\ <<1 - q, q>> = <<r, q>>
    BY <1>0
  <2>3. channel[<<1 - q, q>>] =
          IF at[1 - q] >= 3 /\ got[q] = <<>> THEN <<Message(99, 1 - q, 2)>> ELSE <<>>
    BY <1>0 DEF Swaps
  <2> QED
    BY <2>1, <2>2, <2>3
<1>5. /\ channel'[<<r, q>>] = <<Message(99, r, 2)>>
      /\ channel'[<<q, r>>] = channel[<<q, r>>]
      /\ channel'[<<r, r>>] = channel[<<r, r>>] /\ channel'[<<q, q>>] = channel[<<q, q>>]
  <2>1. <<r, q>> \in Ranks \X Ranks /\ <<q, r>> \in Ranks \X Ranks
        /\ <<r, r>> \in Ranks \X Ranks /\ <<q, q>> \in Ranks \X Ranks
    OBVIOUS
  <2>2. <<q, r>> # <<r, q>> /\ <<r, r>> # <<r, q>> /\ <<q, q>> # <<r, q>>
    BY <1>0
  <2>3. channel'[<<r, q>>] = Append(<<>>, Message(99, r, 2))
    BY <1>0, <1>2, <1>4, <2>1 DEF SwapTypes
  <2>4. Append(<<>>, Message(99, r, 2)) = <<Message(99, r, 2)>>
    OBVIOUS
  <2>5. /\ channel'[<<q, r>>] = channel[<<q, r>>]
        /\ channel'[<<r, r>>] = channel[<<r, r>>] /\ channel'[<<q, q>>] = channel[<<q, q>>]
    BY <1>0, <1>2, <2>1, <2>2 DEF SwapTypes
  <2> QED
    BY <2>3, <2>4, <2>5
<1>6. Swaps(r)'
  <2>1. /\ got[r] \in {<<>>, <<q>>} /\ (got[r] # <<>> => at[q] >= 3)
        /\ requests[r] = IF got[r] = <<>> THEN {1} ELSE {}
        /\ channel[<<q, r>>] = IF at[q] >= 3 /\ got[r] = <<>> THEN <<Message(99, q, 2)>> ELSE <<>>
        /\ channel[<<r, r>>] = <<>>
    BY <1>0 DEF Swaps
  <2> QED
    BY <1>0, <1>2, <1>3, <1>5, <2>1 DEF Swaps
<1>7. Swaps(q)'
  <2>1. /\ requests[q] = IF at[q] >= 2 THEN {1} ELSE {}
        /\ channel[<<q, q>>] = <<>>
        /\ at[q] <= 4 /\ phase[q] = "enter" /\ at[q] # 4
    BY <1>0, <1>4 DEF Swaps
  <2>2. /\ 1 - q = r /\ got'[q] = <<>> /\ at'[q] = at[q] /\ at'[r] >= 3
        /\ requests'[q] = requests[q] /\ phase'[q] = phase[q]
        /\ channel'[<<r, q>>] = <<Message(99, r, 2)>> /\ channel'[<<q, q>>] = channel[<<q, q>>]
    <3>1. 1 - q = r
      BY SwapRanks
    <3>2. at'[r] >= 3
      BY <1>3
    <3> QED
      BY <1>2, <1>3, <1>4, <1>5, <3>1, <3>2
  <2> QED
    BY <2>1, <2>2 DEF Swaps
<1>8. at' \in [Ranks -> Nat \ {0}]
  BY <1>0, <1>2
<1>9. SwapTypes'
  <2>1. Ranks' = Ranks
    BY <1>2 DEF Ranks
  <2>2. channel' = [pair \in Ranks \X Ranks |-> channel'[pair]]
    BY <1>0, <1>2 DEF SwapTypes
  <2>3. phase' \in [Ranks -> {"enter", "inside"}]
    BY <1>0, <1>2 DEF SwapTypes
  <2> QED
    BY <1>0, <1>2, <2>1, <2>2, <2>3 DEF SwapTypes
<1> QED
  BY <1>2, <1>6, <1>7, <1>8, <1>9, SwapBoth

LEMMA SwapWaits ==
  ASSUME SwapInv, world = 2, NEW r \in Ranks, at[r] = 3, requests[r] = {}, GoOn(r),
         UNCHANGED <<prog, world, channel, requests, got>>
  PROVE  SwapInv'
<1> PICK q \in Ranks : q = 1 - r
  BY SwapRanks
<1>0. /\ q # r /\ r = 1 - q /\ Swaps(r) /\ Swaps(q) /\ SwapTypes
      /\ at \in [Ranks -> Nat \ {0}] /\ at[q] \in Nat \ {0}
  BY SwapRanks DEF SwapInv
<1>1. at' = [at EXCEPT ![r] = 4] /\ phase' = [phase EXCEPT ![r] = "enter"]
  BY <1>0 DEF GoOn
<1>2. /\ at'[r] = 4 /\ at'[q] = at[q] /\ phase'[r] = "enter" /\ phase'[q] = phase[q]
  BY <1>0, <1>1 DEF SwapTypes
<1>3. got[r] # <<>>
  <2>1. requests[r] = IF at[r] >= 2 /\ got[r] = <<>> THEN {1} ELSE {}
    BY <1>0 DEF Swaps
  <2>2. {1} # {} /\ 3 >= 2
    OBVIOUS
  <2> QED
    BY <2>1, <2>2, Zenon
<1>4. Swaps(r)'
  BY <1>0, <1>2, <1>3 DEF Swaps
<1>5. Swaps(q)'
  BY <1>0, <1>2 DEF Swaps
<1>6. SwapTypes' /\ at' \in [Ranks -> Nat \ {0}]
  BY <1>0, <1>1 DEF SwapTypes, Ranks
<1> QED
  BY <1>4, <1>5, <1>6, SwapBoth

LEMMA SwapDelivers ==
  ASSUME SwapInv, world = 2, NEW r \in Ranks, Deliver(r)
  PROVE  SwapInv'
<1> PICK q \in Ranks : q = 1 - r
  BY SwapRanks
<1>0. /\ q # r /\ r = 1 - q /\ Swaps(r) /\ Swaps(q) /\ SwapTypes /\ Ranks = {0, 1}
      /\ at \in [Ranks -> Nat \ {0}] /\ at[q] \in Nat \ {0} /\ at[r] \in Nat \ {0}
  BY SwapRanks DEF SwapInv
<1>1. PICK k \in requests[r], s \in Ranks :
        /\ Script(r)[k].peer \in {s, AnySource}
        /\ Take(s, r, Script(r)[k].tag)
        /\ requests' = [requests EXCEPT ![r] = @ \ {k}]
  BY DEF Deliver
<1>2. k = 1 /\ requests[r] = {1} /\ got[r] = <<>> /\ at[r] >= 2
  BY <1>0 DEF Swaps
<1>3. Script(r)[1].peer = q /\ Script(r)[1].tag = 99
  BY SwapScript DEF SwapInv
<1>4. s = q
  BY <1>0, <1>1, <1>2, <1>3 DEF AnySource
<1>5. /\ FirstWith(99, channel[<<q, r>>]) # 0
      /\ got' = [got EXCEPT ![r] =
                    Append(@, channel[<<q, r>>][FirstWith(99, channel[<<q, r>>])].data)]
      /\ channel' = [channel EXCEPT ![<<q, r>>] = RemoveAt(@, FirstWith(99, channel[<<q, r>>]))]
  BY <1>1, <1>2, <1>3, <1>4 DEF Take, Get
<1>6. at[q] >= 3 /\ channel[<<q, r>>] = <<Message(99, q, 2)>>
  <2>1. Len(<<>>) = 0
    OBVIOUS
  <2>2. channel[<<q, r>>] # <<>>
    BY <1>5, <2>1, FirstWithTag
  <2> QED
    BY <1>0, <2>2 DEF Swaps
<1>7. /\ FirstWith(99, channel[<<q, r>>]) = 1
      /\ channel[<<q, r>>][1].data = q
      /\ RemoveAt(channel[<<q, r>>], 1) = <<>>
  <2> DEFINE f == [i \in {1} |-> Message(99, q, 2)]
  <2>1. Messages(f, 1, 1) = <<Message(99, q, 2)>>
    BY DEF Messages
  <2>2. f[1].tag = 99 /\ f[1].data = q
    BY DEF Message
  <2>3. Messages(f, 2, 1) = <<>>
    BY DEF Messages
  <2> HIDE DEF f
  <2>4. channel[<<q, r>>] = Messages(f, 1, 1)
    BY <1>6, <2>1
  <2>5. 1 \in Nat /\ 1 <= 1 + 1 /\ 1 + 1 = 2
    OBVIOUS
  <2>6. /\ FirstWith(f[1].tag, channel[<<q, r>>]) = 1
        /\ channel[<<q, r>>][1] = f[1]
        /\ RemoveAt(channel[<<q, r>>], 1) = Messages(f, 1 + 1, 1)
    <3>1. FirstWith(f[1].tag, channel[<<q, r>>]) # 0
      BY <1>5, <2>2
    <3> QED
      BY <2>4, <2>5, <3>1, FirstTaken
  <2> QED
    BY <2>2, <2>3, <2>5, <2>6
<1>8. /\ prog' = prog /\ world' = world /\ at' = at /\ phase' = phase
      /\ got' = [got EXCEPT ![r] = <<q>>]
      /\ channel' = [channel EXCEPT ![<<q, r>>] = <<>>]
      /\ requests' = [requests EXCEPT ![r] = {}]
  <2>1. prog' = prog /\ world' = world /\ at' = at /\ phase' = phase
    BY DEF Deliver
  <2>2. Append(<<>>, q) = <<q>>
    OBVIOUS
  <2> QED
    BY <1>1, <1>2, <1>5, <1>7, <2>1, <2>2
<1>9. /\ got'[r] = <<q>> /\ got'[q] = got[q]
      /\ requests'[r] = {} /\ requests'[q] = requests[q]
  BY <1>0, <1>8 DEF SwapTypes
<1>10. /\ channel'[<<q, r>>] = <<>>
       /\ channel'[<<r, q>>] = channel[<<r, q>>]
       /\ channel'[<<r, r>>] = channel[<<r, r>>] /\ channel'[<<q, q>>] = channel[<<q, q>>]
  <2>1. <<r, q>> \in Ranks \X Ranks /\ <<q, r>> \in Ranks \X Ranks
        /\ <<r, r>> \in Ranks \X Ranks /\ <<q, q>> \in Ranks \X Ranks
    OBVIOUS
  <2>2. <<r, q>> # <<q, r>> /\ <<r, r>> # <<q, r>> /\ <<q, q>> # <<q, r>>
    BY <1>0
  <2> QED
    BY <1>0, <1>8, <2>1, <2>2 DEF SwapTypes
<1>11. <<q>> # <<>>
  OBVIOUS
<1>12. Swaps(r)'
  BY <1>0, <1>2, <1>6, <1>8, <1>9, <1>10, <1>11 DEF Swaps
<1>13. Swaps(q)'
  BY <1>0, <1>8, <1>9, <1>10 DEF Swaps
<1>14. SwapTypes' /\ at' \in [Ranks -> Nat \ {0}]
  BY <1>0, <1>8 DEF SwapTypes, Ranks
<1> QED
  BY <1>8, <1>12, <1>13, <1>14, SwapBoth

LEMMA SwapNext == SwapInv /\ [Next]_vars => SwapInv'
<1> SUFFICES ASSUME SwapInv, [Next]_vars PROVE SwapInv'
  OBVIOUS
<1>1. ASSUME UNCHANGED <<prog, world, at, phase, channel, requests, got>> PROVE SwapInv'
  <2>1. Ranks' = Ranks /\ (SizeOK' <=> SizeOK)
    BY <1>1 DEF Ranks, SizeOK
  <2>2. SwapTypes' <=> SwapTypes
    BY <1>1, <2>1 DEF SwapTypes
  <2>3. \A r : Swaps(r)' <=> Swaps(r)
    BY <1>1 DEF Swaps
  <2> QED
    BY <1>1, <2>1, <2>2, <2>3 DEF SwapInv
<1>2. ASSUME NEW r \in Ranks, Act(r) \/ ReturnsBuffered(r) \/ LeaveEarly(r), world = 2
      PROVE  SwapInv'
  <2>1. ~(Void(r) /\ at[r] \in {1, 2})
    <3>1. ASSUME NEW ops, Doing(r, ops, "enter"), at[r] \in {1, 2} PROVE Op(r).peer \in Ranks
      BY <1>2, <3>1, SwapPlace, SwapRanks
    <3>2. ProcNull \notin Ranks
      BY SwapRanks, <1>2 DEF ProcNull
    <3> QED
      BY <3>1, <3>2 DEF Void
  <2> QED
    BY <1>1, <1>2, <2>1, SwapActs, SwapOpens, SwapPosts, SwapWaits, SwapDelivers
<1>3. CASE \E r \in Ranks : Act(r) \/ ReturnsBuffered(r) \/ LeaveEarly(r)
  BY <1>2, <1>3, SwapStuck
<1>4. CASE UNCHANGED vars
  BY <1>1, <1>4 DEF vars
<1> QED
  BY <1>3, <1>4 DEF Next, Ended

LEMMA SwapCollected == SwapInv => Collected
<1> SUFFICES ASSUME SwapInv, AllDone PROVE Collected
  BY DEF Collected
<1>1. \A r \in Ranks : at[r] \in Nat /\ at[r] > 3
  BY SwapScript DEF SwapInv, AllDone, Finished
<1>2. world = 2
  <2>1. world \in Nat \ {0} /\ 0 \in Ranks /\ (world > 2 => 2 \in Ranks)
    BY DEF SwapInv, SizeOK, Ranks
  <2>2. world # 1
    BY <1>1, <2>1 DEF SwapInv
  <2>3. ~(world > 2)
    BY <1>1, <2>1 DEF SwapInv
  <2> QED
    BY <2>1, <2>2, <2>3
<1>3. ASSUME NEW r \in Ranks
      PROVE  got[r] = <<1 - r>> /\ requests[r] = {}
             /\ channel[<<1 - r, r>>] = <<>> /\ channel[<<r, r>>] = <<>>
  <2>1. Swaps(r) /\ at[r] = 4
    <3>1. Swaps(r)
      BY <1>2 DEF SwapInv
    <3>2. at[r] <= 4
      BY <3>1 DEF Swaps
    <3> QED
      BY <1>1, <3>1, <3>2
  <2> QED
    BY <2>1 DEF Swaps
<1>4. Ranks = {0, 1}
  BY <1>2 DEF Ranks
<1>5. ASSUME NEW pair \in Ranks \X Ranks PROVE channel[pair] = <<>>
  <2>1. PICK u \in Ranks, r \in Ranks : pair = <<u, r>>
    OBVIOUS
  <2>2. u = r \/ u = 1 - r
    BY <1>4
  <2> QED
    BY <1>3, <2>1, <2>2
<1>6. got[0] = <<1>> /\ got[1] = <<0>>
  BY <1>3, <1>4
<1>7. prog = "IrecvIsend"
  BY DEF SwapInv
<1> QED
  BY <1>3, <1>5, <1>6, <1>7 DEF Collected

-----------------------------------------------------------------------------

(* When a job ends without an error, every message has been received by    *)
(* the operation it was meant for, and the collectives have distributed    *)
(* and collected what they should: in every program, for every size of the *)
(* job and every number of elements.                                       *)
THEOREM AllIsCollected ==
  ASSUME Programs \subseteq AllPrograms
  PROVE  Spec => []Collected
<1> DEFINE Inv == CollInv \/ LetterInv \/ SwapInv
<1>1. Init => Inv
  <2>1. Init => prog \in AllPrograms
    BY DEF Init
  <2>2. prog \in AllPrograms => prog \in CollPrograms \/ prog \in Letters \/ prog = "IrecvIsend"
    BY DEF AllPrograms, CollPrograms, Letters
  <2> QED
    BY <2>1, <2>2, CollInit, LetterInit, SwapInit
<1>2. Inv /\ [Next]_vars => Inv'
  BY CollNext, LetterNext, SwapNext
<1>3. Inv => Collected
  BY CollCollected, LetterCollected, SwapCollected
<1> QED
  BY <1>1, <1>2, <1>3, PTL DEF Spec
=============================================================================

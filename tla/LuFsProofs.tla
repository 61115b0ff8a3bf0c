----------------------------- MODULE LuFsProofs -----------------------------
(***************************************************************************)
(* Proofs about LuFs, for every set of directories, whatever their depth   *)
(* and the sizes of their files, and for every form in which names are     *)
(* stored: what is extracted from an image is the directory packed, the    *)
(* listing of an image shows what the extraction makes of it, and tables   *)
(* and files lie one behind the other.                                     *)
(*                                                                         *)
(* The listing is the easier part: both walks are the iteration of one     *)
(* function on places, and the place at which it ends is the only one.     *)
(* The round trip needs to know where the walk is: Walking says it, for    *)
(* the directories gone into and those whose tables the walk is in.        *)
(***************************************************************************)
EXTENDS LuFs, FiniteSetTheorems, SequenceTheorems, WellFoundedInduction, TLAPS

-----------------------------------------------------------------------------
(* Least numbers, recursion, sums.  What a recursive function computes is  *)
(* proved without an induction rule: of the numbers for which it fails     *)
(* there is a least one.                                                   *)

\* The order of the numbers, as a set of pairs.
Below == {p \in Nat \X Nat : p[1] < p[2]}

\* A set of numbers that is not empty has a least one.
LEMMA Least ==
  ASSUME NEW T, T \subseteq Nat, T # {}
  PROVE  \E x \in T : \A y \in T : x <= y
<1>1. IsWellFoundedOn(Below, Nat) BY NatLessThanWellFounded DEF OpToRel, Below
<1>2. PICK x \in T : \A y \in T : ~ (<<y, x>> \in Below) BY <1>1, WFMin
<1>3. ASSUME NEW y \in T, ~ (x <= y) PROVE FALSE
  <2>1. y < x /\ x \in Nat /\ y \in Nat BY <1>3
  <2>2. <<y, x>> \in Below BY <2>1 DEF Below
  <2> QED BY <1>2, <2>2
<1> QED BY <1>3

\* A sequence in which each element is computed from the one before it.
StepsOf(n, A) == [(1 .. n) \X A -> A]
Computed(f, n, A, a, F) ==
  f \in [1 .. n + 1 -> A] /\ f[1] = a /\ \A i \in 1 .. n : f[i + 1] = F[<<i, f[i]>>]
\* Such a sequence exists, from every first element on.
LEMMA Recursion ==
  ASSUME NEW n \in Nat, NEW A, NEW a \in A, NEW F \in StepsOf(n, A)
  PROVE  \E f : Computed(f, n, A, a, F)
<1> DEFINE Good(k) == \E f \in [1 .. k + 1 -> A] :
                         f[1] = a /\ \A i \in 1 .. k : f[i + 1] = F[<<i, f[i]>>]
           Bad == {k \in 0 .. n : ~ Good(k)}
<1>1. Good(0)
  <2> DEFINE f == [i \in 1 .. 1 |-> a]
  <2>1. f \in [1 .. 0 + 1 -> A] /\ f[1] = a OBVIOUS
  <2>2. \A i \in 1 .. 0 : f[i + 1] = F[<<i, f[i]>>] OBVIOUS
  <2> QED BY <2>1, <2>2
<1> USE DEF StepsOf
<1>2. ASSUME NEW k \in 0 .. n - 1, Good(k) PROVE Good(k + 1)
  <2>1. PICK f \in [1 .. k + 1 -> A] :
           f[1] = a /\ \A i \in 1 .. k : f[i + 1] = F[<<i, f[i]>>]
    BY <1>2
  <2> DEFINE x == F[<<k + 1, f[k + 1]>>]
             g == [i \in 1 .. k + 2 |-> IF i = k + 2 THEN x ELSE f[i]]
  <2>2. k + 1 \in 1 .. n /\ k + 1 \in 1 .. k + 1 /\ k + 2 = (k + 1) + 1 OBVIOUS
  <2>3. x \in A BY <2>2
  <2> HIDE DEF x
  <2>4. g \in [1 .. (k + 1) + 1 -> A] BY <2>2, <2>3
  <2>5. g[1] = a BY <2>1
  <2>6. ASSUME NEW i \in 1 .. k + 1 PROVE g[i + 1] = F[<<i, g[i]>>]
    <3>1. g[i] = f[i] BY <2>6
    <3>2. CASE i = k + 1
      <4>1. i + 1 = k + 2 /\ i + 1 \in 1 .. k + 2 BY <3>2
      <4>2. g[i + 1] = x BY <4>1
      <4> QED BY <3>1, <3>2, <4>2 DEF x
    <3>3. CASE i \in 1 .. k
      <4>1. i + 1 # k + 2 /\ i + 1 \in 1 .. k + 2 BY <3>3
      <4>2. g[i + 1] = f[i + 1] BY <4>1
      <4> QED BY <2>1, <3>1, <3>3, <4>2
    <3> QED BY <3>2, <3>3
  <2> HIDE DEF g
  <2> QED BY <2>4, <2>5, <2>6
<1>3. ASSUME Bad # {} PROVE FALSE
  <2>1. Bad \subseteq Nat OBVIOUS
  <2> HIDE DEF Good
  <2>2. PICK x \in Bad : \A y \in Bad : x <= y
    <3> HIDE DEF Bad
    <3> QED BY <1>3, <2>1, Least
  <2>3. x # 0 /\ x \in 0 .. n BY <1>1, <2>2
  <2>4. x - 1 \in 0 .. n - 1 /\ (x - 1) + 1 = x /\ x - 1 \in 0 .. n BY <2>3
  <2>5. Good(x - 1) BY <2>2, <2>4
  <2>6. Good((x - 1) + 1) BY <1>2, <2>4, <2>5
  <2> QED BY <2>2, <2>4, <2>6
<1>4. Good(n)
  <2> HIDE DEF Good
  <2>1. n \in 0 .. n OBVIOUS
  <2> QED BY <1>3, <2>1
<1> QED BY <1>4 DEF Computed

\* Offsets: each is the one before it and the size of what lies there.
Accumulate(at, start, sizes, n) ==
  /\ at \in [1 .. n + 1 -> Nat] /\ at[1] = start
  /\ \A i \in 1 .. n : at[i + 1] = at[i] + sizes[i]

\* The offsets that LuFs computes by recursion are such offsets.
LEMMA OffsetsAre ==
  ASSUME NEW start \in Nat, NEW sizes, NEW n \in Nat, Len(sizes) = n,
         \A i \in 1 .. n : sizes[i] \in Nat
  PROVE  Accumulate(Offsets(start, sizes), start, sizes, n)
<1> DEFINE Is(g) == g = [i \in 1 .. Len(sizes) + 1 |->
                           IF i = 1 THEN start ELSE g[i - 1] + sizes[i - 1]]
           F == [p \in (1 .. n) \X Nat |-> p[2] + sizes[p[1]]]
           at == Offsets(start, sizes)
<1>1. F \in [(1 .. n) \X Nat -> Nat]
  <2>1. \A p \in (1 .. n) \X Nat : p[2] + sizes[p[1]] \in Nat OBVIOUS
  <2> QED BY <2>1
<1>2. \A i \in 1 .. n, x \in Nat : F[<<i, x>>] = x + sizes[i] OBVIOUS
<1> HIDE DEF F
<1>3. PICK f \in [1 .. n + 1 -> Nat] : f[1] = start /\ \A i \in 1 .. n : f[i + 1] = F[<<i, f[i]>>]
  <2> HIDE DEF Is, at
  <2>1. F \in StepsOf(n, Nat) BY <1>1 DEF StepsOf
  <2>2. \E f : Computed(f, n, Nat, start, F) BY <2>1, Recursion
  <2> QED BY <2>2 DEF Computed
<1>4. Is(f)
  <2>1. ASSUME NEW i \in 1 .. n + 1, i # 1 PROVE f[i] = f[i - 1] + sizes[i - 1]
    <3>1. i - 1 \in 1 .. n /\ (i - 1) + 1 = i BY <2>1
    <3>2. f[i - 1] \in Nat BY <3>1
    <3> QED BY <1>2, <1>3, <3>1, <3>2
  <2> QED BY <1>3, <2>1
<1>5. at = CHOOSE g : Is(g) BY DEF Offsets
<1> HIDE DEF Is
<1>6. Is(at) BY <1>4, <1>5
<1>7. at = [i \in 1 .. n + 1 |-> IF i = 1 THEN start ELSE at[i - 1] + sizes[i - 1]]
  BY <1>6 DEF Is
<1> HIDE DEF at
<1>8. at[1] = start BY <1>7
<1>9. ASSUME NEW i \in 1 .. n PROVE at[i + 1] = at[i] + sizes[i]
  <2>1. i + 1 \in 1 .. n + 1 /\ i + 1 # 1 /\ (i + 1) - 1 = i OBVIOUS
  <2> QED BY <1>7, <2>1
<1>10. ASSUME NEW j \in 1 .. n + 1, at[j] # f[j] PROVE FALSE
  <2> DEFINE Bad == {i \in 1 .. n + 1 : at[i] # f[i]}
  <2>1. Bad \subseteq Nat /\ Bad # {} BY <1>10
  <2>2. PICK x \in Bad : \A y \in Bad : x <= y
    <3> HIDE DEF Bad
    <3> QED BY <2>1, Least
  <2>3. x \in 1 .. n + 1 /\ x # 1 BY <1>3, <1>8, <2>2
  <2>4. x - 1 \in 1 .. n /\ (x - 1) + 1 = x /\ x - 1 \in 1 .. n + 1 BY <2>3
  <2>5. at[x - 1] = f[x - 1] /\ f[x - 1] \in Nat BY <2>2, <2>4
  <2>6. at[x] = at[x - 1] + sizes[x - 1] BY <1>9, <2>4
  <2>7. f[x] = f[x - 1] + sizes[x - 1] BY <1>2, <1>3, <2>4, <2>5
  <2> QED BY <2>2, <2>5, <2>6, <2>7
<1>11. at \in [1 .. n + 1 -> Nat]
  <2>1. \A j \in 1 .. n + 1 : at[j] = f[j] /\ f[j] \in Nat BY <1>10
  <2> QED BY <1>7, <2>1
<1> QED BY <1>8, <1>9, <1>11 DEF at, Accumulate

\* Offsets in units of c and from another start.
Scaled(sizes, scaled, n, c) ==
  /\ Len(sizes) = n /\ Len(scaled) = n
  /\ \A i \in 1 .. n : sizes[i] \in Nat /\ scaled[i] = c * sizes[i]
Scales(by, at, n, start, c) == \A i \in 1 .. n + 1 : by[i] = start + c * at[i]
\* Offsets of ranges that are c times as long, from another start.
LEMMA OffsetsScale ==
  ASSUME NEW start \in Nat, NEW c \in Nat, NEW sizes, NEW scaled, NEW n \in Nat,
         Scaled(sizes, scaled, n, c)
  PROVE  Scales(Offsets(start, scaled), Offsets(0, sizes), n, start, c)
<1> DEFINE at == Offsets(0, sizes)
           by == Offsets(start, scaled)
<1>0. /\ Len(sizes) = n /\ Len(scaled) = n
      /\ \A i \in 1 .. n : sizes[i] \in Nat /\ scaled[i] = c * sizes[i]
  BY DEF Scaled
<1>1. \A x, y \in Nat : c * x \in Nat /\ c * (x + y) = c * x + c * y OBVIOUS
<1>2. /\ at \in [1 .. n + 1 -> Nat] /\ at[1] = 0
      /\ \A i \in 1 .. n : at[i + 1] = at[i] + sizes[i]
  <2>1. Accumulate(at, 0, sizes, n) BY <1>0, OffsetsAre
  <2> QED BY <2>1 DEF Accumulate
<1>3. /\ by \in [1 .. n + 1 -> Nat] /\ by[1] = start
      /\ \A i \in 1 .. n : by[i + 1] = by[i] + scaled[i]
  <2>1. \A i \in 1 .. n : scaled[i] \in Nat BY <1>0, <1>1
  <2>2. Accumulate(by, start, scaled, n) BY <1>0, <2>1, OffsetsAre
  <2> QED BY <2>2 DEF Accumulate
<1> HIDE DEF at, by
<1> DEFINE Bad == {i \in 1 .. n + 1 : by[i] # start + c * at[i]}
<1>4. ASSUME Bad # {} PROVE FALSE
  <2>1. Bad \subseteq Nat OBVIOUS
  <2>2. PICK x \in Bad : \A y \in Bad : x <= y
    <3> HIDE DEF Bad
    <3> QED BY <1>4, <2>1, Least
  <2>3. x \in 1 .. n + 1 /\ by[x] # start + c * at[x] BY <2>2
  <2>4. x # 1
    <3>1. c * 0 = 0 OBVIOUS
    <3> QED BY <1>2, <1>3, <2>3, <3>1
  <2>5. x - 1 \in 1 .. n /\ (x - 1) + 1 = x /\ x - 1 \in 1 .. n + 1 /\ ~ (x <= x - 1)
    BY <2>3, <2>4
  <2>6. by[x - 1] = start + c * at[x - 1] BY <2>2, <2>5
  <2> DEFINE a == at[x - 1]  s == sizes[x - 1]
  <2>7. by[x] = (start + c * a) + c * s BY <1>0, <1>3, <2>5, <2>6
  <2>8. at[x] = a + s /\ a \in Nat /\ s \in Nat BY <1>0, <1>2, <2>5
  <2>9. c * at[x] = c * a + c * s /\ c * a \in Nat /\ c * s \in Nat
    <3> HIDE DEF a, s
    <3> QED BY <1>1, <2>8
  <2> HIDE DEF a, s
  <2> DEFINE ca == c * a  cs == c * s  cx == c * at[x]
  <2>10. by[x] = (start + ca) + cs /\ cx = ca + cs /\ ca \in Nat /\ cs \in Nat
         /\ by[x] # start + cx
    BY <2>3, <2>7, <2>9
  <2> HIDE DEF ca, cs, cx
  <2> QED BY <2>10
<1> QED BY <1>4 DEF Scales, at, by

\* Sequences one behind the other: each begins at the sum of the lengths of those
\* before it.
Flattened(flat, seqs, at, n, X) ==
  /\ flat \in Seq(X) /\ Len(flat) = at[n + 1]
  /\ \A i \in 1 .. n : \A k \in 1 .. Len(seqs[i]) :
       at[i] + k \in 1 .. at[n + 1] /\ flat[at[i] + k] = seqs[i][k]

\* What the elements of s \o t are.
Joined(s, t, X) ==
  /\ s \o t \in Seq(X) /\ Len(s \o t) = Len(s) + Len(t)
  /\ \A k \in 1 .. Len(s) : (s \o t)[k] = s[k]
  /\ \A k \in 1 .. Len(t) : (s \o t)[Len(s) + k] = t[k]
\* The concatenation of two sequences has the elements of both.
LEMMA ConcatIs ==
  ASSUME NEW X, NEW s \in Seq(X), NEW t \in Seq(X)
  PROVE  Joined(s, t, X)
<1>1. s \o t \in Seq(X) /\ Len(s \o t) = Len(s) + Len(t) BY ConcatProperties
<1>2. \A k \in 1 .. Len(s) + Len(t) :
         (s \o t)[k] = IF k <= Len(s) THEN s[k] ELSE t[k - Len(s)]
  BY ConcatProperties
<1>3. Len(s) \in Nat /\ Len(t) \in Nat OBVIOUS
<1>4. ASSUME NEW k \in 1 .. Len(s) PROVE (s \o t)[k] = s[k]
  <2>1. k \in 1 .. Len(s) + Len(t) /\ k <= Len(s) BY <1>3
  <2> QED BY <1>2, <2>1
<1>5. ASSUME NEW k \in 1 .. Len(t) PROVE (s \o t)[Len(s) + k] = t[k]
  <2>1. /\ Len(s) + k \in 1 .. Len(s) + Len(t) /\ ~ (Len(s) + k <= Len(s))
        /\ Len(s) + k - Len(s) = k
    BY <1>3
  <2> QED BY <1>2, <2>1
<1> QED BY <1>1, <1>4, <1>5 DEF Joined

\* FlattenSeq puts the sequences one behind the other.
LEMMA FlattenIs ==
  ASSUME NEW X, NEW n \in Nat, NEW seqs \in Seq(Seq(X)), Len(seqs) = n,
         NEW at, NEW lens, Accumulate(at, 0, lens, n),
         \A i \in 1 .. n : lens[i] = Len(seqs[i])
  PROVE  Flattened(FlattenSeq(seqs), seqs, at, n, X)
<1> DEFINE Is(g) == g = [i \in 1 .. Len(seqs) |-> IF i = 1 THEN seqs[i] ELSE g[i - 1] \o seqs[i]]
           F == [p \in (1 .. n - 1) \X Seq(X) |-> p[2] \o seqs[p[1] + 1]]
           Q(g, i) == Flattened(g[i], seqs, at, i, X)
<1>1. /\ at \in [1 .. n + 1 -> Nat] /\ at[1] = 0
      /\ \A i \in 1 .. n : at[i + 1] = at[i] + lens[i]
  BY DEF Accumulate
<1>2. \A i \in 1 .. n : seqs[i] \in Seq(X) OBVIOUS
<1>3. CASE n = 0
  <2>1. FlattenSeq(seqs) = << >> BY <1>3 DEF FlattenSeq
  <2>2. Len(<< >>) = at[0 + 1] /\ << >> \in Seq(X) BY <1>1
  <2> QED BY <1>3, <2>1, <2>2 DEF Flattened
<1>4. CASE n # 0
  <2> DEFINE g == CHOOSE g : Is(g)
  <2>1. F \in StepsOf(n - 1, Seq(X))
    <3>1. \A p \in (1 .. n - 1) \X Seq(X) : p[2] \o seqs[p[1] + 1] \in Seq(X)
      <4>1. ASSUME NEW i \in 1 .. n - 1, NEW s \in Seq(X) PROVE s \o seqs[i + 1] \in Seq(X)
        <5>1. seqs[i + 1] \in Seq(X) BY <1>2, <1>4
        <5> QED BY <5>1, ConcatProperties
      <4> QED BY <4>1
    <3> QED BY <3>1 DEF StepsOf
  <2>2. \A i \in 1 .. n - 1, s \in Seq(X) : F[<<i, s>>] = s \o seqs[i + 1] OBVIOUS
  <2> HIDE DEF F
  <2>3. n - 1 \in Nat /\ seqs[1] \in Seq(X) /\ (n - 1) + 1 = n BY <1>2, <1>4
  <2>4. PICK f : Computed(f, n - 1, Seq(X), seqs[1], F) BY <2>1, <2>3, Recursion
  <2>5. /\ f \in [1 .. n -> Seq(X)] /\ f[1] = seqs[1]
        /\ \A i \in 1 .. n - 1 : f[i + 1] = F[<<i, f[i]>>]
    BY <2>3, <2>4 DEF Computed
  <2>6. Is(f)
    <3>1. ASSUME NEW i \in 1 .. n, i # 1 PROVE f[i] = f[i - 1] \o seqs[i]
      <4>1. i - 1 \in 1 .. n - 1 /\ (i - 1) + 1 = i /\ i - 1 \in 1 .. n BY <3>1
      <4>2. f[i - 1] \in Seq(X) BY <2>5, <4>1
      <4> QED BY <2>2, <2>5, <4>1, <4>2
    <3> QED BY <2>5, <3>1
  <2> HIDE DEF Is
  <2>7. Is(g) BY <2>6
  <2>8. g = [i \in 1 .. n |-> IF i = 1 THEN seqs[i] ELSE g[i - 1] \o seqs[i]]
    BY <2>7 DEF Is
  <2>9. FlattenSeq(seqs) = g[n] BY <1>4 DEF FlattenSeq, Is
  <2> HIDE DEF g, Q
  <2>10. Q(g, 1)
    <3>1. g[1] = seqs[1] /\ seqs[1] \in Seq(X) /\ 1 \in 1 .. n BY <1>2, <1>4, <2>8
    <3>2. Len(seqs[1]) \in Nat BY <3>1
    <3>3. at[1 + 1] = Len(seqs[1]) /\ at[1] = 0
      <4>1. lens[1] = Len(seqs[1]) /\ at[1 + 1] = at[1] + lens[1] BY <1>1, <3>1
      <4> QED BY <1>1, <3>2, <4>1
    <3> QED BY <3>1, <3>2, <3>3 DEF Q, Flattened
  <2>11. ASSUME NEW i \in 1 .. n - 1, Q(g, i) PROVE Q(g, i + 1)
    <3> DEFINE s == g[i]  t == seqs[i + 1]
    <3>1. i + 1 \in 1 .. n /\ i \in 1 .. n /\ i + 1 # 1 /\ (i + 1) - 1 = i OBVIOUS
    <3>2. g[i + 1] = s \o t BY <2>8, <3>1
    <3>3. s \in Seq(X) /\ t \in Seq(X) /\ Len(s) = at[i + 1]
      BY <1>2, <2>11, <3>1 DEF Q, Flattened
    <3>4. \A j \in 1 .. i : \A k \in 1 .. Len(seqs[j]) :
             at[j] + k \in 1 .. at[i + 1] /\ s[at[j] + k] = seqs[j][k]
      BY <2>11 DEF Q, Flattened
    <3>5. at[(i + 1) + 1] = at[i + 1] + Len(t) /\ at[i + 1] \in Nat /\ Len(t) \in Nat
      <4>1. lens[i + 1] = Len(seqs[i + 1]) /\ at[(i + 1) + 1] = at[i + 1] + lens[i + 1]
        BY <1>1, <3>1
      <4>2. at[i + 1] \in Nat BY <1>1, <3>1
      <4>3. Len(seqs[i + 1]) \in Nat BY <1>2, <3>1
      <4> QED BY <4>1, <4>2, <4>3
    <3> HIDE DEF s, t
    <3>6. /\ s \o t \in Seq(X) /\ Len(s \o t) = at[i + 1] + Len(t)
          /\ \A k \in 1 .. Len(s) : (s \o t)[k] = s[k]
          /\ \A k \in 1 .. Len(t) : (s \o t)[Len(s) + k] = t[k]
      <4>1. Joined(s, t, X) BY <3>3, ConcatIs
      <4> QED BY <3>3, <4>1 DEF Joined
    <3>7. ASSUME NEW j \in 1 .. i + 1, NEW k \in 1 .. Len(seqs[j])
          PROVE  at[j] + k \in 1 .. at[(i + 1) + 1] /\ (s \o t)[at[j] + k] = seqs[j][k]
      <4>1. CASE j \in 1 .. i
        <5>1. at[j] + k \in 1 .. at[i + 1] /\ s[at[j] + k] = seqs[j][k] BY <3>4, <4>1
        <5>2. at[j] + k \in 1 .. Len(s) BY <3>3, <5>1
        <5>3. \A x \in 1 .. at[i + 1] : x \in 1 .. at[i + 1] + Len(t) BY <3>5
        <5>4. at[j] + k \in 1 .. at[i + 1] + Len(t) BY <5>1, <5>3
        <5>5. at[j] + k \in 1 .. at[(i + 1) + 1] BY <3>5, <5>4, Zenon
        <5> QED BY <3>6, <5>1, <5>2, <5>5
      <4>2. CASE j = i + 1
        <5>1. k \in 1 .. Len(t) /\ seqs[j][k] = t[k] BY <4>2 DEF t
        <5>2. (s \o t)[Len(s) + k] = t[k] BY <3>6, <5>1
        <5>3. at[j] = Len(s) BY <3>3, <4>2
        <5>4. at[j] + k \in 1 .. at[(i + 1) + 1]
          <6>1. at[j] = at[i + 1] BY <3>3, <5>3
          <6>2. at[i + 1] + k \in 1 .. at[i + 1] + Len(t)
            <7> DEFINE x == at[i + 1]  l == Len(t)
            <7>1. x \in Nat /\ l \in Nat /\ k \in 1 .. l BY <3>5, <5>1
            <7> HIDE DEF x, l
            <7>2. x + k \in 1 .. x + l BY <7>1
            <7> QED BY <7>2 DEF x, l
          <6> QED BY <3>5, <6>1, <6>2, Zenon
        <5>5. (s \o t)[at[j] + k] = t[k] BY <5>2, <5>3
        <5> QED BY <5>1, <5>4, <5>5
      <4>3. j \in 1 .. i \/ j = i + 1 OBVIOUS
      <4> QED BY <4>1, <4>2, <4>3, Zenon
    <3> QED BY <3>2, <3>5, <3>6, <3>7 DEF Q, Flattened
  <2>12. ASSUME ~ Q(g, n) PROVE FALSE
    <3> DEFINE Bad == {i \in 1 .. n : ~ Q(g, i)}
    <3>1. Bad \subseteq Nat /\ Bad # {}
      <4>1. n \in Bad BY <1>4, <2>12
      <4> QED BY <4>1
    <3>2. PICK x \in Bad : \A y \in Bad : x <= y
      <4> HIDE DEF Bad
      <4> QED BY <3>1, Least
    <3>3. x \in 1 .. n /\ ~ Q(g, x) BY <3>2
    <3>4. x # 1 BY <2>10, <3>3
    <3>5. x - 1 \in 1 .. n - 1 /\ (x - 1) + 1 = x /\ x - 1 \in 1 .. n BY <3>3, <3>4
    <3>6. Q(g, x - 1) BY <3>2, <3>5
    <3>7. Q(g, (x - 1) + 1) BY <2>11, <3>5, <3>6
    <3> QED BY <3>3, <3>5, <3>7
  <2> QED BY <2>9, <2>12 DEF Q
<1> QED BY <1>3, <1>4

-----------------------------------------------------------------------------
(* The order of the paths. *)

\* No path precedes itself.
LEMMA PrecedesIrreflexive ==
  ASSUME NEW p \in Seq(Nat)
  PROVE  ~ Precedes(p, p)
<1> SUFFICES ASSUME NEW n \in 0 .. Len(p), n < Len(p), p[n + 1] < p[n + 1] PROVE FALSE
  BY DEF Precedes
<1>1. n + 1 \in 1 .. Len(p) /\ Len(p) \in Nat OBVIOUS
<1>2. p[n + 1] \in Nat BY <1>1, ElementOfSeq
<1> QED BY <1>2

\* The order of the paths is transitive.
LEMMA PrecedesTransitive ==
  ASSUME NEW p \in Seq(Nat), NEW q \in Seq(Nat), NEW r \in Seq(Nat),
         Precedes(p, q), Precedes(q, r)
  PROVE  Precedes(p, r)
<1>1. PICK m \in 0 .. Len(p) :
        /\ m < Len(q) /\ \A k \in 1 .. m : p[k] = q[k]
        /\ m = Len(p) \/ p[m + 1] < q[m + 1]
  BY DEF Precedes
<1>2. PICK n \in 0 .. Len(q) :
        /\ n < Len(r) /\ \A k \in 1 .. n : q[k] = r[k]
        /\ n = Len(q) \/ q[n + 1] < r[n + 1]
  BY DEF Precedes
<1>3. Len(p) \in Nat /\ Len(q) \in Nat /\ Len(r) \in Nat OBVIOUS
<1>4. CASE m < n
  <2>1. m \in 0 .. Len(p) /\ m < Len(r) BY <1>1, <1>2, <1>3, <1>4
  <2>2. \A k \in 1 .. m : p[k] = r[k]
    <3>1. \A k \in 1 .. m : k \in 1 .. n BY <1>3, <1>4
    <3> QED BY <1>1, <1>2, <3>1
  <2>3. m + 1 \in 1 .. n BY <1>3, <1>4
  <2>4. m = Len(p) \/ p[m + 1] < r[m + 1] BY <1>1, <1>2, <2>3
  <2> QED BY <2>1, <2>2, <2>4 DEF Precedes
<1>5. CASE n < m
  <2>1. n \in 0 .. Len(p) /\ n < Len(r) /\ n # Len(q) BY <1>1, <1>2, <1>3, <1>5
  <2>2. \A k \in 1 .. n : p[k] = r[k]
    <3>1. \A k \in 1 .. n : k \in 1 .. m BY <1>3, <1>5
    <3> QED BY <1>1, <1>2, <3>1
  <2>3. n + 1 \in 1 .. m BY <1>3, <1>5
  <2>4. p[n + 1] < r[n + 1] BY <1>1, <1>2, <2>1, <2>3
  <2> QED BY <2>1, <2>2, <2>4 DEF Precedes
<1>6. CASE n = m
  <2>1. n # Len(q) BY <1>1, <1>3, <1>6
  <2>2. \A k \in 1 .. m : p[k] = r[k] BY <1>1, <1>2, <1>6
  <2>3. m = Len(p) \/ p[m + 1] < r[m + 1]
    <3> SUFFICES ASSUME m # Len(p) PROVE p[m + 1] < r[m + 1]
      OBVIOUS
    <3> DEFINE a == p[m + 1]  b == q[m + 1]  c == r[m + 1]
    <3>1. m < Len(p) /\ m < Len(q) /\ m < Len(r) BY <1>1, <1>2, <1>3, <1>6, <2>1
    <3>2. m + 1 \in 1 .. Len(p) /\ m + 1 \in 1 .. Len(q) /\ m + 1 \in 1 .. Len(r)
      <4>1. m \in Nat BY <1>1, <1>3
      <4> QED BY <1>3, <3>1, <4>1
    <3>3. a \in Nat /\ b \in Nat /\ c \in Nat BY <3>2, ElementOfSeq
    <3>4. a < b /\ b < c BY <1>1, <1>2, <1>6, <2>1
    <3>5. a < c
      <4> HIDE DEF a, b, c
      <4> QED BY <3>3, <3>4
    <3> QED BY <3>5
  <2> QED BY <1>1, <1>2, <1>6, <2>2, <2>3 DEF Precedes
<1> QED BY <1>3, <1>4, <1>5, <1>6

\* Of two paths one precedes the other.
LEMMA PrecedesTotal ==
  ASSUME NEW p \in Seq(Nat), NEW q \in Seq(Nat), p # q
  PROVE  Precedes(p, q) \/ Precedes(q, p)
<1> DEFINE Parts(n) == n = Len(p) \/ n = Len(q) \/ p[n + 1] # q[n + 1]
           T == {n \in 0 .. Len(p) : Parts(n)}
<1>1. Len(p) \in Nat /\ Len(q) \in Nat OBVIOUS
<1>2. PICK n \in T : \A j \in T : n <= j
  <2>1. Len(p) \in T /\ T \subseteq Nat BY <1>1
  <2> HIDE DEF T
  <2> QED BY <2>1, Least
<1>3. n \in 0 .. Len(p) /\ Parts(n) BY <1>2
<1>4. ASSUME NEW j \in 0 .. n - 1 PROVE j # Len(q) /\ p[j + 1] = q[j + 1]
  <2>1. j \in 0 .. Len(p) /\ ~ (n <= j) BY <1>1, <1>3
  <2> QED BY <1>2, <2>1
<1>5. n <= Len(q)
  <2>1. CASE Len(q) < n
    <3>1. Len(q) \in 0 .. n - 1 BY <1>1, <1>3, <2>1
    <3> QED BY <1>4, <3>1
  <2> QED BY <1>1, <1>3, <2>1
<1>6. ASSUME NEW k \in 1 .. n PROVE p[k] = q[k]
  <2>1. k - 1 \in 0 .. n - 1 /\ (k - 1) + 1 = k BY <1>1, <1>3
  <2> QED BY <1>4, <2>1
<1>7. CASE n = Len(p) /\ n = Len(q)
  <2>1. p = q BY <1>6, <1>7, SeqEqual
  <2> QED BY <2>1
<1>8. CASE n = Len(p) /\ n # Len(q)
  <2>1. n \in 0 .. Len(p) /\ n < Len(q) BY <1>1, <1>3, <1>5, <1>8
  <2>2. Precedes(p, q) BY <1>6, <1>8, <2>1 DEF Precedes
  <2> QED BY <2>2
<1>9. CASE n # Len(p) /\ n = Len(q)
  <2>1. n \in 0 .. Len(q) /\ n < Len(p) BY <1>1, <1>3, <1>9
  <2>2. Precedes(q, p) BY <1>6, <1>9, <2>1 DEF Precedes
  <2> QED BY <2>2
<1>10. CASE n # Len(p) /\ n # Len(q)
  <2>1. n \in 0 .. Len(q) /\ n < Len(p) /\ n < Len(q) BY <1>1, <1>3, <1>5, <1>10
  <2>2. n + 1 \in 1 .. Len(p) /\ n + 1 \in 1 .. Len(q) BY <1>1, <2>1
  <2>3. p[n + 1] \in Nat /\ q[n + 1] \in Nat /\ p[n + 1] # q[n + 1]
    BY <1>3, <1>10, <2>2, ElementOfSeq
  <2>4. p[n + 1] < q[n + 1] \/ q[n + 1] < p[n + 1] BY <2>3
  <2> QED BY <1>3, <1>6, <2>1, <2>4 DEF Precedes
<1> QED BY <1>7, <1>8, <1>9, <1>10

\* s holds each element of S once.
Enumerates(s, S) ==
  /\ IsFiniteSet(S) /\ s \in Seq(S) /\ Len(s) = Cardinality(S)
  /\ \A i, j \in 1 .. Len(s) : s[i] = s[j] => i = j
  /\ \A p \in S : \E i \in 1 .. Len(s) : s[i] = p

\* A function on 1 .. n is a sequence of its values.
LEMMA FunctionIsSeq ==
  ASSUME NEW X, NEW n \in Nat, NEW f \in [1 .. n -> X]
  PROVE  f \in Seq(X) /\ Len(f) = n
<1>1. f \in Seq(X) BY SeqDef
<1>2. DOMAIN f = 1 .. Len(f) /\ Len(f) \in Nat BY <1>1
<1>3. 1 .. Len(f) = 1 .. n BY <1>2
<1>4. Len(f) = n
  <2>1. CASE Len(f) < n
    <3>1. n \in 1 .. n BY <1>2, <2>1
    <3> QED BY <1>2, <1>3, <2>1, <3>1
  <2>2. CASE n < Len(f)
    <3>1. Len(f) \in 1 .. Len(f) BY <1>2, <2>2
    <3> QED BY <1>2, <1>3, <2>2, <3>1
  <2> QED BY <1>2, <2>1, <2>2
<1> QED BY <1>1, <1>4

\* A finite set of paths in its order is a sequence with each of them once: the
\* number of those that precede a path is its place (mkfs.py, sorted()).
LEMMA InOrderIs ==
  ASSUME NEW S, IsFiniteSet(S), S \subseteq Seq(Nat)
  PROVE  /\ Enumerates(InOrder(S), S)
         /\ Root \in S => InOrder(S)[1] = Root
<1> DEFINE Under(p) == {q \in S : Precedes(q, p)}
           Rank(p) == Cardinality(Under(p))
           n == Cardinality(S)
           s == InOrder(S)
<1>1. n \in Nat BY FS_CardinalityType
<1>2. ASSUME NEW p \in S PROVE IsFiniteSet(Under(p)) /\ Rank(p) \in 0 .. n - 1
  <2>1. Under(p) \in SUBSET (S \ {p}) BY PrecedesIrreflexive
  <2>2. IsFiniteSet(S \ {p}) /\ Cardinality(S \ {p}) = n - 1 BY FS_RemoveElement
  <2> HIDE DEF Under
  <2>3. IsFiniteSet(Under(p)) /\ Rank(p) <= n - 1 BY <2>1, <2>2, FS_Subset
  <2>4. Rank(p) \in Nat BY <2>3, FS_CardinalityType
  <2> QED BY <1>1, <2>3, <2>4
<1>3. ASSUME NEW p \in S, NEW q \in S, Precedes(p, q) PROVE Rank(p) < Rank(q)
  <2>1. Under(p) \cup {p} \in SUBSET Under(q) BY <1>3, PrecedesTransitive
  <2>2. p \notin Under(p) BY PrecedesIrreflexive
  <2>3. IsFiniteSet(Under(p)) /\ IsFiniteSet(Under(q)) BY <1>2
  <2> HIDE DEF Under
  <2>6. Rank(p) \in Nat /\ Rank(q) \in Nat BY <2>3, FS_CardinalityType
  <2>4. Cardinality(Under(p) \cup {p}) = Rank(p) + 1 BY <2>2, <2>3, FS_AddElement
  <2>5. Cardinality(Under(p) \cup {p}) <= Rank(q) BY <2>1, <2>3, FS_Subset
  <2> QED BY <2>4, <2>5, <2>6
<1> HIDE DEF Under
<1>4. ASSUME NEW p \in S, NEW q \in S, Rank(p) = Rank(q) PROVE p = q
  <2>1. CASE p # q
    <3>1. Precedes(p, q) \/ Precedes(q, p) BY <2>1, PrecedesTotal
    <3>2. Rank(p) < Rank(q) \/ Rank(q) < Rank(p) BY <1>3, <3>1
    <3>3. Rank(p) \in Int /\ Rank(q) \in Int BY <1>1, <1>2
    <3> HIDE DEF Rank
    <3> QED BY <1>4, <3>2, <3>3
  <2> QED BY <2>1
<1>5. \A i \in 0 .. n - 1 : \E p \in S : Rank(p) = i
  <2> DEFINE f == [p \in S |-> Rank(p)]
  <2>1. f \in [S -> 0 .. n - 1] BY <1>2
  <2>2. \A p, q \in S : f[p] = f[q] => p = q BY <1>4
  <2>3. f \in Injection(S, 0 .. n - 1)
    <3> HIDE DEF f
    <3> QED BY <2>1, <2>2 DEF Injection, IsInjective
  <2>4. IsFiniteSet(0 .. n - 1) /\ Cardinality(0 .. n - 1) = n
    <3>1. 0 \in Int /\ n - 1 \in Int BY <1>1
    <3>2. /\ IsFiniteSet(0 .. n - 1)
          /\ Cardinality(0 .. n - 1) = IF 0 > n - 1 THEN 0 ELSE (n - 1) - 0 + 1
      BY <3>1, FS_Interval
    <3> QED BY <1>1, <3>2
  <2>5. f \in Surjection(S, 0 .. n - 1)
    <3> HIDE DEF f
    <3> QED BY <2>3, <2>4, FS_Injection
  <2>6. \A i \in 0 .. n - 1 : \E p \in S : f[p] = i
    <3> HIDE DEF f
    <3> QED BY <2>5 DEF Surjection
  <2> QED BY <2>6
<1>6. s = [i \in 1 .. n |-> CHOOSE p \in S : Rank(p) = i - 1] BY DEF InOrder, Under
<1>7. ASSUME NEW i \in 1 .. n PROVE s[i] \in S /\ Rank(s[i]) = i - 1
  <2>1. i - 1 \in 0 .. n - 1 BY <1>1
  <2>2. \E p \in S : Rank(p) = i - 1 BY <1>5, <2>1
  <2>3. s[i] = CHOOSE p \in S : Rank(p) = i - 1 BY <1>6
  <2> HIDE DEF s, Rank
  <2> QED BY <2>2, <2>3
<1>8. s \in [1 .. n -> S] BY <1>6, <1>7
<1> HIDE DEF s
<1>9. s \in Seq(S) /\ Len(s) = n BY <1>1, <1>8, FunctionIsSeq
<1>10. ASSUME NEW i \in 1 .. n, NEW j \in 1 .. n, s[i] = s[j] PROVE i = j
  <2>1. i - 1 = j - 1 BY <1>7, <1>10
  <2> QED BY <1>1, <2>1
<1>11. ASSUME NEW p \in S PROVE \E i \in 1 .. n : s[i] = p
  <2>1. Rank(p) + 1 \in 1 .. n /\ (Rank(p) + 1) - 1 = Rank(p) BY <1>1, <1>2
  <2>2. s[Rank(p) + 1] \in S /\ Rank(s[Rank(p) + 1]) = Rank(p) BY <1>7, <2>1
  <2>3. s[Rank(p) + 1] = p BY <1>4, <2>2
  <2> QED BY <2>1, <2>3
<1>12. ASSUME Root \in S PROVE s[1] = Root
  <2>1. Under(Root) = {}
    <3>1. ASSUME NEW q \in S PROVE ~ Precedes(q, Root)
      <4>1. Len(Root) = 0 BY DEF Root
      <4>2. Len(q) \in Nat OBVIOUS
      <4> QED BY <4>1, <4>2 DEF Precedes
    <3> QED BY <3>1 DEF Under
  <2>2. Rank(Root) = 0 BY <2>1, FS_EmptySet
  <2>3. 1 \in 1 .. n
    <3>1. Rank(Root) \in 0 .. n - 1 BY <1>2, <1>12
    <3> QED BY <1>1, <3>1
  <2>4. s[1] \in S /\ Rank(s[1]) = 1 - 1 BY <1>7, <2>3
  <2> QED BY <1>4, <1>12, <2>2, <2>4
<1> QED BY <1>9, <1>10, <1>11, <1>12 DEF Enumerates, s

-----------------------------------------------------------------------------
(* The two walks. *)

\* Where a walk is: its stack, the tables it has gone into, what it has counted
\* and the paths it has shown or made.
Start(img) ==
  [stack |-> <<[entries |-> SubSeq(img.table, 1, img.entries), at |-> 2, seen |-> {},
                path |-> Root]>>,
   visited |-> {}, count |-> 0, paths |-> << >>]

\* The step either walk takes from there.
Enterable(c, e) ==
  /\ ~ e.isfile /\ (e.place.start_block # 0 \/ e.place.start_byte # 0)
  /\ StartOf(e) \notin c.visited
\* The table of the directory with the entry e.
Table(img, e) ==
  SubSeq(img.table, (StartOf(e) - SectorSize) \div EntrySize + 1,
         (StartOf(e) - SectorSize) \div EntrySize + ChildCount(e))
\* The walk is at the end of a table, or has counted every entry.
Ended(img, c) ==
  Last(c.stack).at > Len(Last(c.stack).entries) \/ c.count >= img.entries - 1
\* The entry at hand is passed over.
Passes(c) ==
  LET top == Last(c.stack)
      e == top.entries[top.at]
  IN  e.name = NoName \/ e.name \in top.seen
\* The entry at hand is shown or made, and its table gone into.
Visit(img, c) ==
  LET top == Last(c.stack)
      e == top.entries[top.at]
      rest == Append(Front(c.stack), [top EXCEPT !.at = @ + 1, !.seen = @ \cup {e.name}])
  IN  [stack |-> IF Enterable(c, e) /\ ChildCount(e) > 0
                 THEN rest \o <<[entries |-> Table(img, e), at |-> 1, seen |-> {},
                                 path |-> Append(top.path, e.name)]>>
                 ELSE rest,
       visited |-> IF Enterable(c, e) THEN c.visited \cup {StartOf(e)} ELSE c.visited,
       count |-> c.count + 1, paths |-> Append(c.paths, Append(top.path, e.name))]
\* The step of the walk.
After(img, c) ==
  IF Ended(img, c) THEN [c EXCEPT !.stack = Front(@)]
  ELSE IF Passes(c)
  THEN [c EXCEPT !.stack = Append(Front(c.stack), [Last(c.stack) EXCEPT !.at = @ + 1])]
  ELSE Visit(img, c)

\* The places of a walk, from its start to c.
Trace(T, n, img, c) ==
  /\ T[0] = Start(img) /\ T[n] = c
  /\ \A k \in 0 .. n - 1 : T[k].stack # << >> /\ T[k + 1] = After(img, T[k])
Reaches(img, c) == \E n \in Nat : \E T : Trace(T, n, img, c)

\* A walk reaches its start.
LEMMA ReachesStart ==
  ASSUME NEW img
  PROVE  Reaches(img, Start(img))
<1> DEFINE T == [k \in 0 .. 0 |-> Start(img)]
<1>1. Trace(T, 0, img, Start(img)) BY DEF Trace
<1> QED BY <1>1 DEF Reaches

\* A walk that reaches c reaches what comes after c.
LEMMA ReachesNext ==
  ASSUME NEW img, NEW c, Reaches(img, c), c.stack # << >>
  PROVE  Reaches(img, After(img, c))
<1>n. PICK n \in Nat : \E T : Trace(T, n, img, c) BY DEF Reaches
<1>1. PICK T : Trace(T, n, img, c) BY <1>n
<1> DEFINE d == After(img, c)
           U == [k \in 0 .. n + 1 |-> IF k = n + 1 THEN d ELSE T[k]]
<1> HIDE DEF d
<1>2. U[0] = Start(img) /\ U[n + 1] = d BY <1>1 DEF Trace
<1>3. ASSUME NEW k \in 0 .. (n + 1) - 1
      PROVE  U[k].stack # << >> /\ U[k + 1] = After(img, U[k])
  <2>1. U[k] = T[k] BY <1>3
  <2>2. CASE k = n
    <3>1. U[k + 1] = d /\ T[k] = c BY <1>1, <2>2 DEF Trace
    <3> QED BY <2>1, <3>1 DEF d
  <2>3. CASE k \in 0 .. n - 1
    <3>1. U[k + 1] = T[k + 1] BY <2>3
    <3> QED BY <1>1, <2>1, <2>3, <3>1 DEF Trace
  <2> QED BY <2>2, <2>3
<1>4. n + 1 \in Nat OBVIOUS
<1> HIDE DEF U
<1>5. Trace(U, n + 1, img, d) BY <1>2, <1>3 DEF Trace
<1> QED BY <1>4, <1>5 DEF Reaches, d

\* Two walks of an image that have come to their end have shown the same.
LEMMA EndsAlike ==
  ASSUME NEW img, NEW c, NEW d, Reaches(img, c), Reaches(img, d),
         c.stack = << >>, d.stack = << >>
  PROVE  c = d
<1>m. PICK m \in Nat : \E T : Trace(T, m, img, c) BY DEF Reaches
<1>n. PICK n \in Nat : \E U : Trace(U, n, img, d) BY DEF Reaches
<1>1. PICK T : Trace(T, m, img, c) BY <1>m
<1>2. PICK U : Trace(U, n, img, d) BY <1>n
<1> DEFINE Bad == {k \in Nat : k <= m /\ k <= n /\ T[k] # U[k]}
<1>3. ASSUME Bad # {} PROVE FALSE
  <2>1. Bad \subseteq Nat OBVIOUS
  <2>2. PICK x \in Bad : \A y \in Bad : x <= y
    <3> HIDE DEF Bad
    <3> QED BY <1>3, <2>1, Least
  <2>3. x \in Nat /\ x <= m /\ x <= n /\ T[x] # U[x] BY <2>2
  <2>4. x # 0 BY <1>1, <1>2, <2>3 DEF Trace
  <2>5. x - 1 \in 0 .. m - 1 /\ x - 1 \in 0 .. n - 1 /\ (x - 1) + 1 = x BY <2>3, <2>4
  <2>6. T[x - 1] = U[x - 1]
    <3>1. ~ (x <= x - 1) /\ x - 1 \in Nat /\ x - 1 <= m /\ x - 1 <= n BY <2>3, <2>5
    <3> QED BY <2>2, <3>1
  <2>7. T[x] = After(img, T[x - 1]) BY <1>1, <2>5 DEF Trace
  <2>8. U[x] = After(img, U[x - 1]) BY <1>2, <2>5 DEF Trace
  <2> QED BY <2>3, <2>6, <2>7, <2>8
<1>4. ~ (m < n)
  <2>1. SUFFICES ASSUME m < n PROVE FALSE OBVIOUS
  <2>2. T[m] = U[m] BY <1>3, <2>1
  <2>3. m \in 0 .. n - 1 BY <2>1
  <2>4. U[m].stack # << >> /\ T[m] = c BY <1>1, <1>2, <2>3 DEF Trace
  <2> QED BY <2>2, <2>4
<1>5. ~ (n < m)
  <2>1. SUFFICES ASSUME n < m PROVE FALSE OBVIOUS
  <2>2. T[n] = U[n] BY <1>3, <2>1
  <2>3. n \in 0 .. m - 1 BY <2>1
  <2>4. T[n].stack # << >> /\ U[n] = d BY <1>1, <1>2, <2>3 DEF Trace
  <2> QED BY <2>2, <2>4
<1>6. m = n BY <1>4, <1>5
<1>7. T[m] = U[m] BY <1>3, <1>6
<1> QED BY <1>1, <1>2, <1>6, <1>7 DEF Trace

\* The root table begins with the entry without a name.
Headed(img) ==
  /\ img.entries \in Nat \ {0} /\ img.table[1].name = NoName

\* Where the walk at hand is, these being its paths.
Here(paths) == [stack |-> stack, visited |-> visited, count |-> count, paths |-> paths]
\* A walk from its start, as print_tree and extract_all begin it.
Opening ==
  /\ stack = <<[entries |-> SubSeq(image.table, 1, image.entries), at |-> 1, seen |-> {},
                path |-> Root]>>
  /\ visited = {} /\ count = 0 /\ listed = << >>

\* What print_tree has listed is what a walk from the start shows, and so is
\* what extract_all has made; the one it repeats has come to its end.
WalksInv ==
  /\ phase \in {"mkfs", "open", "print", "extract", "done"}
  /\ phase # "mkfs" => Headed(image)
  /\ phase \in {"mkfs", "open", "print"} => made = << >>
  /\ phase \in {"mkfs", "open"} => listed = << >>
  /\ phase = "print" => Opening \/ Reaches(image, Here(listed))
  /\ phase = "extract" =>
       /\ Reaches(image, Here(made))
       /\ \E c : Reaches(image, c) /\ c.stack = << >> /\ c.paths = listed
  /\ phase = "done" => listed = made

\* What an activation begins with.
LEMMA FrameIs ==
  ASSUME NEW offset, NEW n, NEW path
  PROVE  Frame(offset, n, path) =
           [entries |-> SubSeq(image.table, (offset - SectorSize) \div EntrySize + 1,
                               (offset - SectorSize) \div EntrySize + n),
            at |-> 1, seen |-> {}, path |-> path]
BY DEF Frame, read_dir_table

\* The first activation has the first entries of the image, as many as the
\* image has.
LEMMA RootFrame ==
  ASSUME image.entries \in Nat
  PROVE  Frame(SectorSize, image.entries, Root) =
           [entries |-> SubSeq(image.table, 1, image.entries), at |-> 1, seen |-> {},
            path |-> Root]
<1>1. SectorSize - SectorSize = 0 /\ EntrySize \in Nat \ {0} BY LuFsAssumption
<1>2. 0 \div EntrySize = 0 BY <1>1
<1>3. 0 + 1 = 1 /\ 0 + image.entries = image.entries OBVIOUS
<1> QED BY <1>1, <1>2, <1>3, FrameIs

\* What the actions do is the step of a walk.
LEMMA SkipIs ==
  ASSUME NEW paths, NEW shown, Skip(shown),
         shown <=> Entry.name # NoName /\ Entry.name \notin Top.seen
  PROVE  [stack |-> stack', visited |-> visited', count |-> count', paths |-> paths]
           = After(image, Here(paths))
<1> DEFINE c == Here(paths)
<1>1. c.stack = stack /\ c.count = count /\ c.visited = visited /\ c.paths = paths BY DEF Here
<1>2. ~ Ended(image, c) BY <1>1 DEF Skip, Returns, Top, MaxEntries, Ended
<1>3. Passes(c) BY <1>1 DEF Skip, Top, Entry, Passes
<1>4. After(image, c) = [c EXCEPT !.stack = Append(Front(c.stack), [Last(c.stack) EXCEPT !.at = @ + 1])]
  BY <1>2, <1>3 DEF After
<1>5. After(image, c) = [c EXCEPT !.stack = stack']
  <2>1. stack' = Append(Front(stack), [Last(stack) EXCEPT !.at = @ + 1]) BY DEF Skip, Top
  <2> HIDE DEF c
  <2> QED BY <1>1, <1>4, <2>1
<1> QED BY <1>5 DEF Here, Skip

\* An activation that is at its end returns.
LEMMA ReturnIs ==
  ASSUME NEW paths, Return
  PROVE  [stack |-> stack', visited |-> visited', count |-> count', paths |-> paths]
           = After(image, Here(paths))
<1> DEFINE c == Here(paths)
<1>1. c.stack = stack /\ c.count = count BY DEF Here
<1>2. Ended(image, c) BY <1>1 DEF Return, Returns, Top, MaxEntries, Ended
<1>3. After(image, c) = [c EXCEPT !.stack = Front(@)] BY <1>2 DEF After
<1> QED BY <1>3 DEF Here, Return

\* Descend is the rest of the step once the entry has been shown.
LEMMA VisitIs ==
  ASSUME NEW paths, stack # << >>, ~ Returns, Entry.name # NoName, Entry.name \notin Top.seen,
         Descend(ChildCount(Entry)), count' = count + 1
  PROVE  [stack |-> stack', visited |-> visited', count |-> count',
          paths |-> Append(paths, FullPath)] = After(image, Here(paths))
<1> DEFINE c == Here(paths)
<1>1. c.stack = stack /\ c.count = count /\ c.visited = visited /\ c.paths = paths BY DEF Here
<1>2. ~ Ended(image, c) BY <1>1 DEF Returns, Top, MaxEntries, Ended
<1>3. ~ Passes(c) BY <1>1 DEF Top, Entry, Passes
<1>4. After(image, c) = Visit(image, c) BY <1>2, <1>3 DEF After
<1>5. Enters(Entry) <=> Enterable(c, Entry) BY <1>1 DEF Enters, Enterable
<1>6. Last(c.stack) = Top /\ Last(c.stack).entries[Last(c.stack).at] = Entry
  BY <1>1 DEF Top, Entry
<1>7. Frame(StartOf(Entry), ChildCount(Entry), FullPath) =
        [entries |-> Table(image, Entry), at |-> 1, seen |-> {}, path |-> FullPath]
  BY FrameIs DEF Table
<1>8. visited' = IF Enterable(c, Entry) THEN c.visited \cup {StartOf(Entry)} ELSE c.visited
  BY <1>1, <1>5 DEF Descend
<1>9. stack' = IF Enterable(c, Entry) /\ ChildCount(Entry) > 0
               THEN Append(Front(c.stack), Onward)
                      \o <<[entries |-> Table(image, Entry), at |-> 1, seen |-> {},
                            path |-> FullPath]>>
               ELSE Append(Front(c.stack), Onward)
  BY <1>1, <1>5, <1>7 DEF Descend
<1> QED BY <1>1, <1>4, <1>6, <1>8, <1>9 DEF Visit, Onward, FullPath

\* For a file nothing is gone into.
LEMMA FileIsVisited ==
  ASSUME Entry.isfile, UNCHANGED visited, stack' = Append(Front(stack), Onward)
  PROVE  Descend(ChildCount(Entry))
BY DEF Descend, Enters

\* A step of print_tree is a step of the walk.
LEMMA PrintSteps ==
  ASSUME Reaches(image, Here(listed)), stack # << >>, UNCHANGED image,
         PrintSkips \/ PrintEntry \/ Return
  PROVE  UNCHANGED image /\ Reaches(image, Here(listed))'
<1> DEFINE d == [stack |-> stack', visited |-> visited', count |-> count', paths |-> listed']
<1>1. Here(listed).stack # << >> BY DEF Here
<1>2. d = After(image, Here(listed))
  <2>1. CASE PrintSkips
    <3>1. Skip(Printed) /\ listed' = listed BY <2>1 DEF PrintSkips, Skip
    <3> QED BY <3>1, SkipIs DEF Printed
  <2>2. CASE PrintEntry
    <3>1. /\ ~ Returns /\ Entry.name # NoName /\ Entry.name \notin Top.seen
          /\ Descend(ChildCount(Entry)) /\ count' = count + 1
          /\ listed' = Append(listed, FullPath)
      BY <2>2 DEF PrintEntry, Printed
    <3> QED BY <3>1, VisitIs
  <2>3. CASE Return
    <3>1. listed' = listed BY <2>3 DEF Return
    <3> QED BY <2>3, <3>1, ReturnIs
  <2> QED BY <2>1, <2>2, <2>3
<1>3. Reaches(image, d) BY <1>1, <1>2, ReachesNext
<1>4. Here(listed)' = d BY DEF Here
<1>5. Reaches(image', Here(listed)') BY <1>3, <1>4
<1> QED BY <1>5 DEF Reaches, Trace, Start, After, Ended, Passes, Visit

\* What extract_all does is the step of a walk.
LEMMA ExtractIs ==
  ASSUME stack # << >>, UNCHANGED image,
         ExtractSkips \/ ExtractFile \/ ExtractDir \/ (Return /\ UNCHANGED made)
  PROVE  Here(made)' = After(image, Here(made))
<1> DEFINE d == [stack |-> stack', visited |-> visited', count |-> count', paths |-> made']
<1>1. d = After(image, Here(made))
  <2>1. CASE ExtractSkips
    <3>1. Skip(Extracted) /\ made' = made BY <2>1 DEF ExtractSkips, Skip
    <3> QED BY <3>1, SkipIs DEF Extracted
  <2>2. CASE ExtractFile
    <3>1. /\ ~ Returns /\ Entry.name # NoName /\ Entry.name \notin Top.seen
          /\ count' = count + 1 /\ made' = Append(made, FullPath)
      BY <2>2 DEF ExtractFile, Extracted, Make
    <3>2. Descend(ChildCount(Entry)) BY <2>2, FileIsVisited DEF ExtractFile
    <3> QED BY <3>1, <3>2, VisitIs
  <2>3. CASE ExtractDir
    <3>1. /\ ~ Returns /\ Entry.name # NoName /\ Entry.name \notin Top.seen
          /\ count' = count + 1 /\ made' = Append(made, FullPath)
          /\ Descend(ChildCount(Entry))
      BY <2>3 DEF ExtractDir, Extracted, Make
    <3> QED BY <3>1, VisitIs
  <2>4. CASE Return
    <3>1. made' = made BY <2>4 DEF Return
    <3> QED BY <2>4, <3>1, ReturnIs
  <2> QED BY <2>1, <2>2, <2>3, <2>4
<1>2. Here(made)' = d BY DEF Here
<1> QED BY <1>1, <1>2

\* A step of extract_all is a step of the walk.
LEMMA ExtractSteps ==
  ASSUME Reaches(image, Here(made)), stack # << >>, UNCHANGED image,
         ExtractSkips \/ ExtractFile \/ ExtractDir \/ (Return /\ UNCHANGED made)
  PROVE  Reaches(image, Here(made)')
<1>1. Here(made).stack # << >> BY DEF Here
<1>2. Here(made)' = After(image, Here(made)) BY ExtractIs
<1> QED BY <1>1, <1>2, ReachesNext

\* The first walk begins one entry earlier: the entry of the root is passed over.
LEMMA SecondIs ==
  ASSUME NEW es, NEW path
  PROVE  [[entries |-> es, at |-> 1, seen |-> {}, path |-> path] EXCEPT !.at = 2] =
           [entries |-> es, at |-> 2, seen |-> {}, path |-> path]
OBVIOUS

\* So is the step that passes over the entry of the root.
LEMMA OpeningSteps ==
  ASSUME Opening, Headed(image), UNCHANGED image,
         PrintSkips \/ PrintEntry \/ Return
  PROVE  Reaches(image, Here(listed))'
<1> DEFINE c == Start(image)
           first == [entries |-> SubSeq(image.table, 1, image.entries), at |-> 1, seen |-> {},
                     path |-> Root]
           d == [stack |-> stack', visited |-> visited', count |-> count', paths |-> listed']
<1>1. image.entries \in Nat /\ image.entries > 0 /\ image.table[1].name = NoName BY DEF Headed
<1>2. stack = <<first>> /\ Top = first /\ Front(stack) = << >>
  BY DEF Opening, Top, Last, Front
<1>3. Len(first.entries) = image.entries /\ first.entries[1] = image.table[1] BY <1>1
<1>4. Entry.name = NoName BY <1>1, <1>2, <1>3 DEF Entry
<1>5. c.stack # << >> /\ Reaches(image, c) BY ReachesStart DEF Start
<1>6. Reaches(image, d)
  <2>1. CASE PrintSkips
    <3>1. stack' = << [first EXCEPT !.at = 2] >>
      BY <1>2, <2>1 DEF PrintSkips, Skip
    <3>2. [first EXCEPT !.at = 2] = [entries |-> SubSeq(image.table, 1, image.entries),
                                     at |-> 2, seen |-> {}, path |-> Root]
      BY SecondIs
    <3>3. visited' = {} /\ count' = 0 /\ listed' = << >>
      BY <2>1 DEF Opening, PrintSkips, Skip
    <3>4. d = c BY <3>1, <3>2, <3>3 DEF Start
    <3> QED BY <1>5, <3>4
  <2>2. CASE PrintEntry
    <3>1. FALSE BY <1>4, <2>2 DEF PrintEntry, Printed
    <3> QED BY <3>1
  <2>3. CASE Return
    <3>1. count = 0 /\ count >= image.entries - 1
      BY <1>1, <1>2, <1>3, <2>3 DEF Return, Returns, Opening, MaxEntries
    <3>2. Ended(image, c) BY <3>1 DEF Ended, Start
    <3>3. Front(c.stack) = << >> BY DEF Front, Start
    <3>4. After(image, c) = [c EXCEPT !.stack = << >>] BY <3>2, <3>3 DEF After
    <3>5. d = After(image, c) BY <1>2, <2>3, <3>4 DEF Return, Opening, Start
    <3>6. Reaches(image, d) BY <1>5, <3>5, ReachesNext
    <3> QED BY <3>6
  <2> QED BY <2>1, <2>2, <2>3
<1>7. Here(listed)' = d BY DEF Here
<1>8. Reaches(image', Here(listed)') BY <1>6, <1>7
<1> QED BY <1>8 DEF Reaches, Trace, Start, After, Ended, Passes, Visit

\* The invariant holds at the start and is kept; the image made is headed by the
\* entry of the root.
LEMMA WalksKept ==
  ASSUME WalksInv, [Next]_vars, image' = Image => Headed(image')
  PROVE  WalksInv'
<1>1. CASE makefs
  <2>1. image' = Image /\ Headed(image)' BY <1>1 DEF makefs, Headed
  <2> QED BY <1>1, <2>1 DEF WalksInv, makefs
<1>2. CASE PrintBegins
  <2>1. image.entries \in Nat BY <1>2 DEF WalksInv, Headed, PrintBegins
  <2>2. stack' = <<[entries |-> SubSeq(image.table, 1, image.entries), at |-> 1,
                    seen |-> {}, path |-> Root]>>
    BY <1>2, <2>1, RootFrame DEF PrintBegins, Begin
  <2>3. Opening' BY <1>2, <2>2 DEF WalksInv, Opening, PrintBegins, Begin
  <2> QED BY <1>2, <2>3 DEF WalksInv, PrintBegins, Begin, Headed
<1>3. CASE ExtractBegins
  <2>1. image.entries \in Nat /\ phase = "print" BY <1>3 DEF WalksInv, Headed, ExtractBegins
  <2>2. stack' = <<[entries |-> SubSeq(image.table, 1, image.entries), at |-> 2,
                    seen |-> {}, path |-> Root]>>
    BY <1>3, <2>1, RootFrame, SecondIs DEF ExtractBegins, Begin
  <2>3. Here(made)' = Start(image) BY <1>3, <2>1, <2>2 DEF WalksInv, ExtractBegins, Begin, Here, Start
  <2>4. Reaches(image, Start(image)) BY ReachesStart
  <2>5. Reaches(image, Here(listed)) /\ Here(listed).stack = << >> /\ Here(listed).paths = listed
    <3>1. stack = << >> BY <1>3 DEF ExtractBegins
    <3>2. ~ Opening BY <3>1 DEF Opening
    <3> QED BY <2>1, <3>1, <3>2 DEF WalksInv, Here
  <2>6. image' = image /\ listed' = listed /\ phase' = "extract" /\ made' = made
    BY <1>3 DEF ExtractBegins, Begin
  <2>7. Reaches(image', Here(made)') BY <2>3, <2>4, <2>6
  <2>8. \E c : Reaches(image', c) /\ c.stack = << >> /\ c.paths = listed' BY <2>5, <2>6
  <2> QED BY <2>1, <2>6, <2>7, <2>8 DEF WalksInv, Headed, Reaches, Trace, Start, After, Ended, Passes, Visit
<1>4. CASE PrintSkips \/ PrintEntry \/ (Return /\ phase = "print")
  <2>1. /\ phase = "print" /\ stack # << >> /\ image' = image /\ made' = made
        /\ phase' = "print"
    BY <1>4 DEF PrintSkips, PrintEntry, Return, Skip
  <2>2. Headed(image) /\ made = << >> BY <2>1 DEF WalksInv
  <2>3. Reaches(image, Here(listed))'
    <3>1. CASE Opening BY <1>4, <2>1, <2>2, <3>1, OpeningSteps
    <3>2. CASE Reaches(image, Here(listed)) BY <1>4, <2>1, <3>2, PrintSteps
    <3> QED BY <2>1, <3>1, <3>2 DEF WalksInv
  <2>4. Headed(image') BY <2>1, <2>2
  <2> QED BY <2>1, <2>2, <2>3, <2>4 DEF WalksInv
<1>5. CASE ExtractSkips \/ ExtractFile \/ ExtractDir \/ (Return /\ phase = "extract")
  <2>1. /\ phase = "extract" /\ stack # << >> /\ image' = image /\ listed' = listed
    BY <1>5 DEF ExtractSkips, ExtractFile, ExtractDir, Return, Skip
  <2>2. Headed(image) /\ Reaches(image, Here(made)) BY <2>1 DEF WalksInv
  <2>3. PICK c : Reaches(image, c) /\ c.stack = << >> /\ c.paths = listed BY <2>1 DEF WalksInv
  <2>4. Return => made' = made BY DEF Return
  <2>5. Reaches(image, Here(made)') BY <1>5, <2>1, <2>2, <2>4, ExtractSteps
  <2>6. CASE phase' = "extract"
    <3>1. \E d : Reaches(image', d) /\ d.stack = << >> /\ d.paths = listed' BY <2>1, <2>3
    <3>2. Headed(image') BY <2>1, <2>2
    <3>3. Reaches(image', Here(made)') BY <2>1, <2>5
    <3> QED BY <2>6, <3>1, <3>2, <3>3 DEF WalksInv
  <2>7. CASE phase' # "extract"
    <3>1. Return /\ Len(stack) = 1 /\ phase' = "done"
      BY <1>5, <2>7 DEF ExtractSkips, ExtractFile, ExtractDir, Return, Skip
    <3>2. stack' = << >> BY <3>1 DEF Return, Front
    <3>3. Here(made)'.stack = << >> /\ Here(made)'.paths = made' BY <3>2 DEF Here
    <3>4. c = Here(made)' BY <2>3, <2>5, <3>3, EndsAlike
    <3>5. listed' = made' BY <2>1, <2>3, <3>3, <3>4
    <3>6. Headed(image') BY <2>1, <2>2
    <3> QED BY <3>1, <3>5, <3>6 DEF WalksInv
  <2> QED BY <2>6, <2>7
<1>6. CASE Return /\ phase \notin {"print", "extract"}
  <2>1. /\ phase' = phase /\ image' = image /\ listed' = listed /\ made' = made
    BY <1>6 DEF Return
  <2> QED BY <1>6, <2>1 DEF WalksInv, Headed
<1>7. CASE UNCHANGED vars
  <2>1. /\ phase' = phase /\ image' = image /\ listed' = listed /\ made' = made
        /\ stack' = stack /\ visited' = visited /\ count' = count
    BY <1>7 DEF vars
  <2>2. Here(made)' = Here(made) /\ Here(listed)' = Here(listed) /\ (Opening' <=> Opening)
    BY <2>1 DEF Here, Opening
  <2>3. Headed(image') <=> Headed(image) BY <2>1
  <2> QED BY <2>1, <2>2, <2>3 DEF WalksInv
<1> QED BY <1>1, <1>2, <1>3, <1>4, <1>5, <1>6, <1>7 DEF Next

-----------------------------------------------------------------------------
(* The tables. *)

\* The directories of the tree at hand.
Dirs == {p \in DOMAIN tree : ~ IsFile(p)}
\* What is in the directory d; the root is in its own table.
Kids(d) == {p \in DOMAIN tree : Parent(p) = d}
\* Where the table of each directory begins, counted in entries.
Offset == Offsets(0, [i \in DOMAIN DirOrder |-> TableLen(DirOrder[i])])

\* A path without its last name.
LEMMA FrontOf ==
  /\ Front(Root) = Root
  /\ \A X : \A s \in Seq(X) : s # << >> =>
       /\ Front(s) \in Seq(X) /\ Len(Front(s)) = Len(s) - 1 /\ Last(s) \in X
       /\ \A i \in 1 .. Len(s) - 1 : Front(s)[i] = s[i]
       /\ s = Append(Front(s), Last(s)) /\ Len(s) \in Nat \ {0}
<1>1. Front(Root) = Root BY DEF Front, Root
<1>2. ASSUME NEW X, NEW s \in Seq(X), s # << >>
      PROVE  /\ Front(s) \in Seq(X) /\ Len(Front(s)) = Len(s) - 1 /\ Last(s) \in X
             /\ \A i \in 1 .. Len(s) - 1 : Front(s)[i] = s[i]
             /\ s = Append(Front(s), Last(s)) /\ Len(s) \in Nat \ {0}
  <2>1. Len(s) \in Nat \ {0} BY <1>2, EmptySeq
  <2>2. Front(s) \in Seq(X) /\ Len(Front(s)) = Len(s) - 1
        /\ \A i \in 1 .. Len(s) - 1 : Front(s)[i] = s[i]
    <3> DEFINE n == Len(s) - 1
    <3>1. n \in Nat /\ 1 <= n + 1 /\ 0 \in Nat /\ n \in 0 .. Len(s) BY <2>1
    <3>2. Front(s) = [i \in 1 .. n |-> s[i]] BY <3>1 DEF Front
    <3>3. \A i \in 1 .. n : s[i] \in X BY <2>1
    <3> HIDE DEF n
    <3>4. Front(s) \in Seq(X) /\ Len(Front(s)) = n BY <3>1, <3>2, <3>3, FunctionIsSeq
    <3>5. \A i \in 1 .. n : Front(s)[i] = s[i] BY <3>2
    <3> QED BY <3>4, <3>5 DEF n
  <2>3. Last(s) = s[Len(s)] /\ Last(s) \in X BY <2>1 DEF Last
  <2>4. Append(Front(s), Last(s)) = s
    <3>1. /\ Append(Front(s), Last(s)) \in Seq(X) /\ Len(Append(Front(s), Last(s))) = Len(s)
          /\ \A i \in 1 .. Len(s) : Append(Front(s), Last(s))[i] = s[i]
      BY <2>1, <2>2, <2>3
    <3> QED BY <3>1, SeqEqual
  <2> QED BY <2>1, <2>2, <2>3, <2>4
<1> QED BY <1>1, <1>2

\* The tree is one, its sets of paths are finite, and it has a root.
LEMMA TreeIs ==
  ASSUME tree \in Trees
  PROVE  /\ IsTree(tree) /\ IsFiniteSet(DOMAIN tree) /\ DOMAIN tree \subseteq Seq(Nat)
         /\ Root \in DOMAIN tree /\ Root \in Dirs /\ Root \in Kids(Root)
         /\ Enumerates(Entries, DOMAIN tree)
         /\ Enumerates(DirOrder, Dirs) /\ DirOrder[1] = Root
         /\ \A d : Enumerates(DirTree(d), Kids(d))
         /\ DirTree(Root)[1] = Root
         /\ Enumerates(Files, {p \in DOMAIN tree : IsFile(p)})
<1>1. /\ IsTree(tree) /\ IsFiniteSet(DOMAIN tree) /\ DOMAIN tree \subseteq Seq(Nat)
      /\ Root \in DOMAIN tree /\ tree[Root] = IsDir
  BY LuFsAssumption DEF IsTree
<1>2. Root \in Dirs /\ Root \in Kids(Root) BY <1>1, FrontOf DEF Dirs, Kids, IsFile, Parent
<1>3. \A S : S \subseteq DOMAIN tree => IsFiniteSet(S) /\ S \subseteq Seq(Nat)
  BY <1>1, FS_Subset
<1>4. Enumerates(Entries, DOMAIN tree) BY <1>1, InOrderIs DEF Entries
<1>5. Enumerates(DirOrder, Dirs) /\ DirOrder[1] = Root
  <2>1. Dirs \subseteq DOMAIN tree /\ DirOrder = InOrder(Dirs) BY DEF Dirs, DirOrder
  <2> QED BY <1>2, <1>3, <2>1, InOrderIs
<1>6. ASSUME NEW d
      PROVE  Enumerates(DirTree(d), Kids(d)) /\ (Root \in Kids(d) => DirTree(d)[1] = Root)
  <2>1. Kids(d) \subseteq DOMAIN tree /\ DirTree(d) = InOrder(Kids(d)) BY DEF Kids, DirTree
  <2> QED BY <1>3, <2>1, InOrderIs
<1>7. Enumerates(Files, {p \in DOMAIN tree : IsFile(p)})
  <2>1. {p \in DOMAIN tree : IsFile(p)} \subseteq DOMAIN tree OBVIOUS
  <2> QED BY <1>3, <2>1, InOrderIs DEF Files
<1> QED BY <1>1, <1>2, <1>4, <1>5, <1>6, <1>7

\* Offsets do not fall.
LEMMA OffsetsRise ==
  ASSUME NEW at, NEW start \in Nat, NEW lens, NEW n \in Nat, Accumulate(at, start, lens, n),
         \A i \in 1 .. n : lens[i] \in Nat, NEW i \in 1 .. n + 1, NEW j \in 1 .. n + 1, i <= j
  PROVE  at[i] <= at[j]
<1>1. /\ \A x \in 1 .. n + 1 : at[x] \in Nat
      /\ \A x \in 1 .. n : at[x + 1] = at[x] + lens[x]
  BY DEF Accumulate
<1> DEFINE Bad == {x \in 1 .. n + 1 : i <= x /\ ~ (at[i] <= at[x])}
<1>2. ASSUME Bad # {} PROVE FALSE
  <2>1. Bad \subseteq Nat OBVIOUS
  <2>2. PICK x \in Bad : \A y \in Bad : x <= y
    <3> HIDE DEF Bad
    <3> QED BY <1>2, <2>1, Least
  <2>3. x \in 1 .. n + 1 /\ i <= x /\ ~ (at[i] <= at[x]) BY <2>2
  <2>4. i # x BY <1>1, <2>3
  <2>5. x - 1 \in 1 .. n /\ x - 1 \in 1 .. n + 1 /\ i <= x - 1 /\ (x - 1) + 1 = x /\ ~ (x <= x - 1)
    BY <2>3, <2>4
  <2>6. at[i] <= at[x - 1] BY <2>2, <2>5
  <2>7. at[x] = at[x - 1] + lens[x - 1] /\ lens[x - 1] \in Nat BY <1>1, <2>5
  <2>8. at[i] \in Nat /\ at[x - 1] \in Nat BY <1>1, <2>5
  <2> QED BY <2>3, <2>6, <2>7, <2>8
<1> QED BY <1>2

\* What lies between the first and the last offset lies in one of the ranges.
LEMMA Located ==
  ASSUME NEW at, NEW start \in Nat, NEW lens, NEW n \in Nat, Accumulate(at, start, lens, n),
         \A i \in 1 .. n : lens[i] \in Nat, NEW j \in start + 1 .. at[n + 1]
  PROVE  \E i \in 1 .. n : \E k \in 1 .. lens[i] : j = at[i] + k
<1>1. /\ \A x \in 1 .. n + 1 : at[x] \in Nat
      /\ at[1] = start
      /\ \A x \in 1 .. n : at[x + 1] = at[x] + lens[x]
  BY DEF Accumulate
<1> DEFINE T == {x \in 1 .. n + 1 : j <= at[x]}
<1>2. T \subseteq Nat /\ T # {}
  <2>1. n + 1 \in 1 .. n + 1 BY <1>1
  <2>2. at[n + 1] \in Nat BY <1>1, <2>1
  <2>3. n + 1 \in T BY <2>1, <2>2
  <2> QED BY <2>3
<1>3. PICK x \in T : \A y \in T : x <= y
  <2> HIDE DEF T
  <2> QED BY <1>2, Least
<1>4. x \in 1 .. n + 1 /\ j <= at[x] /\ j \in Nat
  <2>1. n + 1 \in 1 .. n + 1 BY <1>1
  <2>2. at[n + 1] \in Nat BY <1>1, <2>1
  <2> QED BY <1>3, <2>2
<1>5. x # 1 BY <1>1, <1>4
<1>6. x - 1 \in 1 .. n /\ (x - 1) + 1 = x /\ x - 1 \in 1 .. n + 1 /\ ~ (x <= x - 1)
  BY <1>4, <1>5
<1>7. ~ (j <= at[x - 1]) BY <1>3, <1>6
<1>8. at[x] = at[x - 1] + lens[x - 1] /\ lens[x - 1] \in Nat /\ at[x - 1] \in Nat BY <1>1, <1>6
<1>9. j - at[x - 1] \in 1 .. lens[x - 1] /\ j = at[x - 1] + (j - at[x - 1])
  BY <1>4, <1>7, <1>8
<1> QED BY <1>6, <1>9

\* The tables lie one behind the other: the k-th entry of the table of the i-th
\* directory is at Offset[i] + k.
TablesLie ==
  /\ Len(DirOrder) \in Nat
  /\ Accumulate(Offset, 0, [i \in DOMAIN DirOrder |-> TableLen(DirOrder[i])], Len(DirOrder))
  /\ Tables \in Seq(DOMAIN tree) /\ Len(Tables) = Offset[Len(DirOrder) + 1]
  /\ \A i \in 1 .. Len(DirOrder) : \A k \in 1 .. TableLen(DirOrder[i]) :
       Offset[i] + k \in 1 .. Len(Tables) /\ Tables[Offset[i] + k] = DirTree(DirOrder[i])[k]
\* They do, and each is a sequence of the children of its directory.
LEMMA TablesAre ==
  ASSUME tree \in Trees
  PROVE  TablesLie
<1> DEFINE n == Len(DirOrder)
           lens == [i \in DOMAIN DirOrder |-> TableLen(DirOrder[i])]
           seqs == [i \in DOMAIN DirOrder |-> DirTree(DirOrder[i])]
<1>1. DirOrder \in Seq(Dirs) /\ n \in Nat /\ DOMAIN DirOrder = 1 .. n
  BY TreeIs DEF Enumerates
<1>2. \A d : DirTree(d) \in Seq(DOMAIN tree) /\ TableLen(d) \in Nat
  <2>1. ASSUME NEW d PROVE DirTree(d) \in Seq(DOMAIN tree) /\ TableLen(d) \in Nat
    <3>1. DirTree(d) \in Seq(Kids(d)) /\ Kids(d) \subseteq DOMAIN tree
      BY TreeIs DEF Enumerates, Kids
    <3>2. DirTree(d) \in Seq(DOMAIN tree) BY <3>1
    <3> QED BY <3>1, <3>2 DEF TableLen
  <2> QED BY <2>1
<1>3. lens \in [1 .. n -> Nat] /\ Len(lens) = n
  <2>1. lens \in [1 .. n -> Nat] BY <1>1, <1>2
  <2> HIDE DEF lens
  <2> QED BY <1>1, <2>1, FunctionIsSeq
<1>4. seqs \in Seq(Seq(DOMAIN tree)) /\ Len(seqs) = n
  <2>1. seqs \in [1 .. n -> Seq(DOMAIN tree)] BY <1>1, <1>2
  <2> HIDE DEF seqs
  <2> QED BY <1>1, <2>1, FunctionIsSeq
<1>5. Accumulate(Offset, 0, lens, n)
  <2>1. \A i \in 1 .. n : lens[i] \in Nat BY <1>3
  <2>2. Offset = Offsets(0, lens) BY DEF Offset
  <2> HIDE DEF lens
  <2> QED BY <1>1, <1>3, <2>1, <2>2, OffsetsAre
<1>6. \A i \in 1 .. n : lens[i] = Len(seqs[i]) BY <1>1 DEF TableLen
<1>7. Tables = FlattenSeq(seqs) BY DEF Tables
<1>8. \A i \in 1 .. n : seqs[i] = DirTree(DirOrder[i]) BY <1>1
<1> HIDE DEF lens, seqs
<1>9. Flattened(Tables, seqs, Offset, n, DOMAIN tree)
  BY <1>1, <1>4, <1>5, <1>6, <1>7, FlattenIs
<1>10. \A i \in 1 .. n : \A k \in 1 .. TableLen(DirOrder[i]) :
         Offset[i] + k \in 1 .. Len(Tables) /\ Tables[Offset[i] + k] = DirTree(DirOrder[i])[k]
  BY <1>8, <1>9 DEF Flattened, TableLen
<1> QED BY <1>1, <1>5, <1>9, <1>10 DEF Flattened, TablesLie, lens

\* The root precedes all paths, so that its entry is the first of its table and
\* of the image.
LEMMA RootHeads ==
  ASSUME tree \in Trees
  PROVE  Headed(Image)
<1>1. DirOrder[1] = Root /\ 1 \in 1 .. Len(DirOrder) /\ 1 \in 1 .. TableLen(Root)
      /\ DirTree(Root)[1] = Root
  <2>1. Len(DirOrder) \in Nat \ {0} /\ Len(DirTree(Root)) \in Nat \ {0}
    <3>1. \A s, S : Enumerates(s, S) /\ S # {} => Len(s) \in Nat \ {0} BY DEF Enumerates
    <3> QED BY <3>1, TreeIs
  <2> QED BY <2>1, TreeIs DEF TableLen
<1>2. TablesLie BY TablesAre
<1>3. Offset[1] = 0 BY <1>2 DEF TablesLie, Accumulate
<1>4. 0 + 1 \in 1 .. Len(Tables) /\ Tables[0 + 1] = Root
  BY <1>1, <1>2, <1>3 DEF TablesLie
<1>5. Len(Tables) \in Nat /\ DOMAIN Tables = 1 .. Len(Tables) BY <1>2 DEF TablesLie
<1>6. Image.table[1] = pack_entry(Root) BY <1>4, <1>5 DEF Image
<1>7. Image.table[1].name = NoName BY <1>6 DEF pack_entry
<1>8. Image.entries \in Nat \ {0}
  <2>1. Enumerates(Entries, DOMAIN tree) /\ DOMAIN tree # {} BY TreeIs
  <2>2. Len(Entries) \in Nat \ {0} BY <2>1 DEF Enumerates
  <2> QED BY <2>2 DEF Image
<1> QED BY <1>7, <1>8 DEF Headed

\* The image is that of a tree, and both walks go the same way.
PackedInv == tree \in Trees /\ WalksInv

\* What print_tree has listed and what extract_all has made are paths of the
\* same walk over the image, of which each has gone a part (rdfs.py, print_tree
\* and extract_all).
THEOREM LuFsWalks == Spec => []PackedInv
<1>1. Init => PackedInv BY DEF Init, PackedInv, WalksInv
<1>2. PackedInv /\ [Next]_vars => PackedInv'
  <2> SUFFICES ASSUME PackedInv, [Next]_vars PROVE PackedInv'
    OBVIOUS
  <2>1. tree' = tree
    BY DEF Next, vars, makefs, PrintBegins, PrintSkips, PrintEntry, ExtractBegins,
           ExtractSkips, ExtractFile, ExtractDir, Return, Begin, Skip
  <2>2. tree' \in Trees BY <2>1 DEF PackedInv
  <2>3. image' = Image => Headed(image') BY RootHeads DEF PackedInv
  <2>4. WalksInv' BY <2>3, WalksKept DEF PackedInv
  <2> QED BY <2>2, <2>4 DEF PackedInv
<1> QED BY <1>1, <1>2, PTL DEF Spec

\* At the end they are the same, in the same order, for every directory and
\* also where stored names are the same (rdfs.py).
THEOREM ListingAgrees == Spec => []ListingIsExtraction
<1>1. PackedInv => ListingIsExtraction BY DEF PackedInv, WalksInv, ListingIsExtraction
<1> QED BY <1>1, LuFsWalks, PTL

-----------------------------------------------------------------------------
(* The walk that extracts. *)

\* A sequence, of whatever elements.
IsSeq(s) == \E S : s \in Seq(S)

\* The sequence without its last element.
LEMMA Pop ==
  ASSUME NEW s, IsSeq(s), s # << >>
  PROVE  /\ IsSeq(Front(s)) /\ Len(s) \in Nat \ {0} /\ Len(Front(s)) = Len(s) - 1
         /\ \A i \in 1 .. Len(s) - 1 : Front(s)[i] = s[i]
<1>1. PICK S : s \in Seq(S) BY DEF IsSeq
<1>2. Front(s) \in Seq(S) BY <1>1, FrontOf
<1> QED BY <1>1, <1>2, FrontOf DEF IsSeq

\* The sequence with an element more.
LEMMA Push ==
  ASSUME NEW s, IsSeq(s), NEW x
  PROVE  /\ IsSeq(Append(s, x)) /\ Len(Append(s, x)) = Len(s) + 1 /\ Len(s) \in Nat
         /\ \A i \in 1 .. Len(s) : Append(s, x)[i] = s[i]
         /\ Append(s, x)[Len(s) + 1] = x
<1>1. PICK S : s \in Seq(S) BY DEF IsSeq
<1> DEFINE X == S \cup {x}
<1>2. s \in Seq(X) /\ x \in X BY <1>1
<1> HIDE DEF X
<1>3. Append(s, x) \in Seq(X) BY <1>2
<1>4. Len(Append(s, x)) = Len(s) + 1 /\ Len(s) \in Nat
      /\ \A i \in 1 .. Len(s) : Append(s, x)[i] = s[i]
      /\ Append(s, x)[Len(s) + 1] = x
  BY <1>2
<1> QED BY <1>3, <1>4 DEF IsSeq

\* A sequence with an element more ends in it.
LEMMA PushIs ==
  ASSUME NEW s, IsSeq(s), NEW x
  PROVE  s \o <<x>> = Append(s, x)
<1>1. PICK S : s \in Seq(S) BY DEF IsSeq
<1> DEFINE X == S \cup {x}
<1>2. s \in Seq(X) /\ x \in X BY <1>1
<1> HIDE DEF X
<1> QED BY <1>2, AppendIsConcat

\* The sequence with its last element replaced.
LEMMA Replace ==
  ASSUME NEW s, IsSeq(s), s # << >>, NEW x
  PROVE  LET r == Append(Front(s), x)
         IN  /\ IsSeq(r) /\ Len(r) = Len(s)
             /\ \A i \in 1 .. Len(s) - 1 : r[i] = s[i]
             /\ r[Len(s)] = x
<1>1. /\ IsSeq(Front(s)) /\ Len(s) \in Nat \ {0} /\ Len(Front(s)) = Len(s) - 1
      /\ \A i \in 1 .. Len(s) - 1 : Front(s)[i] = s[i]
  BY Pop
<1>2. (Len(s) - 1) + 1 = Len(s) BY <1>1
<1> DEFINE f == Front(s)
<1> HIDE DEF f
<1>3. /\ IsSeq(Append(f, x)) /\ Len(Append(f, x)) = Len(f) + 1
      /\ \A i \in 1 .. Len(f) : Append(f, x)[i] = f[i]
      /\ Append(f, x)[Len(f) + 1] = x
  BY <1>1, Push DEF f
<1> QED BY <1>1, <1>2, <1>3 DEF f

\* What is packed of the tree t: the tables K of its directories, the entries P
\* of its paths, and where the image has them.
DirsOf(t) == {p \in DOMAIN t : t[p] = IsDir}
KidsOf(t, d) == {p \in DOMAIN t : Front(p) = d}
Packs(t, K, P, img) ==
  /\ IsTree(t) /\ img.entries = Cardinality(DOMAIN t)
  /\ \A d \in DirsOf(t) : Enumerates(K[d], KidsOf(t, d))
  /\ K[Root][1] = Root
  /\ \A p \in DOMAIN t : P[p].name = IF p = Root THEN NoName ELSE Stored(Last(p))
  /\ \A p \in DOMAIN t : P[p].isfile <=> t[p] # IsDir
  /\ \A p \in DOMAIN t \ {Root} : Stored(Last(p)) # NoName
  /\ \A k \in 1 .. Len(K[Root]) : img.table[k] = P[K[Root][k]]
\* Every directory that holds something has its table in the image at the place
\* its entry names, and no two have the same place.
HoldsTables(t, K, P, img) ==
  /\ \A d \in DirsOf(t) \ {Root} : Len(K[d]) = 0 =>
       P[d].place.start_block = 0 /\ P[d].place.start_byte = 0
  /\ \A d \in DirsOf(t) \ {Root} : Len(K[d]) > 0 =>
       /\ P[d].place.start_block # 0
       /\ ChildCount(P[d]) = Len(K[d]) /\ Len(Table(img, P[d])) = Len(K[d])
       /\ \A k \in 1 .. Len(K[d]) : Table(img, P[d])[k] = P[K[d][k]]
  /\ \A d, e \in DirsOf(t) \ {Root} :
       Len(K[d]) > 0 /\ Len(K[e]) > 0 /\ StartOf(P[d]) = StartOf(P[e]) => d = e
\* No two names of a directory are the same in what is stored of them.
Differ(t) ==
  \A p, q \in DOMAIN t \ {Root} :
    p # q /\ Front(p) = Front(q) => Stored(Last(p)) # Stored(Last(q))

\* H is what has been made, D the directories whose tables the walk is in.
Counted(t, c, H) ==
  /\ H \subseteq DOMAIN t \ {Root} /\ c.count = Cardinality(H)
  /\ \A p \in H : Front(p) \in H \cup {Root}
\* The tables gone into are those of the directories made.
Visited(t, K, P, c, H) ==
  c.visited = {StartOf(P[d]) : d \in {x \in H : t[x] = IsDir /\ Len(K[x]) > 0}}
\* The activation f in the table of d has seen the children of d made so far,
\* and no others of the n entries.
Fits(K, P, f, d, H, n) ==
  /\ f = [entries |-> f.entries, at |-> f.at, seen |-> f.seen, path |-> f.path]
  /\ f.path = StoredPath(d) /\ Len(f.entries) = n /\ f.at \in 1 .. Len(K[d]) + 1
  /\ \A k \in 1 .. Len(K[d]) : f.entries[k] = P[K[d][k]]
  /\ f.seen \subseteq {P[K[d][k]].name : k \in 1 .. f.at - 1}
  /\ \A k \in 1 .. Len(K[d]) : K[d][k] \in H \cup {Root} <=> k < f.at
\* The number of entries that the activation i was given: all of the image for
\* the first.
Size(K, img, D, i) == IF i = 1 THEN img.entries ELSE Len(K[D[i]])
\* Each activation is in the table of its directory, one deeper than the one
\* below it.
StackFits(t, K, P, img, c, H, D) ==
  /\ IsSeq(c.stack) /\ D \in Seq(DirsOf(t)) /\ Len(D) = Len(c.stack)
  /\ \A i \in 1 .. Len(D) : /\ Len(D[i]) = i - 1 /\ (i > 1 => D[i] \in H)
                            /\ Fits(K, P, c.stack[i], D[i], H, Size(K, img, D, i))
\* A directory that has been made and left has all in it made.
Closed(t, H, D) ==
  \A d \in H : t[d] = IsDir /\ (\A i \in 1 .. Len(D) : D[i] # d) => KidsOf(t, d) \subseteq H
\* The extraction is at c: H has been made, D are the directories it is in.
Walking(t, K, P, img, c, H, D) ==
  /\ Counted(t, c, H) /\ Visited(t, K, P, c, H)
  /\ StackFits(t, K, P, img, c, H, D) /\ Closed(t, H, D)

\* Nothing is missing if every directory made has all in it made.
LEMMA Complete ==
  ASSUME NEW t, IsTree(t), NEW H, H \subseteq DOMAIN t \ {Root},
         KidsOf(t, Root) \subseteq H \cup {Root},
         \A d \in H : t[d] = IsDir => KidsOf(t, d) \subseteq H
  PROVE  H = DOMAIN t \ {Root}
<1> DEFINE M == (DOMAIN t \ {Root}) \ H
           T == {Len(p) : p \in M}
<1>1. DOMAIN t \subseteq Seq(Nat) BY DEF IsTree
<1>2. ASSUME M # {} PROVE FALSE
  <2>1. T \subseteq Nat /\ T # {}
    <3>1. \A p \in M : Len(p) \in Nat BY <1>1
    <3> QED BY <1>2, <3>1
  <2>2. PICK x \in T : \A y \in T : x <= y
    <3> HIDE DEF T
    <3> QED BY <2>1, Least
  <2>3. PICK p \in M : Len(p) = x BY <2>2
  <2>4. p \in Seq(Nat) /\ p # << >> /\ p \in DOMAIN t /\ p # Root /\ p \notin H
    BY <1>1, <2>3 DEF Root
  <2>5. /\ Front(p) \in DOMAIN t /\ t[Front(p)] = IsDir BY <2>4 DEF IsTree
  <2>6. Len(Front(p)) = Len(p) - 1 /\ Len(p) \in Nat BY <2>4, FrontOf
  <2>7. p \in KidsOf(t, Front(p)) BY <2>4 DEF KidsOf
  <2>8. CASE Front(p) = Root BY <2>4, <2>7, <2>8
  <2>9. CASE Front(p) # Root /\ Front(p) \in H BY <2>4, <2>5, <2>7, <2>9
  <2>10. CASE Front(p) # Root /\ Front(p) \notin H
    <3>1. Len(Front(p)) \in T BY <2>5, <2>10
    <3>2. x <= Len(p) - 1 BY <2>2, <2>6, <3>1
    <3> QED BY <2>3, <2>6, <3>2
  <2> QED BY <2>8, <2>9, <2>10
<1> QED BY <1>2

\* Sequences of the same length with the same elements are the same.
LEMMA SameSeq ==
  ASSUME NEW s, NEW r, IsSeq(s), IsSeq(r), Len(s) = Len(r), \A i \in 1 .. Len(s) : s[i] = r[i]
  PROVE  s = r
<1>1. PICK S : s \in Seq(S) BY DEF IsSeq
<1>2. PICK R : r \in Seq(R) BY DEF IsSeq
<1> DEFINE X == S \cup R
<1>3. s \in Seq(X) /\ r \in Seq(X) BY <1>1, <1>2
<1> HIDE DEF X
<1> QED BY <1>3, SeqEqual

\* The stored form of a path is as long as the path.
LEMMA StoredPathIs ==
  ASSUME NEW p, IsSeq(p)
  PROVE  /\ IsSeq(StoredPath(p)) /\ Len(StoredPath(p)) = Len(p) /\ Len(p) \in Nat
         /\ \A i \in 1 .. Len(p) : StoredPath(p)[i] = Stored(p[i])
<1>1. Len(p) \in Nat /\ DOMAIN p = 1 .. Len(p) BY DEF IsSeq
<1> DEFINE X == {Stored(p[i]) : i \in 1 .. Len(p)}
<1>2. StoredPath(p) \in [1 .. Len(p) -> X] BY <1>1 DEF StoredPath
<1> HIDE DEF X
<1>3. StoredPath(p) \in Seq(X) /\ Len(StoredPath(p)) = Len(p) BY <1>1, <1>2, FunctionIsSeq
<1>4. \A i \in 1 .. Len(p) : StoredPath(p)[i] = Stored(p[i]) BY <1>1 DEF StoredPath
<1> QED BY <1>1, <1>3, <1>4 DEF IsSeq

\* The k-th entry of the table of d, the place of which is the k-th of the
\* activation in d.
LEMMA Child ==
  ASSUME NEW t, IsTree(t), NEW q \in DOMAIN t \ {Root}
  PROVE  /\ IsSeq(q) /\ q # << >> /\ Len(q) \in Nat \ {0} /\ Len(Front(q)) = Len(q) - 1
         /\ Front(q) \in DirsOf(t) /\ IsSeq(Front(q))
         /\ StoredPath(q) = Append(StoredPath(Front(q)), Stored(Last(q)))
<1>1. q \in Seq(Nat) /\ q # << >> BY DEF IsTree, Root
<1>2. Front(q) \in DOMAIN t /\ t[Front(q)] = IsDir BY DEF IsTree
<1>3. /\ Front(q) \in Seq(Nat) /\ Len(Front(q)) = Len(q) - 1
      /\ \A i \in 1 .. Len(q) - 1 : Front(q)[i] = q[i]
      /\ Len(q) \in Nat \ {0}
  BY <1>1, FrontOf
<1>4. IsSeq(q) /\ IsSeq(Front(q)) BY <1>1, <1>3 DEF IsSeq
<1> DEFINE s == StoredPath(Front(q))
           x == Stored(Last(q))
           r == StoredPath(q)
<1>5. /\ IsSeq(s) /\ Len(s) = Len(q) - 1
      /\ \A i \in 1 .. Len(q) - 1 : s[i] = Stored(q[i])
  BY <1>3, <1>4, StoredPathIs
<1>6. IsSeq(r) /\ Len(r) = Len(q) /\ \A i \in 1 .. Len(q) : r[i] = Stored(q[i])
  BY <1>4, StoredPathIs
<1>7. x = Stored(q[Len(q)]) BY DEF Last
<1> HIDE DEF s, x, r
<1>8. /\ IsSeq(Append(s, x)) /\ Len(Append(s, x)) = Len(q)
      /\ \A i \in 1 .. Len(q) - 1 : Append(s, x)[i] = s[i]
      /\ Append(s, x)[Len(q)] = x
  <2>1. Len(s) + 1 = Len(q) BY <1>3, <1>5
  <2> QED BY <1>5, <2>1, Push
<1>9. \A i \in 1 .. Len(q) : r[i] = Append(s, x)[i]
  <2>1. ASSUME NEW i \in 1 .. Len(q) PROVE r[i] = Append(s, x)[i]
    <3>1. CASE i = Len(q)
      <4>1. Len(q) \in 1 .. Len(q) BY <1>3
      <4>2. r[Len(q)] = x BY <1>6, <1>7, <4>1
      <4>3. Append(s, x)[Len(q)] = x BY <1>8
      <4> QED BY <3>1, <4>2, <4>3, Zenon
    <3>2. CASE i \in 1 .. Len(q) - 1 BY <1>5, <1>6, <1>8, <3>2
    <3>3. i = Len(q) \/ i \in 1 .. Len(q) - 1
      <4>1. Len(q) \in Nat \ {0} BY <1>3
      <4> QED BY <4>1
    <3> QED BY <3>1, <3>2, <3>3, Zenon
  <2> QED BY <2>1
<1>10. r = Append(s, x) BY <1>6, <1>8, <1>9, SameSeq
<1> QED BY <1>1, <1>2, <1>3, <1>4, <1>10 DEF DirsOf, s, x, r

\* A step of the walk: it ends in a directory, which it has gone through, or it
\* makes the next child of the directory it is in.
LEMMA WalkEnds ==
  ASSUME NEW t, NEW K, NEW P, NEW img, NEW c, NEW H, NEW D,
         Packs(t, K, P, img), Walking(t, K, P, img, c, H, D), c.stack # << >>,
         (Len(c.stack) = 1 /\ Last(c.stack).at > Len(K[Root])) \/ c.count >= img.entries - 1
  PROVE  H = DOMAIN t \ {Root}
<1>1. /\ IsTree(t) /\ IsFiniteSet(DOMAIN t) /\ Root \in DOMAIN t
      /\ H \subseteq DOMAIN t \ {Root} /\ c.count = Cardinality(H)
      /\ img.entries = Cardinality(DOMAIN t)
  BY DEF Packs, IsTree, Walking, Counted
<1>2. CASE c.count >= img.entries - 1
  <2> DEFINE S == DOMAIN t \ {Root}
  <2>1. IsFiniteSet(S) /\ Cardinality(S) = Cardinality(DOMAIN t) - 1
    BY <1>1, FS_RemoveElement
  <2>2. H \in SUBSET S BY <1>1
  <2> HIDE DEF S
  <2>3. /\ IsFiniteSet(H) /\ Cardinality(H) <= Cardinality(S)
        /\ (Cardinality(H) = Cardinality(S) => S = H)
    BY <2>1, <2>2, FS_Subset
  <2>4. Cardinality(H) \in Nat /\ Cardinality(S) \in Nat BY <2>1, <2>3, FS_CardinalityType
  <2>5. Cardinality(H) = Cardinality(S) BY <1>1, <1>2, <2>1, <2>3, <2>4
  <2> QED BY <2>3, <2>5 DEF S
<1>3. CASE Len(c.stack) = 1 /\ Last(c.stack).at > Len(K[Root])
  <2>1. /\ Len(D) = 1 /\ D \in Seq(DirsOf(t)) /\ Len(D[1]) = 0 /\ D[1] \in Seq(Nat)
        /\ Fits(K, P, c.stack[1], D[1], H, Size(K, img, D, 1))
    <3>1. Len(D) = 1 /\ D \in Seq(DirsOf(t)) /\ 1 \in 1 .. Len(D)
      BY <1>3 DEF Walking, StackFits
    <3>2. D[1] \in DirsOf(t) BY <3>1
    <3>3. D[1] \in Seq(Nat) BY <1>1, <3>2 DEF DirsOf, IsTree
    <3> QED BY <3>1, <3>3 DEF Walking, StackFits
  <2>2. D[1] = Root BY <2>1, EmptySeq DEF Root
  <2>3. Last(c.stack) = c.stack[1] BY <1>3 DEF Last
  <2>4. \A k \in 1 .. Len(K[Root]) : K[Root][k] \in H \cup {Root}
    <3>1. Enumerates(K[Root], KidsOf(t, Root))
      BY <1>1 DEF Packs, DirsOf, IsTree
    <3>2. Len(K[Root]) \in Nat BY <3>1 DEF Enumerates
    <3>3. c.stack[1].at \in Nat /\ c.stack[1].at > Len(K[Root])
      BY <1>3, <2>1, <2>2, <2>3, <3>2 DEF Fits
    <3>4. \A k \in 1 .. Len(K[Root]) : k < c.stack[1].at BY <3>2, <3>3
    <3> QED BY <2>1, <2>2, <3>4 DEF Fits
  <2>5. KidsOf(t, Root) \subseteq H \cup {Root}
    <3>1. Enumerates(K[Root], KidsOf(t, Root))
      BY <1>1 DEF Packs, DirsOf, IsTree
    <3> QED BY <2>4, <3>1 DEF Enumerates
  <2>6. ASSUME NEW d \in H, t[d] = IsDir PROVE KidsOf(t, d) \subseteq H
    <3>1. \A i \in 1 .. Len(D) : D[i] # d BY <1>1, <2>1, <2>2, <2>6
    <3> QED BY <2>6, <3>1 DEF Walking, Closed
  <2> QED BY <1>1, <2>5, <2>6, Complete
<1> QED BY <1>2, <1>3

\* A return leaves a directory that has been gone through; if it was the root,
\* all has been made.
LEMMA WalkReturns ==
  ASSUME NEW t, NEW K, NEW P, NEW img, NEW c, NEW H, NEW D, NEW b,
         Packs(t, K, P, img), Walking(t, K, P, img, c, H, D), c.stack # << >>,
         Ended(img, c),
         b.stack = Front(c.stack), b.count = c.count, b.visited = c.visited
  PROVE  /\ Walking(t, K, P, img, b, H, Front(D))
         /\ Len(c.stack) = 1 => H = DOMAIN t \ {Root}
<1> DEFINE m == Len(c.stack)
           top == c.stack[m]
<1>1. /\ m \in Nat \ {0} /\ Len(D) = m /\ D \in Seq(DirsOf(t))
      /\ \A i \in 1 .. m : /\ Len(D[i]) = i - 1 /\ (i > 1 => D[i] \in H)
                           /\ Fits(K, P, c.stack[i], D[i], H, Size(K, img, D, i))
  BY Pop DEF Walking, StackFits
<1>2. /\ IsSeq(Front(c.stack)) /\ Len(Front(c.stack)) = m - 1
      /\ \A i \in 1 .. m - 1 : Front(c.stack)[i] = c.stack[i]
  BY Pop DEF Walking, StackFits
<1>3. /\ Front(D) \in Seq(DirsOf(t)) /\ Len(Front(D)) = m - 1
      /\ \A i \in 1 .. m - 1 : Front(D)[i] = D[i]
  <2>1. D # << >> BY <1>1
  <2> QED BY <1>1, <2>1, FrontOf
<1>4. top = Last(c.stack) /\ m \in 1 .. m BY <1>1 DEF Last
<1> HIDE DEF m, top
<1>5. D[m] \in DirsOf(t) /\ Len(D[m]) = m - 1 BY <1>1, <1>4
<1>6. Enumerates(K[D[m]], KidsOf(t, D[m])) /\ Len(K[D[m]]) \in Nat
  <2>1. Enumerates(K[D[m]], KidsOf(t, D[m])) BY <1>5 DEF Packs
  <2> QED BY <2>1 DEF Enumerates
<1>7. Fits(K, P, top, D[m], H, Size(K, img, D, m)) BY <1>1, <1>4 DEF top
<1>8. ASSUME H # DOMAIN t \ {Root}
      PROVE  m > 1 /\ top.at = Len(K[D[m]]) + 1
  <2>1. ~ (c.count >= img.entries - 1) BY <1>8, WalkEnds
  <2>2. top.at > Len(top.entries) BY <1>4, <2>1 DEF Ended
  <2>3. Len(top.entries) = Size(K, img, D, m) /\ top.at \in 1 .. Len(K[D[m]]) + 1
    BY <1>7 DEF Fits
  <2>4. CASE m = 1
    <3>1. Root \in DOMAIN t /\ IsFiniteSet(DOMAIN t) /\ IsTree(t)
          /\ img.entries = Cardinality(DOMAIN t)
      BY DEF Packs, IsTree
    <3>2. D[1] = Root
      <4>1. D[1] \in Seq(Nat) /\ Len(D[1]) = 0
        BY <1>5, <2>4 DEF DirsOf, Packs, IsTree
      <4> QED BY <4>1, EmptySeq DEF Root
    <3>3. Len(K[Root]) <= img.entries
      <4>1. KidsOf(t, Root) \in SUBSET DOMAIN t BY DEF KidsOf
      <4>2. Len(K[Root]) = Cardinality(KidsOf(t, Root)) BY <1>6, <2>4, <3>2 DEF Enumerates
      <4> QED BY <3>1, <4>1, <4>2, FS_Subset
    <3>4. top.at > img.entries /\ img.entries \in Nat
      BY <2>2, <2>3, <2>4, <3>1, FS_CardinalityType DEF Size
    <3>5. Len(K[Root]) \in Nat /\ top.at \in Nat BY <1>6, <2>3, <2>4, <3>2
    <3>6. Last(c.stack).at > Len(K[Root]) BY <1>4, <3>3, <3>4, <3>5
    <3> QED BY <1>8, <2>4, <3>6, WalkEnds DEF m
  <2>5. CASE m # 1
    <3>1. m > 1 BY <1>1, <2>5
    <3>2. Len(top.entries) = Len(K[D[m]]) BY <2>3, <2>5 DEF Size
    <3> QED BY <1>6, <2>2, <2>3, <3>1, <3>2
  <2> QED BY <2>4, <2>5
<1>9. Closed(t, H, Front(D))
  <2> SUFFICES ASSUME NEW d \in H, t[d] = IsDir, \A i \in 1 .. Len(Front(D)) : Front(D)[i] # d
               PROVE  KidsOf(t, d) \subseteq H
    BY DEF Closed
  <2>1. H \subseteq DOMAIN t \ {Root} BY DEF Walking, Counted
  <2>2. Root \notin KidsOf(t, d) BY <2>1, FrontOf DEF KidsOf
  <2>3. CASE H = DOMAIN t \ {Root} BY <2>2, <2>3 DEF KidsOf
  <2>4. CASE \A i \in 1 .. Len(D) : D[i] # d BY <2>4 DEF Walking, Closed
  <2>5. CASE H # DOMAIN t \ {Root} /\ ~ (\A i \in 1 .. Len(D) : D[i] # d)
    <3>1. PICK i \in 1 .. Len(D) : D[i] = d BY <2>5
    <3>2. i = m
      <4>1. i \notin 1 .. m - 1 BY <1>3, <3>1
      <4> QED BY <1>1, <4>1
    <3>3. top.at = Len(K[d]) + 1 /\ Len(K[d]) \in Nat BY <1>6, <1>8, <2>5, <3>1, <3>2
    <3>4. \A k \in 1 .. Len(K[d]) : k < top.at BY <3>3
    <3>5. \A k \in 1 .. Len(K[d]) : K[d][k] \in H \cup {Root}
      BY <1>7, <3>1, <3>2, <3>4 DEF Fits
    <3>6. KidsOf(t, d) \subseteq H \cup {Root}
      <4>1. Enumerates(K[d], KidsOf(t, d)) BY <1>6, <3>1, <3>2
      <4> QED BY <3>5, <4>1 DEF Enumerates
    <3> QED BY <2>2, <3>6
  <2> QED BY <2>3, <2>4, <2>5
<1>10. StackFits(t, K, P, img, b, H, Front(D))
  <2>1. ASSUME NEW i \in 1 .. m - 1
        PROVE  i \in 1 .. m /\ Size(K, img, Front(D), i) = Size(K, img, D, i)
    <3>1. i \in 1 .. m BY <1>1
    <3>2. Front(D)[i] = D[i] BY <1>3
    <3> QED BY <3>1, <3>2 DEF Size
  <2>2. \A i \in 1 .. m - 1 :
           /\ Len(Front(D)[i]) = i - 1 /\ (i > 1 => Front(D)[i] \in H)
           /\ Fits(K, P, Front(c.stack)[i], Front(D)[i], H, Size(K, img, Front(D), i))
    BY <1>1, <1>2, <1>3, <2>1
  <2> QED BY <1>2, <1>3, <2>2 DEF StackFits
<1>11. Counted(t, b, H) /\ Visited(t, K, P, b, H) BY DEF Walking, Counted, Visited
<1>12. m = 1 => H = DOMAIN t \ {Root} BY <1>8
<1> QED BY <1>9, <1>10, <1>11, <1>12 DEF Walking, m

\* Where the walk is if it goes on: in the directory d, before its child q.
Before(t, K, P, c, H, D, m, d, top, q) ==
  /\ m = Len(c.stack) /\ m \in Nat \ {0} /\ d = D[m] /\ top = c.stack[m] /\ top = Last(c.stack)
  /\ d \in DirsOf(t) /\ Len(d) = m - 1
  /\ top.at \in 1 .. Len(K[d]) /\ Len(K[d]) \in Nat /\ q = K[d][top.at]
  /\ q \in KidsOf(t, d) /\ q \in DOMAIN t \ {Root} /\ q \notin H
  /\ top.entries[top.at] = P[q]
  /\ P[q].name # NoName /\ P[q].name \notin top.seen
  /\ Append(top.path, P[q].name) = StoredPath(q)
\* A walk that has not come to an end is before the next child of the directory
\* it is in, whose stored name has not been seen.
LEMMA NextChild ==
  ASSUME NEW t, NEW K, NEW P, NEW img, NEW c, NEW H, NEW D,
         Packs(t, K, P, img), Differ(t), Walking(t, K, P, img, c, H, D), c.stack # << >>,
         ~ Ended(img, c)
  PROVE  \E m, d, top, q : Before(t, K, P, c, H, D, m, d, top, q)
<1> DEFINE m == Len(c.stack)
           top == c.stack[m]
           d == D[m]
           q == K[d][top.at]
<1>1. /\ m \in Nat \ {0} /\ Len(D) = m /\ D \in Seq(DirsOf(t))
      /\ \A i \in 1 .. m : /\ Len(D[i]) = i - 1 /\ (i > 1 => D[i] \in H)
                           /\ Fits(K, P, c.stack[i], D[i], H, Size(K, img, D, i))
  BY Pop DEF Walking, StackFits
<1>2. top = Last(c.stack) /\ m \in 1 .. m BY <1>1 DEF Last
<1>3. m = Len(c.stack) OBVIOUS
<1> HIDE DEF m
<1>4. d \in DirsOf(t) /\ Len(d) = m - 1 BY <1>1, <1>2
<1>5. Fits(K, P, top, d, H, Size(K, img, D, m)) BY <1>1, <1>2
<1> HIDE DEF top
<1>6. Enumerates(K[d], KidsOf(t, d)) BY <1>4 DEF Packs
<1>7. Len(K[d]) \in Nat BY <1>6 DEF Enumerates
<1>8. m = 1 => d = Root
  <2>1. d \in Seq(Nat) BY <1>4 DEF Packs, IsTree, DirsOf
  <2> QED BY <1>4, <2>1, EmptySeq DEF Root
<1> HIDE DEF d
<1>9. top.at \in 1 .. Len(K[d]) + 1 /\ Len(top.entries) = Size(K, img, D, m)
      /\ ~ (top.at > Len(top.entries)) /\ ~ (c.count >= img.entries - 1)
  BY <1>2, <1>5 DEF Fits, Ended
<1>10. top.at \in 1 .. Len(K[d])
  <2>1. CASE m = 1
    <3>1. ~ (top.at > Len(K[Root]))
      <4>1. SUFFICES ASSUME top.at > Len(K[Root]) PROVE FALSE OBVIOUS
      <4>2. H = DOMAIN t \ {Root} BY <1>2, <1>3, <2>1, <4>1, WalkEnds
      <4>3. c.count = img.entries - 1 /\ img.entries \in Nat
        <5>1. IsFiniteSet(DOMAIN t) /\ Root \in DOMAIN t /\ img.entries = Cardinality(DOMAIN t)
          BY DEF Packs, IsTree
        <5>2. Cardinality(DOMAIN t \ {Root}) = Cardinality(DOMAIN t) - 1
          BY <5>1, FS_RemoveElement
        <5>3. Cardinality(DOMAIN t) \in Nat BY <5>1, FS_CardinalityType
        <5> QED BY <4>2, <5>1, <5>2, <5>3 DEF Walking, Counted
      <4> QED BY <1>9, <4>3
    <3> QED BY <1>7, <1>8, <1>9, <2>1, <3>1
  <2>2. CASE m # 1
    <3>1. Size(K, img, D, m) = Len(K[d]) BY <2>2 DEF Size, d
    <3> QED BY <1>7, <1>9, <3>1
  <2> QED BY <2>1, <2>2
<1>11. q \in KidsOf(t, d) /\ q \notin H \cup {Root} /\ top.entries[top.at] = P[q]
  <2>1. q \in KidsOf(t, d) BY <1>6, <1>10 DEF Enumerates
  <2>2. q \in H \cup {Root} <=> top.at < top.at BY <1>5, <1>10 DEF Fits
  <2>3. ~ (top.at < top.at) BY <1>10
  <2>4. top.entries[top.at] = P[q] BY <1>5, <1>10 DEF Fits
  <2> QED BY <2>1, <2>2, <2>3, <2>4
<1>12. q \in DOMAIN t \ {Root} /\ Front(q) = d BY <1>11 DEF KidsOf
<1>13. P[q].name = Stored(Last(q)) /\ P[q].name # NoName BY <1>12 DEF Packs
<1>14. P[q].name \notin top.seen
  <2>1. SUFFICES ASSUME P[q].name \in top.seen PROVE FALSE OBVIOUS
  <2>2. PICK k \in 1 .. top.at - 1 : P[K[d][k]].name = P[q].name BY <1>5, <2>1 DEF Fits
  <2>3. k \in 1 .. Len(K[d]) /\ k < top.at BY <1>7, <1>10
  <2> DEFINE p == K[d][k]
  <2>4. p \in H \cup {Root} /\ p \in KidsOf(t, d) BY <1>5, <1>6, <2>3 DEF Fits, Enumerates
  <2>5. p \in DOMAIN t /\ Front(p) = d /\ p # q BY <1>11, <2>4 DEF KidsOf
  <2> HIDE DEF p
  <2>6. p # Root
    <3>1. SUFFICES ASSUME p = Root PROVE FALSE OBVIOUS
    <3>2. P[p].name = NoName BY <2>5, <3>1 DEF Packs
    <3> QED BY <1>13, <2>2, <3>2 DEF p
  <2>7. P[p].name = Stored(Last(p)) BY <2>5, <2>6 DEF Packs
  <2>8. Stored(Last(p)) # Stored(Last(q)) BY <1>12, <2>5, <2>6 DEF Differ
  <2> QED BY <1>13, <2>2, <2>7, <2>8 DEF p
<1>15. Append(top.path, P[q].name) = StoredPath(q)
  <2>1. top.path = StoredPath(d) BY <1>5 DEF Fits
  <2>2. IsTree(t) BY DEF Packs
  <2> QED BY <1>12, <1>13, <2>1, <2>2, Child
<1>16. Before(t, K, P, c, H, D, m, d, top, q)
  BY <1>1, <1>2, <1>3, <1>4, <1>7, <1>10, <1>11, <1>12, <1>13, <1>14, <1>15 DEF Before, d, top
<1> QED BY <1>16

\* The stack with q seen: its directory has q made, the others are as before.
Passed(top, P, q) == [top EXCEPT !.at = @ + 1, !.seen = @ \cup {P[q].name}]
\* The activation in d has seen one name more, that of q.
LEMMA SeenIs ==
  ASSUME NEW top, NEW x,
         top = [entries |-> top.entries, at |-> top.at, seen |-> top.seen, path |-> top.path]
  PROVE  [top EXCEPT !.at = @ + 1, !.seen = @ \cup {x}] =
           [entries |-> top.entries, at |-> top.at + 1, seen |-> top.seen \cup {x},
            path |-> top.path]
<1> DEFINE y == top.at + 1  z == top.seen \cup {x}
           es == top.entries  a == top.at  s == top.seen  r == top.path
<1>1. top = [entries |-> es, at |-> a, seen |-> s, path |-> r] OBVIOUS
<1>2. [top EXCEPT !.at = @ + 1, !.seen = @ \cup {x}] = [top EXCEPT !.at = y, !.seen = z]
  OBVIOUS
<1> HIDE DEF y, z, es, a, s, r
<1>3. [top EXCEPT !.at = y, !.seen = z] = [entries |-> es, at |-> y, seen |-> z, path |-> r]
  <2> DEFINE g == [top EXCEPT !.at = y]
  <2>1. g = [entries |-> es, at |-> y, seen |-> s, path |-> r] BY <1>1
  <2>2. [top EXCEPT !.at = y, !.seen = z] = [g EXCEPT !.seen = z] OBVIOUS
  <2> HIDE DEF g
  <2>3. [g EXCEPT !.seen = z] = [entries |-> es, at |-> y, seen |-> z, path |-> r] BY <2>1
  <2> QED BY <2>2, <2>3
<1> QED BY <1>2, <1>3 DEF y, z, es, r

\* The activations below it are as before.
LEMMA RestFits ==
  ASSUME NEW t, NEW K, NEW P, NEW img, NEW c, NEW H, NEW D,
         Packs(t, K, P, img), Walking(t, K, P, img, c, H, D), c.stack # << >>,
         NEW m, NEW d, NEW top, NEW q, Before(t, K, P, c, H, D, m, d, top, q),
         NEW rest, rest = Append(Front(c.stack), Passed(top, P, q))
  PROVE  /\ IsSeq(rest) /\ Len(rest) = m /\ Len(D) = m /\ D \in Seq(DirsOf(t))
         /\ \A i \in 1 .. m : /\ Len(D[i]) = i - 1 /\ (i > 1 => D[i] \in H)
                              /\ Fits(K, P, rest[i], D[i], H \cup {q}, Size(K, img, D, i))
<1>1. /\ m \in Nat \ {0} /\ Len(D) = m /\ D \in Seq(DirsOf(t)) /\ IsSeq(c.stack)
      /\ \A i \in 1 .. m : /\ Len(D[i]) = i - 1 /\ (i > 1 => D[i] \in H)
                           /\ Fits(K, P, c.stack[i], D[i], H, Size(K, img, D, i))
  BY DEF Walking, StackFits, Before
<1>2. /\ IsSeq(rest) /\ Len(rest) = m
      /\ \A i \in 1 .. m - 1 : rest[i] = c.stack[i]
      /\ rest[m] = Passed(top, P, q)
  <2> DEFINE x == Passed(top, P, q)
  <2>1. m = Len(c.stack) BY DEF Before
  <2> HIDE DEF x
  <2>2. /\ IsSeq(Append(Front(c.stack), x)) /\ Len(Append(Front(c.stack), x)) = Len(c.stack)
        /\ \A i \in 1 .. Len(c.stack) - 1 : Append(Front(c.stack), x)[i] = c.stack[i]
        /\ Append(Front(c.stack), x)[Len(c.stack)] = x
    BY <1>1, Replace
  <2> QED BY <2>1, <2>2 DEF x
<1>3. \A i \in 1 .. m : Enumerates(K[D[i]], KidsOf(t, D[i]))
  BY <1>1 DEF Packs
<1>4. Front(q) = D[m] /\ m \in 1 .. m
  <2>1. d = D[m] /\ q \in KidsOf(t, d) BY DEF Before
  <2>2. Front(q) = d BY <2>1 DEF KidsOf
  <2> QED BY <1>1, <2>1, <2>2
<1>5. ASSUME NEW i \in 1 .. m - 1
      PROVE  Fits(K, P, rest[i], D[i], H \cup {q}, Size(K, img, D, i))
  <2> DEFINE f == c.stack[i]  n == Size(K, img, D, i)  e == D[i]
  <2>1. i \in 1 .. m /\ rest[i] = f /\ Fits(K, P, f, e, H, n) BY <1>1, <1>2
  <2>2. e # D[m]
    <3>1. Len(e) = i - 1 /\ Len(D[m]) = m - 1 BY <1>1, <1>4, <2>1
    <3> QED BY <1>1, <3>1
  <2>3. Enumerates(K[e], KidsOf(t, e)) BY <1>3, <2>1
  <2> HIDE DEF f, n, e
  <2>4. \A k \in 1 .. Len(K[e]) : K[e][k] # q
    <3>1. \A k \in 1 .. Len(K[e]) : K[e][k] \in KidsOf(t, e) BY <2>3 DEF Enumerates
    <3> QED BY <1>4, <2>2, <3>1 DEF KidsOf
  <2>5. Fits(K, P, f, e, H \cup {q}, n) BY <2>1, <2>4 DEF Fits
  <2> QED BY <2>1, <2>5 DEF f, n, e
<1>6. Fits(K, P, rest[m], D[m], H \cup {q}, Size(K, img, D, m))
  <2> DEFINE f == Passed(top, P, q)  n == Size(K, img, D, m)
  <2>1. Fits(K, P, top, d, H, n) /\ d = D[m] BY <1>1, <1>4 DEF Before
  <2>2. Enumerates(K[d], KidsOf(t, d)) BY <1>3, <1>4, <2>1
  <2>3. top = [entries |-> top.entries, at |-> top.at, seen |-> top.seen, path |-> top.path]
    BY <2>1 DEF Fits
  <2>4. f = [entries |-> top.entries, at |-> top.at + 1, seen |-> top.seen \cup {P[q].name},
             path |-> top.path]
    BY <2>3, SeenIs DEF Passed
  <2> HIDE DEF f, n
  <2>5. /\ f.entries = top.entries /\ f.at = top.at + 1 /\ f.seen = top.seen \cup {P[q].name}
        /\ f.path = top.path
        /\ f = [entries |-> f.entries, at |-> f.at, seen |-> f.seen, path |-> f.path]
    BY <2>4
  <2>6. top.at \in 1 .. Len(K[d]) /\ Len(K[d]) \in Nat /\ q = K[d][top.at] BY DEF Before
  <2>7. f.at \in 1 .. Len(K[d]) + 1 /\ f.at - 1 = top.at BY <2>5, <2>6
  <2>8. f.seen \subseteq {P[K[d][k]].name : k \in 1 .. f.at - 1}
    <3>1. top.seen \subseteq {P[K[d][k]].name : k \in 1 .. top.at - 1} BY <2>1 DEF Fits
    <3>2. \A k \in 1 .. top.at - 1 : k \in 1 .. top.at BY <2>6
    <3>3. top.at \in 1 .. top.at BY <2>6
    <3> QED BY <2>5, <2>6, <2>7, <3>1, <3>2, <3>3
  <2>9. ASSUME NEW k \in 1 .. Len(K[d])
        PROVE  K[d][k] \in H \cup {q} \cup {Root} <=> k < f.at
    <3>1. K[d][k] \in H \cup {Root} <=> k < top.at BY <2>1 DEF Fits
    <3>2. K[d][k] = q <=> k = top.at BY <2>2, <2>6 DEF Enumerates
    <3>3. k < f.at <=> k < top.at \/ k = top.at BY <2>5, <2>6
    <3> QED BY <3>1, <3>2, <3>3, Zenon
  <2>10. f.path = StoredPath(d) /\ Len(f.entries) = n
         /\ \A k \in 1 .. Len(K[d]) : f.entries[k] = P[K[d][k]]
    BY <2>1, <2>5 DEF Fits
  <2>11. Fits(K, P, f, d, H \cup {q}, n) BY <2>5, <2>7, <2>8, <2>9, <2>10 DEF Fits
  <2> QED BY <1>2, <2>1, <2>11 DEF f, n
<1>7. \A i \in 1 .. m : i \in 1 .. m - 1 \/ i = m BY <1>1
<1> QED BY <1>1, <1>2, <1>5, <1>6, <1>7

\* What is made has been counted.
LEMMA CountedNext ==
  ASSUME NEW t, NEW K, NEW P, NEW img, NEW c, NEW H, NEW D, NEW b,
         Packs(t, K, P, img), Walking(t, K, P, img, c, H, D),
         NEW m, NEW d, NEW top, NEW q, Before(t, K, P, c, H, D, m, d, top, q),
         b.count = c.count + 1
  PROVE  Counted(t, b, H \cup {q})
<1>1. H \in SUBSET DOMAIN t /\ IsFiniteSet(DOMAIN t) BY DEF Walking, Counted, Packs, IsTree
<1>2. IsFiniteSet(H) BY <1>1, FS_Subset
<1>3. q \notin H /\ q \in DOMAIN t \ {Root} /\ Front(q) = d BY DEF Before, KidsOf
<1>4. Cardinality(H \cup {q}) = Cardinality(H) + 1 BY <1>2, <1>3, FS_AddElement
<1>5. d \in H \cup {Root}
  <2>1. m \in Nat \ {0} /\ Len(D) = m /\ d = D[m] /\ Len(d) = m - 1 /\ (m > 1 => D[m] \in H)
    <3>1. Len(D) = m /\ m \in Nat \ {0} /\ d = D[m] /\ Len(d) = m - 1
      BY DEF Before, Walking, StackFits
    <3>2. m \in 1 .. Len(D) BY <3>1
    <3> QED BY <3>1, <3>2 DEF Walking, StackFits
  <2>2. CASE m = 1
    <3>1. d \in Seq(Nat) BY DEF Before, DirsOf, Packs, IsTree
    <3> QED BY <2>1, <2>2, <3>1, EmptySeq DEF Root
  <2>3. CASE m # 1
    <3>1. m > 1 BY <2>1, <2>3
    <3> QED BY <2>1, <3>1
  <2> QED BY <2>2, <2>3
<1> QED BY <1>1, <1>3, <1>4, <1>5 DEF Walking, Counted

\* The tables gone into, with q made.
LEMMA VisitedIs ==
  ASSUME NEW t, NEW K, NEW P, NEW img, NEW c, NEW H, NEW D,
         Packs(t, K, P, img), Walking(t, K, P, img, c, H, D), c.stack # << >>, ~ Ended(img, c),
         NEW m, NEW d, NEW top, NEW q, Before(t, K, P, c, H, D, m, d, top, q)
  PROVE  LET rest == Append(Front(c.stack), Passed(top, P, q))
             b    == After(img, c)
         IN  /\ b.count = c.count + 1
             /\ ~ Enterable(c, P[q]) => b.visited = c.visited /\ b.stack = rest
             /\ Enterable(c, P[q]) =>
                  /\ b.visited = c.visited \cup {StartOf(P[q])}
                  /\ ChildCount(P[q]) > 0 =>
                       b.stack = rest \o <<[entries |-> Table(img, P[q]), at |-> 1, seen |-> {},
                                            path |-> StoredPath(q)]>>
<1>1. /\ Last(c.stack) = top /\ top.entries[top.at] = P[q]
      /\ P[q].name # NoName /\ P[q].name \notin top.seen
      /\ Append(top.path, P[q].name) = StoredPath(q)
  BY DEF Before
<1>2. ~ Passes(c) BY <1>1 DEF Passes
<1>3. After(img, c) = Visit(img, c) BY <1>2 DEF After
<1> DEFINE e == P[q]
<1> HIDE DEF e
<1>4. /\ Last(c.stack) = top /\ top.entries[top.at] = e
      /\ Append(top.path, e.name) = StoredPath(q)
      /\ Passed(top, P, q) = [top EXCEPT !.at = @ + 1, !.seen = @ \cup {e.name}]
  BY <1>1 DEF Passed, e
<1>5. /\ Visit(img, c).count = c.count + 1
      /\ Visit(img, c).visited =
           IF Enterable(c, e) THEN c.visited \cup {StartOf(e)} ELSE c.visited
      /\ Visit(img, c).stack =
           IF Enterable(c, e) /\ ChildCount(e) > 0
           THEN Append(Front(c.stack), Passed(top, P, q))
                  \o <<[entries |-> Table(img, e), at |-> 1, seen |-> {},
                        path |-> StoredPath(q)]>>
           ELSE Append(Front(c.stack), Passed(top, P, q))
  BY <1>4 DEF Visit
<1> QED BY <1>3, <1>5 DEF e

\* A file, or a directory with nothing in it: the walk goes on in the same table.
LEMMA WalkStays ==
  ASSUME NEW t, NEW K, NEW P, NEW img, NEW c, NEW H, NEW D,
         Packs(t, K, P, img), Walking(t, K, P, img, c, H, D), c.stack # << >>,
         NEW m, NEW d, NEW top, NEW q, Before(t, K, P, c, H, D, m, d, top, q),
         t[q] # IsDir \/ Len(K[q]) = 0,
         NEW b, b.count = c.count + 1, b.visited = c.visited,
         b.stack = Append(Front(c.stack), Passed(top, P, q))
  PROVE  Walking(t, K, P, img, b, H \cup {q}, D)
<1>1. Counted(t, b, H \cup {q}) BY CountedNext
<1>2. Visited(t, K, P, b, H \cup {q})
  <2>1. \/ t[q] # IsDir
        \/ ~ (Len(K[q]) > 0)
    <3>1. ~ (0 > 0) OBVIOUS
    <3> QED BY <3>1
  <2>2. {x \in H \cup {q} : t[x] = IsDir /\ Len(K[x]) > 0} = {x \in H : t[x] = IsDir /\ Len(K[x]) > 0}
    BY <2>1
  <2> QED BY <2>2 DEF Walking, Visited
<1>3. StackFits(t, K, P, img, b, H \cup {q}, D)
  <2> DEFINE rest == Append(Front(c.stack), Passed(top, P, q))
  <2>1. /\ IsSeq(rest) /\ Len(rest) = m /\ Len(D) = m /\ D \in Seq(DirsOf(t))
        /\ \A i \in 1 .. m : /\ Len(D[i]) = i - 1 /\ (i > 1 => D[i] \in H)
                             /\ Fits(K, P, rest[i], D[i], H \cup {q}, Size(K, img, D, i))
    BY RestFits
  <2>2. b.stack = rest OBVIOUS
  <2> HIDE DEF rest
  <2> QED BY <2>1, <2>2 DEF StackFits
<1>4. Closed(t, H \cup {q}, D)
  <2> SUFFICES ASSUME NEW e \in H \cup {q}, t[e] = IsDir, \A i \in 1 .. Len(D) : D[i] # e
               PROVE  KidsOf(t, e) \subseteq H \cup {q}
    BY DEF Closed
  <2>1. CASE e \in H BY <2>1 DEF Walking, Closed
  <2>2. CASE e = q
    <3>1. Len(K[q]) = 0 /\ q \in DirsOf(t) BY <2>2 DEF Before, DirsOf
    <3>2. Enumerates(K[q], KidsOf(t, q)) BY <3>1 DEF Packs
    <3>3. KidsOf(t, q) = {} BY <3>1, <3>2 DEF Enumerates
    <3> QED BY <2>2, <3>3
  <2> QED BY <2>1, <2>2
<1> QED BY <1>1, <1>2, <1>3, <1>4 DEF Walking

\* A directory with something in it: the walk goes on in its table.
LEMMA WalkEnters ==
  ASSUME NEW t, NEW K, NEW P, NEW img, NEW c, NEW H, NEW D,
         Packs(t, K, P, img), HoldsTables(t, K, P, img),
         Walking(t, K, P, img, c, H, D), c.stack # << >>,
         NEW m, NEW d, NEW top, NEW q, Before(t, K, P, c, H, D, m, d, top, q),
         t[q] = IsDir, Len(K[q]) > 0,
         NEW b, b.count = c.count + 1, b.visited = c.visited \cup {StartOf(P[q])},
         b.stack = Append(Front(c.stack), Passed(top, P, q))
                     \o <<[entries |-> Table(img, P[q]), at |-> 1, seen |-> {},
                           path |-> StoredPath(q)]>>
  PROVE  Walking(t, K, P, img, b, H \cup {q}, Append(D, q))
<1> DEFINE rest == Append(Front(c.stack), Passed(top, P, q))
           new == [entries |-> Table(img, P[q]), at |-> 1, seen |-> {}, path |-> StoredPath(q)]
           G == H \cup {q}
           E == Append(D, q)
<1>1. Counted(t, b, G) BY CountedNext
<1>2. Visited(t, K, P, b, G)
  <2>1. {x \in G : t[x] = IsDir /\ Len(K[x]) > 0}
          = {x \in H : t[x] = IsDir /\ Len(K[x]) > 0} \cup {q}
    OBVIOUS
  <2>2. c.visited = {StartOf(P[x]) : x \in {x \in H : t[x] = IsDir /\ Len(K[x]) > 0}}
    BY DEF Walking, Visited
  <2>3. b.visited = {StartOf(P[x]) : x \in {x \in G : t[x] = IsDir /\ Len(K[x]) > 0}}
    BY <2>1, <2>2
  <2> QED BY <2>3 DEF Visited
<1>3. /\ IsSeq(rest) /\ Len(rest) = m /\ Len(D) = m /\ D \in Seq(DirsOf(t))
      /\ \A i \in 1 .. m : /\ Len(D[i]) = i - 1 /\ (i > 1 => D[i] \in H)
                           /\ Fits(K, P, rest[i], D[i], G, Size(K, img, D, i))
  BY RestFits
<1>4. /\ m \in Nat \ {0} /\ q \in DirsOf(t) \ {Root} /\ q \notin H /\ Front(q) = d
      /\ Len(d) = m - 1 /\ q \in DOMAIN t \ {Root}
  BY DEF Before, DirsOf, KidsOf
<1>5. Len(q) = m /\ Len(Front(q)) # Len(q)
  <2>1. Len(q) \in Nat \ {0} /\ Len(Front(q)) = Len(q) - 1
    <3>1. IsTree(t) BY DEF Packs
    <3> QED BY <1>4, <3>1, Child
  <2> QED BY <1>4, <2>1
<1>6. /\ IsSeq(b.stack) /\ Len(b.stack) = m + 1
      /\ \A i \in 1 .. m : b.stack[i] = rest[i]
      /\ b.stack[m + 1] = new
  <2>1. b.stack = rest \o <<new>> OBVIOUS
  <2> HIDE DEF rest, new
  <2>2. b.stack = Append(rest, new) BY <1>3, <2>1, PushIs
  <2>3. /\ IsSeq(Append(rest, new)) /\ Len(Append(rest, new)) = Len(rest) + 1
        /\ \A i \in 1 .. Len(rest) : Append(rest, new)[i] = rest[i]
        /\ Append(rest, new)[Len(rest) + 1] = new
    BY <1>3, Push
  <2> QED BY <1>3, <2>2, <2>3
<1>7. /\ E \in Seq(DirsOf(t)) /\ Len(E) = m + 1 /\ E[m + 1] = q
      /\ \A i \in 1 .. m : E[i] = D[i]
  <2>1. q \in DirsOf(t) BY <1>4
  <2>2. E \in Seq(DirsOf(t)) /\ Len(E) = m + 1 BY <1>3, <2>1
  <2>3. E[m + 1] = q BY <1>3
  <2>4. \A i \in 1 .. m : E[i] = D[i] BY <1>3
  <2> QED BY <2>2, <2>3, <2>4
<1> HIDE DEF E, rest
<1>8. Enumerates(K[q], KidsOf(t, q)) /\ Len(K[q]) \in Nat
  <2>1. Enumerates(K[q], KidsOf(t, q)) BY <1>4 DEF Packs
  <2> QED BY <2>1 DEF Enumerates
<1>9. Fits(K, P, new, q, G, Len(K[q]))
  <2>1. Len(Table(img, P[q])) = Len(K[q])
        /\ \A k \in 1 .. Len(K[q]) : Table(img, P[q])[k] = P[K[q][k]]
    BY <1>4 DEF HoldsTables
  <2>2. ASSUME NEW k \in 1 .. Len(K[q]) PROVE K[q][k] \notin G \cup {Root} /\ ~ (k < 1)
    <3> DEFINE p == K[q][k]
    <3>1. p \in DOMAIN t /\ Front(p) = q BY <1>8 DEF Enumerates, KidsOf
    <3> HIDE DEF p
    <3>2. p # q BY <1>5, <3>1
    <3>3. p # Root BY <1>4, <3>1, FrontOf
    <3>4. p \notin H BY <1>4, <3>1 DEF Walking, Counted
    <3>5. ~ (k < 1) OBVIOUS
    <3> QED BY <3>2, <3>3, <3>4, <3>5 DEF p
  <2>3. 1 \in 1 .. Len(K[q]) + 1 BY <1>8
  <2>4. /\ new.entries = Table(img, P[q]) /\ new.at = 1 /\ new.seen = {}
        /\ new.path = StoredPath(q)
        /\ new = [entries |-> new.entries, at |-> new.at, seen |-> new.seen, path |-> new.path]
    OBVIOUS
  <2> HIDE DEF new, G
  <2> QED BY <2>1, <2>2, <2>3, <2>4 DEF Fits
<1> HIDE DEF new
<1>10. StackFits(t, K, P, img, b, G, E)
  <2>1. ASSUME NEW i \in 1 .. m + 1
        PROVE  /\ Len(E[i]) = i - 1 /\ (i > 1 => E[i] \in G)
               /\ Fits(K, P, b.stack[i], E[i], G, Size(K, img, E, i))
    <3>1. CASE i \in 1 .. m
      <4>1. E[i] = D[i] /\ b.stack[i] = rest[i] /\ Size(K, img, E, i) = Size(K, img, D, i)
        BY <1>6, <1>7, <3>1 DEF Size
      <4> QED BY <1>3, <3>1, <4>1
    <3>2. CASE i = m + 1
      <4>1. E[i] = q /\ b.stack[i] = new /\ i # 1 BY <1>4, <1>6, <1>7, <3>2
      <4>2. Size(K, img, E, i) = Len(K[q]) BY <4>1 DEF Size
      <4>3. Len(E[i]) = i - 1 /\ E[i] \in G BY <1>4, <1>5, <3>2, <4>1
      <4> QED BY <1>9, <4>1, <4>2, <4>3
    <3>3. i \in 1 .. m \/ i = m + 1 BY <1>4
    <3> QED BY <3>1, <3>2, <3>3
  <2> QED BY <1>6, <1>7, <2>1 DEF StackFits
<1>11. Closed(t, G, E)
  <2> SUFFICES ASSUME NEW e \in G, t[e] = IsDir, \A i \in 1 .. Len(E) : E[i] # e
               PROVE  KidsOf(t, e) \subseteq G
    BY DEF Closed
  <2>1. e # q
    <3>1. m + 1 \in 1 .. Len(E) BY <1>4, <1>7
    <3> QED BY <1>7, <3>1
  <2>2. \A i \in 1 .. Len(D) : D[i] # e
    <3>1. ASSUME NEW i \in 1 .. m PROVE D[i] # e
      <4>1. i \in 1 .. Len(E) /\ E[i] = D[i] BY <1>4, <1>7
      <4> QED BY <4>1
    <3> QED BY <1>3, <3>1
  <2> QED BY <2>1, <2>2 DEF Walking, Closed
<1> QED BY <1>1, <1>2, <1>10, <1>11 DEF Walking, E

\* The walk makes q, at the path under which it was stored, and goes on.
Making(t, K, P, img, c, H, q) ==
  /\ q \in DOMAIN t \ {Root} /\ q \notin H
  /\ Last(c.stack).entries[Last(c.stack).at] = P[q]
  /\ P[q].name # NoName /\ P[q].name \notin Last(c.stack).seen
  /\ Append(Last(c.stack).path, P[q].name) = StoredPath(q)
  /\ \E E : Walking(t, K, P, img, After(img, c), H \cup {q}, E)
\* A walk that has not come to an end makes the next child.
LEMMA WalkMakes ==
  ASSUME NEW t, NEW K, NEW P, NEW img, NEW c, NEW H, NEW D,
         Packs(t, K, P, img), HoldsTables(t, K, P, img), Differ(t),
         Walking(t, K, P, img, c, H, D), c.stack # << >>, ~ Ended(img, c)
  PROVE  \E q : Making(t, K, P, img, c, H, q)
<1>1. PICK m, d, top, q : Before(t, K, P, c, H, D, m, d, top, q) BY NextChild
<1> DEFINE b == After(img, c)
           rest == Append(Front(c.stack), Passed(top, P, q))
           new == [entries |-> Table(img, P[q]), at |-> 1, seen |-> {}, path |-> StoredPath(q)]
<1>2. /\ b.count = c.count + 1
      /\ ~ Enterable(c, P[q]) => b.visited = c.visited /\ b.stack = rest
      /\ Enterable(c, P[q]) =>
           /\ b.visited = c.visited \cup {StartOf(P[q])}
           /\ ChildCount(P[q]) > 0 => b.stack = rest \o <<new>>
  BY <1>1, VisitedIs
<1>3. /\ q \in DOMAIN t \ {Root} /\ q \notin H /\ top = Last(c.stack)
      /\ top.entries[top.at] = P[q] /\ P[q].name # NoName /\ P[q].name \notin top.seen
      /\ Append(top.path, P[q].name) = StoredPath(q)
  BY <1>1 DEF Before
<1>4. P[q].isfile <=> t[q] # IsDir BY <1>3 DEF Packs
<1> HIDE DEF b
<1>5. ASSUME t[q] # IsDir PROVE \E E : Walking(t, K, P, img, b, H \cup {q}, E)
  <2>1. ~ Enterable(c, P[q]) BY <1>4, <1>5 DEF Enterable
  <2>2. Walking(t, K, P, img, b, H \cup {q}, D) BY <1>1, <1>2, <1>5, <2>1, WalkStays
  <2> QED BY <2>2
<1>6. ASSUME t[q] = IsDir PROVE \E E : Walking(t, K, P, img, b, H \cup {q}, E)
  <2>1. q \in DirsOf(t) \ {Root} BY <1>3, <1>6 DEF DirsOf
  <2>2. Len(K[q]) \in Nat
    <3>1. Enumerates(K[q], KidsOf(t, q)) BY <2>1 DEF Packs
    <3> QED BY <3>1 DEF Enumerates
  <2>3. CASE Len(K[q]) = 0
    <3>1. P[q].place.start_block = 0 /\ P[q].place.start_byte = 0
      BY <2>1, <2>3 DEF HoldsTables
    <3>2. ~ Enterable(c, P[q]) BY <3>1 DEF Enterable
    <3>3. Walking(t, K, P, img, b, H \cup {q}, D) BY <1>1, <1>2, <2>3, <3>2, WalkStays
    <3> QED BY <3>3
  <2>4. CASE Len(K[q]) > 0
    <3>1. P[q].place.start_block # 0 /\ ChildCount(P[q]) = Len(K[q])
      BY <2>1, <2>4 DEF HoldsTables
    <3>2. StartOf(P[q]) \notin c.visited
      <4>1. SUFFICES ASSUME StartOf(P[q]) \in c.visited PROVE FALSE OBVIOUS
      <4>2. PICK x \in H : t[x] = IsDir /\ Len(K[x]) > 0 /\ StartOf(P[q]) = StartOf(P[x])
        BY <4>1 DEF Walking, Visited
      <4>3. x \in DirsOf(t) \ {Root} BY <4>2 DEF Walking, Counted, DirsOf
      <4>4. x = q BY <2>1, <2>4, <4>2, <4>3 DEF HoldsTables
      <4> QED BY <1>3, <4>4
    <3>3. Enterable(c, P[q]) BY <1>4, <1>6, <3>1, <3>2 DEF Enterable
    <3>4. b.stack = rest \o <<new>> /\ b.visited = c.visited \cup {StartOf(P[q])}
      BY <1>2, <2>4, <3>1, <3>3
    <3>5. Walking(t, K, P, img, b, H \cup {q}, Append(D, q))
      BY <1>1, <1>2, <1>6, <2>4, <3>4, WalkEnters
    <3> QED BY <3>5
  <2> QED BY <2>2, <2>3, <2>4
<1>7. Making(t, K, P, img, c, H, q) BY <1>3, <1>5, <1>6 DEF Making, b
<1> QED BY <1>7

\* The walk starts in the root, behind the entry of the root, with nothing
\* made.
LEMMA WalkStarts ==
  ASSUME NEW t, NEW K, NEW P, NEW img, Packs(t, K, P, img)
  PROVE  Walking(t, K, P, img, Start(img), {}, <<Root>>)
<1> DEFINE c == Start(img)
           f == [entries |-> SubSeq(img.table, 1, img.entries), at |-> 2, seen |-> {},
                 path |-> Root]
<1>1. c.stack = <<f>> /\ c.visited = {} /\ c.count = 0 BY DEF Start
<1>2. /\ Root \in DirsOf(t) /\ IsFiniteSet(DOMAIN t) /\ Root \in KidsOf(t, Root)
      /\ img.entries = Cardinality(DOMAIN t) /\ Enumerates(K[Root], KidsOf(t, Root))
      /\ K[Root][1] = Root
  <2>1. Root \in DOMAIN t /\ t[Root] = IsDir /\ IsFiniteSet(DOMAIN t) BY DEF Packs, IsTree
  <2>2. Root \in DirsOf(t) /\ Root \in KidsOf(t, Root) BY <2>1, FrontOf DEF DirsOf, KidsOf
  <2> QED BY <2>1, <2>2 DEF Packs
<1>3. Len(K[Root]) \in Nat \ {0} /\ Len(K[Root]) <= img.entries /\ img.entries \in Nat
  <2>1. KidsOf(t, Root) \in SUBSET DOMAIN t BY DEF KidsOf
  <2>2. Len(K[Root]) = Cardinality(KidsOf(t, Root)) BY <1>2 DEF Enumerates
  <2>3. Cardinality(KidsOf(t, Root)) <= Cardinality(DOMAIN t) BY <1>2, <2>1, FS_Subset
  <2>4. Cardinality(DOMAIN t) \in Nat BY <1>2, FS_CardinalityType
  <2>5. Len(K[Root]) \in Nat \ {0} BY <1>2 DEF Enumerates
  <2> QED BY <1>2, <2>2, <2>3, <2>4, <2>5
<1>4. Counted(t, c, {}) /\ Visited(t, K, P, c, {}) BY <1>1, FS_EmptySet DEF Counted, Visited
<1>5. Fits(K, P, f, Root, {}, img.entries)
  <2>1. Len(f.entries) = img.entries /\ \A k \in 1 .. img.entries : f.entries[k] = img.table[k]
    BY <1>3
  <2>2. \A k \in 1 .. Len(K[Root]) : f.entries[k] = P[K[Root][k]]
    <3>1. \A k \in 1 .. Len(K[Root]) : k \in 1 .. img.entries BY <1>3
    <3> QED BY <2>1, <3>1 DEF Packs
  <2>3. \A k \in 1 .. Len(K[Root]) : K[Root][k] \in {} \cup {Root} <=> k < 2
    <3>1. ASSUME NEW k \in 1 .. Len(K[Root]) PROVE K[Root][k] = Root <=> k < 2
      <4>1. 1 \in 1 .. Len(K[Root]) BY <1>3
      <4>2. K[Root][k] = Root <=> k = 1 BY <1>2, <4>1 DEF Enumerates
      <4>3. k = 1 <=> k < 2 BY <1>3
      <4> QED BY <4>2, <4>3
    <3> QED BY <3>1
  <2>4. StoredPath(Root) = Root
    <3>1. IsSeq(Root)
      <4>1. Root \in Seq(Nat) BY DEF Root
      <4> QED BY <4>1 DEF IsSeq
    <3>2. IsSeq(StoredPath(Root)) /\ Len(StoredPath(Root)) = Len(Root) BY <3>1, StoredPathIs
    <3>3. Len(Root) = 0 BY DEF Root
    <3>4. \A i \in 1 .. 0 : FALSE OBVIOUS
    <3> QED BY <3>1, <3>2, <3>3, <3>4, SameSeq
  <2>5. /\ f.at = 2 /\ f.seen = {} /\ f.path = Root
        /\ f = [entries |-> f.entries, at |-> f.at, seen |-> f.seen, path |-> f.path]
    OBVIOUS
  <2>6. 2 \in 1 .. Len(K[Root]) + 1 BY <1>3
  <2> HIDE DEF f
  <2> QED BY <2>1, <2>2, <2>3, <2>4, <2>5, <2>6 DEF Fits
<1> HIDE DEF f
<1>6. StackFits(t, K, P, img, c, {}, <<Root>>)
  <2> DEFINE D == <<Root>>
  <2>1. D \in Seq(DirsOf(t)) /\ Len(D) = 1 /\ D[1] = Root BY <1>2
  <2>2. IsSeq(c.stack) /\ Len(c.stack) = 1 /\ c.stack[1] = f
    <3>1. <<f>> \in Seq({f}) /\ Len(<<f>>) = 1 /\ <<f>>[1] = f OBVIOUS
    <3> QED BY <1>1, <3>1 DEF IsSeq
  <2>3. Len(Root) = 0 BY DEF Root
  <2> HIDE DEF D
  <2>4. \A i \in 1 .. 1 : /\ Len(D[i]) = i - 1 /\ (i > 1 => D[i] \in {})
                          /\ Fits(K, P, c.stack[i], D[i], {}, Size(K, img, D, i))
    <3>1. Fits(K, P, c.stack[1], D[1], {}, Size(K, img, D, 1)) BY <1>5, <2>1, <2>2 DEF Size
    <3>2. \A i \in 1 .. 1 : i = 1 /\ ~ (i > 1) OBVIOUS
    <3> QED BY <2>1, <2>3, <3>1, <3>2
  <2> QED BY <2>1, <2>2, <2>4 DEF StackFits, D
<1>7. Closed(t, {}, <<Root>>) BY DEF Closed
<1> QED BY <1>4, <1>6, <1>7 DEF Walking

\* No two paths are stored alike if no two names in one directory are.
LEMMA StoredApart ==
  ASSUME NEW t, IsTree(t), Differ(t), NEW a \in DOMAIN t, NEW b \in DOMAIN t,
         StoredPath(a) = StoredPath(b)
  PROVE  a = b
<1> DEFINE Twin(p) == \E q \in DOMAIN t : p # q /\ StoredPath(p) = StoredPath(q)
           M == {p \in DOMAIN t : Twin(p)}
           T == {Len(p) : p \in M}
<1>1. DOMAIN t \subseteq Seq(Nat) BY DEF IsTree
<1>2. ASSUME M # {} PROVE FALSE
  <2>1. T \subseteq Nat /\ T # {}
    <3>1. \A p \in M : Len(p) \in Nat BY <1>1
    <3> QED BY <1>2, <3>1
  <2>2. PICK x \in T : \A y \in T : x <= y
    <3> HIDE DEF T
    <3> QED BY <2>1, Least
  <2>3. PICK p \in M : Len(p) = x BY <2>2
  <2>4. PICK q \in DOMAIN t : p # q /\ StoredPath(p) = StoredPath(q) BY <2>3
  <2>5. p \in DOMAIN t /\ p \in Seq(Nat) /\ q \in Seq(Nat) /\ IsSeq(p) /\ IsSeq(q)
    BY <1>1, <2>3, <2>4 DEF IsSeq
  <2>6. Len(p) = Len(q) /\ Len(p) \in Nat /\ \A i \in 1 .. Len(p) : Stored(p[i]) = Stored(q[i])
    <3>1. Len(StoredPath(p)) = Len(p) /\ \A i \in 1 .. Len(p) : StoredPath(p)[i] = Stored(p[i])
      BY <2>5, StoredPathIs
    <3>2. Len(StoredPath(q)) = Len(q) /\ \A i \in 1 .. Len(q) : StoredPath(q)[i] = Stored(q[i])
      BY <2>5, StoredPathIs
    <3>3. Len(p) = Len(q) BY <2>4, <3>1, <3>2
    <3>4. Len(p) \in Nat BY <2>5
    <3>5. ASSUME NEW i \in 1 .. Len(p) PROVE Stored(p[i]) = Stored(q[i])
      BY <2>4, <3>1, <3>2, <3>3
    <3> QED BY <3>3, <3>4, <3>5
  <2>7. p # Root /\ q # Root
    <3>1. Len(p) = 0 => p = << >> BY <2>5, EmptySeq
    <3>2. Len(q) = 0 => q = << >> BY <2>5, EmptySeq
    <3>3. Len(<< >>) = 0 OBVIOUS
    <3> QED BY <2>4, <2>6, <3>1, <3>2, <3>3 DEF Root
  <2>8. /\ Len(p) \in Nat \ {0} /\ Front(p) \in DOMAIN t /\ Front(q) \in DOMAIN t
        /\ Len(Front(p)) = Len(p) - 1 /\ Len(Front(q)) = Len(p) - 1
        /\ IsSeq(Front(p)) /\ IsSeq(Front(q))
    BY <2>4, <2>5, <2>6, <2>7, Child DEF DirsOf
  <2>9. \A i \in 1 .. Len(p) - 1 : Front(p)[i] = p[i] /\ Front(q)[i] = q[i]
    BY <2>5, <2>6, <2>7, FrontOf DEF Root
  <2>10. Stored(Last(p)) = Stored(Last(q))
    <3>1. Len(p) \in 1 .. Len(p) BY <2>8
    <3> QED BY <2>6, <3>1 DEF Last
  <2>11. Front(p) # Front(q) BY <2>4, <2>5, <2>7, <2>10 DEF Differ
  <2>12. StoredPath(Front(p)) = StoredPath(Front(q))
    <3> DEFINE r == StoredPath(Front(p))  s == StoredPath(Front(q))
    <3>1. IsSeq(r) /\ Len(r) = Len(p) - 1 /\ \A i \in 1 .. Len(p) - 1 : r[i] = Stored(p[i])
      BY <2>8, <2>9, StoredPathIs
    <3>2. IsSeq(s) /\ Len(s) = Len(p) - 1 /\ \A i \in 1 .. Len(p) - 1 : s[i] = Stored(q[i])
      BY <2>8, <2>9, StoredPathIs
    <3>3. \A i \in 1 .. Len(p) - 1 : i \in 1 .. Len(p) BY <2>8
    <3> HIDE DEF r, s
    <3>4. \A i \in 1 .. Len(r) : r[i] = s[i] BY <2>6, <3>1, <3>2, <3>3
    <3>5. r = s BY <3>1, <3>2, <3>4, SameSeq
    <3> QED BY <3>5 DEF r, s
  <2>13. Len(Front(p)) \in T BY <2>8, <2>11, <2>12
  <2>14. x <= Len(p) - 1 BY <2>2, <2>8, <2>13
  <2> QED BY <2>3, <2>8, <2>14
<1> QED BY <1>2

-----------------------------------------------------------------------------
(* The image holds the tree. *)

\* Block and byte make up the offset again.
LEMMA Recomposed ==
  ASSUME NEW x \in Nat, NEW y \in Nat \ {0}
  PROVE  /\ x \div y \in Nat /\ x % y \in 0 .. y - 1
         /\ (x \div y) * y + (x % y) = x
         /\ x >= y => x \div y # 0
         /\ (y * x) \div y = x /\ (x * y) \div y = x /\ y * x \in Nat
<1>1. x \div y \in Nat /\ x % y \in 0 .. y - 1 OBVIOUS
<1>2. (x \div y) * y + (x % y) = x OBVIOUS
<1>3. x >= y => x \div y # 0
  <2>1. SUFFICES ASSUME x \div y = 0 PROVE x < y OBVIOUS
  <2>2. 0 * y = 0 OBVIOUS
  <2> QED BY <1>1, <1>2, <2>1, <2>2
<1>4. (y * x) \div y = x /\ (x * y) \div y = x /\ y * x \in Nat OBVIOUS
<1> QED BY <1>1, <1>2, <1>3, <1>4

\* The range of an entry: StartOf and EndOf, and not in the header.
PlacedAt(e, offset, size) ==
  /\ StartOf(e) = offset /\ EndOf(e) = offset + size - 1
  /\ offset >= SectorSize => e.place.start_block # 0
\* Place gives the blocks and bytes of a range.
LEMMA PlaceIs ==
  ASSUME NEW offset \in Nat, NEW size \in Nat \ {0}, NEW e, e.place = Place(offset, size)
  PROVE  PlacedAt(e, offset, size)
<1>1. SectorSize \in Nat \ {0} BY LuFsAssumption
<1>2. offset + size - 1 \in Nat OBVIOUS
<1> DEFINE x == offset  y == offset + size - 1
<1>3. x \in Nat /\ y \in Nat BY <1>2
<1> HIDE DEF x, y
<1>4. /\ (x \div SectorSize) * SectorSize + (x % SectorSize) = x
      /\ x >= SectorSize => x \div SectorSize # 0
      /\ (y \div SectorSize) * SectorSize + (y % SectorSize) = y
  BY <1>1, <1>3, Recomposed
<1>5. e.place = [start_block |-> x \div SectorSize, start_byte |-> x % SectorSize,
                 end_block |-> y \div SectorSize, end_byte |-> y % SectorSize]
  BY DEF Place, x, y
<1>6. /\ e.place.start_block = x \div SectorSize /\ e.place.start_byte = x % SectorSize
      /\ e.place.end_block = y \div SectorSize /\ e.place.end_byte = y % SectorSize
  BY <1>5
<1> QED BY <1>4, <1>6 DEF PlacedAt, StartOf, EndOf, x, y

\* An element that a sequence has once is at its place.
LEMMA PlaceInIs ==
  ASSUME NEW S, NEW s, Enumerates(s, S), NEW p \in S
  PROVE  /\ PlaceIn(p, s) \in 1 .. Len(s) /\ s[PlaceIn(p, s)] = p
         /\ \A i \in 1 .. Len(s) : s[i] = p => i = PlaceIn(p, s)
<1>1. DOMAIN s = 1 .. Len(s) /\ \E i \in 1 .. Len(s) : s[i] = p BY DEF Enumerates
<1>2. PlaceIn(p, s) \in 1 .. Len(s) /\ s[PlaceIn(p, s)] = p BY <1>1 DEF PlaceIn
<1> QED BY <1>2 DEF Enumerates

\* Where the table of the directory d is.
At(d) == Offset[PlaceIn(d, DirOrder)]
\* The offset of a table in bytes is that in entries, EntrySize each, behind
\* the header.
LEMMA DirOffsetIs ==
  ASSUME tree \in Trees
  PROVE  /\ \A d \in Dirs : /\ At(d) \in Nat /\ DirOffset(d) = SectorSize + EntrySize * At(d)
                            /\ \A k \in 1 .. TableLen(d) :
                                 At(d) + k \in 1 .. Len(Tables) /\ Tables[At(d) + k] = DirTree(d)[k]
         /\ At(Root) = 0
         /\ TableOffsets[Len(DirOrder) + 1] = SectorSize + EntrySize * Len(Tables)
<1> DEFINE n == Len(DirOrder)
           sizes == [i \in DOMAIN DirOrder |-> TableLen(DirOrder[i])]
           scaled == [i \in DOMAIN DirOrder |-> EntrySize * TableLen(DirOrder[i])]
<1>1. TablesLie /\ Enumerates(DirOrder, Dirs) /\ DirOrder[1] = Root /\ Root \in Dirs
  BY TablesAre, TreeIs
<1>2. n \in Nat /\ DOMAIN DirOrder = 1 .. n BY <1>1 DEF Enumerates
<1>3. \A i \in 1 .. n : TableLen(DirOrder[i]) \in Nat
  <2>1. \A d : Len(DirTree(d)) \in Nat BY TreeIs DEF Enumerates
  <2> QED BY <2>1 DEF TableLen
<1>4. EntrySize \in Nat /\ SectorSize \in Nat BY LuFsAssumption
<1>5. \A x \in Nat : EntrySize * x \in Nat BY <1>4
<1>6. Len(sizes) = n /\ \A i \in 1 .. n : sizes[i] = TableLen(DirOrder[i])
  <2>1. sizes \in [1 .. n -> Nat] BY <1>2, <1>3
  <2>2. \A i \in 1 .. n : sizes[i] = TableLen(DirOrder[i]) BY <1>2
  <2> HIDE DEF sizes
  <2> QED BY <1>2, <2>1, <2>2, FunctionIsSeq
<1>7. Len(scaled) = n /\ \A i \in 1 .. n : scaled[i] = EntrySize * TableLen(DirOrder[i])
  <2>1. scaled \in [1 .. n -> Nat] BY <1>2, <1>3, <1>5
  <2>2. \A i \in 1 .. n : scaled[i] = EntrySize * TableLen(DirOrder[i]) BY <1>2
  <2> HIDE DEF scaled
  <2> QED BY <1>2, <2>1, <2>2, FunctionIsSeq
<1>8. Offset = Offsets(0, sizes) /\ TableOffsets = Offsets(SectorSize, scaled)
  BY DEF Offset, TableOffsets
<1> HIDE DEF sizes, scaled, n
<1>9. \A i \in 1 .. n : sizes[i] \in Nat /\ scaled[i] = EntrySize * sizes[i]
  BY <1>3, <1>6, <1>7
<1>10. \A i \in 1 .. n + 1 : TableOffsets[i] = SectorSize + EntrySize * Offset[i]
  <2>1. Scaled(sizes, scaled, n, EntrySize) BY <1>6, <1>7, <1>9 DEF Scaled
  <2>2. Scales(Offsets(SectorSize, scaled), Offsets(0, sizes), n, SectorSize, EntrySize)
    BY <1>2, <1>4, <2>1, OffsetsScale
  <2>3. Scales(TableOffsets, Offset, n, SectorSize, EntrySize) BY <1>8, <2>2
  <2> QED BY <2>3 DEF Scales
<1>11. Offset \in [1 .. n + 1 -> Nat] /\ Offset[1] = 0 BY <1>1 DEF TablesLie, Accumulate, n
<1>12. ASSUME NEW d \in Dirs
       PROVE  /\ At(d) \in Nat /\ DirOffset(d) = SectorSize + EntrySize * At(d)
              /\ \A k \in 1 .. TableLen(d) :
                   At(d) + k \in 1 .. Len(Tables) /\ Tables[At(d) + k] = DirTree(d)[k]
  <2> DEFINE i == PlaceIn(d, DirOrder)
  <2>1. i \in 1 .. n /\ DirOrder[i] = d BY <1>1, PlaceInIs DEF n
  <2>2. At(d) = Offset[i] /\ DirOffset(d) = TableOffsets[i] BY DEF At, DirOffset
  <2> HIDE DEF i
  <2>3. i \in 1 .. n + 1 BY <1>2, <2>1
  <2>4. \A k \in 1 .. TableLen(d) :
          Offset[i] + k \in 1 .. Len(Tables) /\ Tables[Offset[i] + k] = DirTree(d)[k]
    BY <1>1, <2>1 DEF TablesLie, n
  <2> QED BY <1>10, <1>11, <2>2, <2>3, <2>4
<1>13. At(Root) = 0
  <2>1. 1 \in 1 .. Len(DirOrder)
    <3>1. PlaceIn(Root, DirOrder) \in 1 .. Len(DirOrder) BY <1>1, PlaceInIs
    <3> QED BY <1>2, <3>1 DEF n
  <2>2. PlaceIn(Root, DirOrder) = 1 BY <1>1, <2>1, PlaceInIs
  <2> QED BY <1>11, <2>2 DEF At
<1>14. TableOffsets[n + 1] = SectorSize + EntrySize * Len(Tables)
  <2>1. n + 1 \in 1 .. n + 1 BY <1>2
  <2>2. Len(Tables) = Offset[n + 1] BY <1>1 DEF TablesLie, n
  <2> QED BY <1>10, <2>1, <2>2
<1> QED BY <1>12, <1>13, <1>14 DEF n

\* The entry of a directory names the range of its table: the root's begins
\* behind its own entry, and that of an empty directory lies in the header.
LEMMA DirEntryIs ==
  ASSUME tree \in Trees, NEW d \in Dirs \ {Root}, NEW e, e = pack_entry(d)
  PROVE  /\ TableLen(d) \in Nat
         /\ TableLen(d) = 0 => e.place.start_block = 0 /\ e.place.start_byte = 0
         /\ TableLen(d) > 0 =>
              /\ e.place.start_block # 0 /\ StartOf(e) = SectorSize + EntrySize * At(d)
              /\ EndOf(e) = StartOf(e) + TableLen(d) * EntrySize - 1
              /\ ChildCount(e) = TableLen(d)
              /\ (StartOf(e) - SectorSize) \div EntrySize = At(d)
<1>1. EntrySize \in Nat \ {0} /\ SectorSize \in Nat \ {0} BY LuFsAssumption
<1>2. TableLen(d) \in Nat
  <2>1. Enumerates(DirTree(d), Kids(d)) BY TreeIs
  <2> QED BY <2>1 DEF Enumerates, TableLen
<1>3. ~ IsFile(d) /\ d # Root BY DEF Dirs
<1>4. At(d) \in Nat /\ DirOffset(d) = SectorSize + EntrySize * At(d) BY DirOffsetIs
<1>5. e.place = PlaceOf(d) BY DEF pack_entry
<1>6. CASE TableLen(d) = 0
  <2>1. e.place = Place(0, 1) BY <1>3, <1>5, <1>6 DEF PlaceOf
  <2>2. e.place.start_block = 0 \div SectorSize /\ e.place.start_byte = 0 % SectorSize
    BY <2>1 DEF Place
  <2>3. 0 \div SectorSize = 0 /\ 0 % SectorSize = 0 BY <1>1
  <2> QED BY <1>2, <1>6, <2>2, <2>3
<1>7. CASE TableLen(d) > 0
  <2> DEFINE x == EntrySize * At(d)  y == TableLen(d) * EntrySize
  <2>1. e.place = Place(DirOffset(d), y) BY <1>3, <1>5, <1>7 DEF PlaceOf
  <2>2. x \in Nat /\ x \div EntrySize = At(d)
    <3> DEFINE a == At(d)
    <3>1. a \in Nat BY <1>4
    <3> HIDE DEF a
    <3>2. EntrySize * a \in Nat /\ (EntrySize * a) \div EntrySize = a BY <1>1, <3>1, Recomposed
    <3> QED BY <3>2 DEF a
  <2>3. y \in Nat \ {0} /\ y \div EntrySize = TableLen(d)
    <3>1. y \div EntrySize = TableLen(d) BY <1>1, <1>2, Recomposed
    <3>2. y \in Nat BY <1>1, <1>2
    <3>3. 0 \div EntrySize = 0 BY <1>1
    <3> HIDE DEF y
    <3> QED BY <1>7, <3>1, <3>2, <3>3
  <2> HIDE DEF x, y
  <2>4. DirOffset(d) = SectorSize + x BY <1>4 DEF x
  <2>5. DirOffset(d) \in Nat /\ DirOffset(d) >= SectorSize BY <1>1, <2>2, <2>4
  <2>6. PlacedAt(e, DirOffset(d), y) BY <2>1, <2>3, <2>5, PlaceIs
  <2>7. StartOf(e) = SectorSize + x /\ EndOf(e) = SectorSize + x + y - 1
        /\ e.place.start_block # 0
    BY <2>4, <2>5, <2>6 DEF PlacedAt
  <2>8. EndOf(e) - StartOf(e) + 1 = y /\ StartOf(e) - SectorSize = x
        /\ EndOf(e) = StartOf(e) + y - 1
    BY <1>1, <2>2, <2>3, <2>7
  <2>9. ChildCount(e) = TableLen(d) BY <2>3, <2>8 DEF ChildCount
  <2>10. (StartOf(e) - SectorSize) \div EntrySize = At(d) BY <2>2, <2>8
  <2> QED BY <1>2, <1>7, <2>7, <2>8, <2>9, <2>10 DEF x, y
<1> QED BY <1>2, <1>6, <1>7

\* The other fields of an entry.
LEMMA EntryIs ==
  ASSUME NEW p
  PROVE  /\ pack_entry(p).name = IF p = Root THEN NoName ELSE Stored(Last(p))
         /\ pack_entry(p).isfile <=> IsFile(p)
         /\ pack_entry(p).size = IF IsFile(p) THEN tree[p] ELSE 0
         /\ pack_entry(p).place = PlaceOf(p)
BY DEF pack_entry

\* The tables of the directories.
KidsTables == [d \in Dirs |-> DirTree(d)]
\* The entries of the paths.
PathEntries == [p \in DOMAIN tree |-> pack_entry(p)]

\* The table of the image is the tables of the directories, one behind the
\* other.
LEMMA ImageTable ==
  ASSUME tree \in Trees
  PROVE  /\ Image.entries = Cardinality(DOMAIN tree)
         /\ \A d \in Dirs : \A k \in 1 .. TableLen(d) :
              Image.table[At(d) + k] = pack_entry(DirTree(d)[k])
<1>1. TablesLie BY TablesAre
<1>2. DOMAIN Tables = 1 .. Len(Tables) BY <1>1 DEF TablesLie
<1>3. Image.entries = Len(Entries)
      /\ \A j \in 1 .. Len(Tables) : Image.table[j] = pack_entry(Tables[j])
  BY <1>2 DEF Image
<1>4. Len(Entries) = Cardinality(DOMAIN tree) BY TreeIs DEF Enumerates
<1>5. ASSUME NEW d \in Dirs, NEW k \in 1 .. TableLen(d)
      PROVE  Image.table[At(d) + k] = pack_entry(DirTree(d)[k])
  <2>1. At(d) + k \in 1 .. Len(Tables) /\ Tables[At(d) + k] = DirTree(d)[k]
    BY DirOffsetIs
  <2> QED BY <1>3, <2>1
<1> QED BY <1>3, <1>4, <1>5

\* The image made packs the tree.
LEMMA ImagePacks ==
  ASSUME tree \in Trees
  PROVE  Packs(tree, KidsTables, PathEntries, Image)
<1> DEFINE K == KidsTables  P == PathEntries
<1>1. DirsOf(tree) = Dirs BY DEF DirsOf, Dirs, IsFile
<1>2. \A d : KidsOf(tree, d) = Kids(d) BY DEF KidsOf, Kids, Parent
<1>3. \A d \in Dirs : K[d] = DirTree(d) /\ Len(K[d]) = TableLen(d) BY DEF KidsTables, TableLen
<1>4. \A p \in DOMAIN tree : P[p] = pack_entry(p) BY DEF PathEntries
<1> HIDE DEF K, P
<1>5. /\ IsTree(tree) /\ Root \in Dirs /\ DirTree(Root)[1] = Root
      /\ \A d : Enumerates(DirTree(d), Kids(d))
  BY TreeIs
<1>6. \A d \in DirsOf(tree) : Enumerates(K[d], KidsOf(tree, d)) BY <1>1, <1>2, <1>3, <1>5
<1>7. ASSUME NEW p \in DOMAIN tree
      PROVE  /\ P[p].name = IF p = Root THEN NoName ELSE Stored(Last(p))
             /\ P[p].isfile <=> tree[p] # IsDir
  <2>1. P[p] = pack_entry(p) BY <1>4
  <2> QED BY <2>1, EntryIs DEF IsFile
<1>8. ASSUME NEW p \in DOMAIN tree \ {Root} PROVE Stored(Last(p)) # NoName
  <2>1. p \in Seq(Nat) /\ p # << >> BY <1>5 DEF IsTree, Root
  <2>2. Len(p) \in DOMAIN p BY <2>1, FrontOf
  <2>3. Stored(p[Len(p)]) \in Nat \ {0} BY <2>2, LuFsAssumption
  <2> QED BY <2>3 DEF Last, NoName
<1>9. ASSUME NEW k \in 1 .. Len(K[Root]) PROVE Image.table[k] = P[K[Root][k]]
  <2>1. k \in 1 .. TableLen(Root) /\ K[Root] = DirTree(Root) BY <1>3, <1>5
  <2>2. Image.table[0 + k] = pack_entry(DirTree(Root)[k])
    <3>1. Image.table[At(Root) + k] = pack_entry(DirTree(Root)[k])
      BY <1>5, <2>1, ImageTable
    <3> QED BY <3>1, DirOffsetIs
  <2>3. DirTree(Root)[k] \in DOMAIN tree
    <3>1. Enumerates(DirTree(Root), Kids(Root)) BY <1>5
    <3> QED BY <2>1, <3>1 DEF Enumerates, Kids, TableLen
  <2>4. 0 + k = k OBVIOUS
  <2> QED BY <1>4, <2>1, <2>2, <2>3, <2>4
<1>10. K[Root][1] = Root BY <1>3, <1>5
<1> QED BY <1>5, <1>6, <1>7, <1>8, <1>9, <1>10, ImageTable DEF Packs, K, P

\* Its tables are where the entries of the directories say.
LEMMA ImageHoldsTables ==
  ASSUME tree \in Trees
  PROVE  HoldsTables(tree, KidsTables, PathEntries, Image)
<1> DEFINE K == KidsTables  P == PathEntries
<1>1. DirsOf(tree) = Dirs BY DEF DirsOf, Dirs, IsFile
<1>2. \A d \in Dirs : K[d] = DirTree(d) /\ Len(K[d]) = TableLen(d) BY DEF KidsTables, TableLen
<1>3. \A p \in DOMAIN tree : P[p] = pack_entry(p) BY DEF PathEntries
<1>4. \A d \in Dirs : d \in DOMAIN tree /\ P[d] = pack_entry(d) BY <1>3 DEF Dirs
<1> HIDE DEF K, P
<1>5. ASSUME NEW d \in Dirs \ {Root}, Len(K[d]) = 0
      PROVE  P[d].place.start_block = 0 /\ P[d].place.start_byte = 0
  BY <1>2, <1>4, <1>5, DirEntryIs
<1>6. ASSUME NEW d \in Dirs \ {Root}, Len(K[d]) > 0
      PROVE  /\ P[d].place.start_block # 0
             /\ StartOf(P[d]) = SectorSize + EntrySize * At(d)
             /\ ChildCount(P[d]) = Len(K[d]) /\ Len(Table(Image, P[d])) = Len(K[d])
             /\ \A k \in 1 .. Len(K[d]) : Table(Image, P[d])[k] = P[K[d][k]]
  <2>1. /\ TableLen(d) \in Nat /\ P[d].place.start_block # 0 /\ ChildCount(P[d]) = TableLen(d)
        /\ (StartOf(P[d]) - SectorSize) \div EntrySize = At(d)
        /\ StartOf(P[d]) = SectorSize + EntrySize * At(d)
    BY <1>2, <1>4, <1>6, DirEntryIs
  <2>2. Table(Image, P[d]) = SubSeq(Image.table, At(d) + 1, At(d) + TableLen(d))
    BY <2>1 DEF Table
  <2>3. At(d) \in Nat BY DirOffsetIs
  <2> DEFINE a == At(d)  n == TableLen(d)  s == Table(Image, P[d])  tab == Image.table
             X == {tab[j] : j \in a + 1 .. a + n}
  <2>4. s = SubSeq(tab, a + 1, a + n) /\ a \in Nat /\ n \in Nat BY <2>1, <2>2, <2>3
  <2> HIDE DEF a, n, s, tab
  <2>5. /\ Len(s) = IF a + 1 <= a + n THEN (a + n) - (a + 1) + 1 ELSE 0
        /\ \A i \in 1 .. (a + n) - (a + 1) + 1 : s[i] = tab[a + 1 + i - 1]
    <3>1. \A j \in a + 1 .. a + n : tab[j] \in X OBVIOUS
    <3>2. a + 1 \in Int /\ a + n \in Int BY <2>4
    <3> HIDE DEF X
    <3> QED BY <2>4, <3>1, <3>2, SubSeqProperties
  <2>6. Len(s) = n /\ \A k \in 1 .. n : s[k] = tab[a + k]
    <3>1. (a + n) - (a + 1) + 1 = n BY <2>4
    <3>2. \A k \in 1 .. n : a + 1 + k - 1 = a + k BY <2>4
    <3>3. ~ (a + 1 <= a + n) => n = 0 BY <2>4
    <3> QED BY <2>5, <3>1, <3>2, <3>3
  <2>7. ASSUME NEW k \in 1 .. Len(K[d]) PROVE s[k] = P[K[d][k]]
    <3>1. k \in 1 .. TableLen(d) /\ K[d][k] = DirTree(d)[k] BY <1>2
    <3>2. Image.table[At(d) + k] = pack_entry(DirTree(d)[k]) BY <3>1, ImageTable
    <3>3. DirTree(d)[k] \in DOMAIN tree
      <4>1. Enumerates(DirTree(d), Kids(d)) BY TreeIs
      <4> QED BY <3>1, <4>1 DEF Enumerates, Kids, TableLen
    <3>4. s[k] = Image.table[At(d) + k] BY <2>6, <3>1 DEF a, n, tab
    <3> QED BY <1>3, <3>1, <3>2, <3>3, <3>4
  <2> QED BY <1>2, <2>1, <2>6, <2>7 DEF s, n
<1>7. ASSUME NEW d \in Dirs \ {Root}, NEW e \in Dirs \ {Root}, Len(K[d]) > 0, Len(K[e]) > 0,
             StartOf(P[d]) = StartOf(P[e])
      PROVE  d = e
  <2>1. SectorSize + EntrySize * At(d) = SectorSize + EntrySize * At(e) BY <1>6, <1>7
  <2>2. At(d) \in Nat /\ At(e) \in Nat BY DirOffsetIs
  <2>3. EntrySize \in Nat \ {0} /\ SectorSize \in Nat BY LuFsAssumption
  <2>4. At(d) = At(e)
    <3> DEFINE a == At(d)  b == At(e)
    <3>4. a \in Nat /\ b \in Nat BY <2>2
    <3>5. EntrySize * At(d) = EntrySize * a /\ EntrySize * At(e) = EntrySize * b OBVIOUS
    <3> HIDE DEF a, b
    <3> DEFINE x == EntrySize * a  y == EntrySize * b
    <3>1. x \in Nat /\ y \in Nat /\ x \div EntrySize = a /\ y \div EntrySize = b
      BY <2>3, <3>4, Recomposed
    <3>2. SectorSize + x = SectorSize + y BY <2>1, <3>5
    <3> HIDE DEF x, y
    <3>3. x = y BY <2>3, <3>1, <3>2
    <3> QED BY <3>1, <3>3 DEF a, b
  <2>5. /\ Tables[At(d) + 1] = DirTree(d)[1] /\ Tables[At(e) + 1] = DirTree(e)[1]
        /\ DirTree(d)[1] \in Kids(d) /\ DirTree(e)[1] \in Kids(e)
    <3>1. ASSUME NEW x \in Dirs, Len(K[x]) > 0
          PROVE  Tables[At(x) + 1] = DirTree(x)[1] /\ DirTree(x)[1] \in Kids(x)
      <4>1. Enumerates(DirTree(x), Kids(x)) BY TreeIs
      <4>2. TableLen(x) \in Nat /\ TableLen(x) > 0 BY <1>2, <3>1, <4>1 DEF TableLen, Enumerates
      <4>3. 1 \in 1 .. TableLen(x) BY <4>2
      <4>4. Tables[At(x) + 1] = DirTree(x)[1] BY <4>3, DirOffsetIs
      <4>5. DirTree(x)[1] \in Kids(x) BY <4>1, <4>3 DEF Enumerates, TableLen
      <4> QED BY <4>4, <4>5
    <3> QED BY <1>7, <3>1
  <2> QED BY <2>4, <2>5 DEF Kids
<1> QED BY <1>1, <1>5, <1>6, <1>7 DEF HoldsTables, K, P

\* Where the data of the i-th file is.
DataAt == Offsets(0, [i \in DOMAIN Files |-> tree[Files[i]]])
\* The data of the files lie one behind the other, behind the tables.
FilesLie ==
  /\ Len(Files) \in Nat /\ DOMAIN Files = 1 .. Len(Files)
  /\ \A i \in 1 .. Len(Files) : tree[Files[i]] \in Nat
  /\ Accumulate(DataAt, 0, [i \in DOMAIN Files |-> tree[Files[i]]], Len(Files))
  /\ Len(Image.data) = DataAt[Len(Files) + 1]
  /\ \A i \in 1 .. Len(Files) : \A k \in 1 .. tree[Files[i]] :
       DataAt[i] + k \in 1 .. Len(Image.data) /\ Image.data[DataAt[i] + k] = <<Files[i], k>>
  /\ FileDataOffset \in Nat
  /\ \A i \in 1 .. Len(Files) + 1 : FileOffsets[i] = FileDataOffset + DataAt[i]
\* They do.
LEMMA FilesAre ==
  ASSUME tree \in Trees
  PROVE  FilesLie
<1> DEFINE n == Len(Files)
           sizes == [i \in DOMAIN Files |-> tree[Files[i]]]
           seqs == [i \in DOMAIN Files |-> Content(Files[i], tree[Files[i]])]
           X == (DOMAIN tree) \X Nat
<1>1. /\ IsTree(tree) /\ Enumerates(Files, {p \in DOMAIN tree : IsFile(p)})
  BY TreeIs
<1>2. n \in Nat /\ DOMAIN Files = 1 .. n BY <1>1 DEF Enumerates
<1>3. ASSUME NEW i \in 1 .. n
      PROVE  Files[i] \in DOMAIN tree /\ tree[Files[i]] \in Nat
  <2>1. Files[i] \in DOMAIN tree /\ tree[Files[i]] # IsDir BY <1>1 DEF Enumerates, IsFile
  <2> QED BY <1>1, <2>1 DEF IsTree
<1>4. Len(sizes) = n /\ \A i \in 1 .. n : sizes[i] = tree[Files[i]]
  <2>1. sizes \in [1 .. n -> Nat] BY <1>2, <1>3
  <2>2. \A i \in 1 .. n : sizes[i] = tree[Files[i]] BY <1>2
  <2> HIDE DEF sizes
  <2> QED BY <1>2, <2>1, <2>2, FunctionIsSeq
<1>5. ASSUME NEW i \in 1 .. n
      PROVE  /\ Content(Files[i], tree[Files[i]]) \in Seq(X)
             /\ Len(Content(Files[i], tree[Files[i]])) = tree[Files[i]]
             /\ \A k \in 1 .. tree[Files[i]] : Content(Files[i], tree[Files[i]])[k] = <<Files[i], k>>
  <2> DEFINE p == Files[i]  m == tree[p]
  <2>1. p \in DOMAIN tree /\ m \in Nat BY <1>3
  <2> HIDE DEF p, m
  <2>2. Content(p, m) = [k \in 1 .. m |-> <<p, k>>] BY DEF Content
  <2>3. Content(p, m) \in [1 .. m -> X]
    <3>1. \A k \in 1 .. m : <<p, k>> \in X BY <2>1
    <3> HIDE DEF X
    <3> QED BY <2>2, <3>1
  <2>4. \A k \in 1 .. m : Content(p, m)[k] = <<p, k>> BY <2>2
  <2> HIDE DEF X
  <2>5. Content(p, m) \in Seq(X) /\ Len(Content(p, m)) = m BY <2>1, <2>3, FunctionIsSeq
  <2> QED BY <2>4, <2>5 DEF p, m
<1> HIDE DEF X
<1>6. seqs \in Seq(Seq(X)) /\ Len(seqs) = n
      /\ \A i \in 1 .. n : seqs[i] = Content(Files[i], tree[Files[i]])
  <2>1. seqs \in [1 .. n -> Seq(X)] BY <1>2, <1>5
  <2>2. \A i \in 1 .. n : seqs[i] = Content(Files[i], tree[Files[i]]) BY <1>2
  <2> HIDE DEF seqs
  <2> QED BY <1>2, <2>1, <2>2, FunctionIsSeq
<1>7. DataAt = Offsets(0, sizes) /\ FileOffsets = Offsets(FileDataOffset, sizes)
      /\ Image.data = FlattenSeq(seqs)
  BY DEF DataAt, FileOffsets, Image
<1> HIDE DEF n, sizes, seqs
<1>8. \A i \in 1 .. n : sizes[i] \in Nat BY <1>3, <1>4
<1>9. Accumulate(DataAt, 0, sizes, n) BY <1>2, <1>4, <1>7, <1>8, OffsetsAre
<1>10. \A i \in 1 .. n : sizes[i] = Len(seqs[i]) BY <1>4, <1>5, <1>6
<1>11. Flattened(Image.data, seqs, DataAt, n, X)
  BY <1>2, <1>6, <1>7, <1>9, <1>10, FlattenIs
<1>12. /\ Len(Image.data) = DataAt[n + 1]
       /\ \A i \in 1 .. n : \A k \in 1 .. tree[Files[i]] :
            DataAt[i] + k \in 1 .. Len(Image.data) /\ Image.data[DataAt[i] + k] = <<Files[i], k>>
  <2>1. Len(Image.data) = DataAt[n + 1] BY <1>11 DEF Flattened
  <2>2. ASSUME NEW i \in 1 .. n, NEW k \in 1 .. tree[Files[i]]
        PROVE  DataAt[i] + k \in 1 .. Len(Image.data) /\ Image.data[DataAt[i] + k] = <<Files[i], k>>
    <3>1. /\ seqs[i] = Content(Files[i], tree[Files[i]])
          /\ Len(seqs[i]) = tree[Files[i]]
      BY <1>5, <1>6
    <3>2. seqs[i][k] = <<Files[i], k>> BY <1>5, <3>1
    <3>3. DataAt[i] + k \in 1 .. Len(Image.data) /\ Image.data[DataAt[i] + k] = seqs[i][k]
      BY <1>11, <2>1, <3>1 DEF Flattened
    <3> QED BY <3>2, <3>3
  <2> QED BY <2>1, <2>2
<1>13. FileDataOffset \in Nat
  <2>1. SectorSize \in Nat \ {0} /\ EntrySize \in Nat BY LuFsAssumption
  <2>2. Len(Tables) \in Nat BY TablesAre DEF TablesLie
  <2> DEFINE end == TableOffsets[Len(DirOrder) + 1]
  <2>3. end \in Nat BY <2>1, <2>2, DirOffsetIs
  <2>4. FileDataOffset = ((end + SectorSize - 1) \div SectorSize) * SectorSize
    BY DEF FileDataOffset
  <2> HIDE DEF end
  <2>5. end + SectorSize - 1 \in Nat BY <2>1, <2>3
  <2>6. (end + SectorSize - 1) \div SectorSize \in Nat BY <2>1, <2>5, Recomposed
  <2>7. SectorSize \in Nat BY <2>1
  <2>8. SectorSize * ((end + SectorSize - 1) \div SectorSize) \in Nat BY <2>1, <2>6, Recomposed
  <2> QED BY <2>1, <2>4, <2>6, <2>8
<1>14. \A i \in 1 .. n + 1 : FileOffsets[i] = FileDataOffset + DataAt[i]
  <2>1. Scaled(sizes, sizes, n, 1) BY <1>4, <1>8 DEF Scaled
  <2>2. Scales(FileOffsets, DataAt, n, FileDataOffset, 1)
    <3>1. 1 \in Nat OBVIOUS
    <3> QED BY <1>2, <1>7, <1>13, <2>1, <3>1, OffsetsScale
  <2>3. \A i \in 1 .. n + 1 : DataAt[i] \in Nat BY <1>9 DEF Accumulate
  <2> QED BY <2>2, <2>3 DEF Scales
<1> QED BY <1>2, <1>3, <1>9, <1>12, <1>13, <1>14 DEF FilesLie, n, sizes

\* The bytes of every file are where its entry says.
HoldsData(t, P, img) ==
  \A p \in DOMAIN t : t[p] # IsDir =>
    /\ P[p].size = t[p] /\ t[p] \in Nat
    /\ \A k \in 1 .. t[p] : img.data[StartOf(P[p]) - img.base + k] = <<p, k>>
\* The entry of a file names the range of its data.
LEMMA FileEntryIs ==
  ASSUME tree \in Trees, NEW i \in 1 .. Len(Files), NEW e, e = pack_entry(Files[i]),
         tree[Files[i]] > 0
  PROVE  /\ StartOf(e) = FileDataOffset + DataAt[i]
         /\ EndOf(e) = FileDataOffset + DataAt[i] + tree[Files[i]] - 1
         /\ DataAt[i] \in Nat
<1> DEFINE p == Files[i]
<1>1. FilesLie /\ Enumerates(Files, {x \in DOMAIN tree : IsFile(x)}) BY FilesAre, TreeIs
<1>2. IsFile(p) /\ p \in {x \in DOMAIN tree : IsFile(x)} BY <1>1 DEF Enumerates
<1>3. PlaceIn(p, Files) = i BY <1>1, <1>2, PlaceInIs
<1>4. tree[p] \in Nat BY <1>1 DEF FilesLie
<1>5. e.place = Place(FileOffset(p), tree[p])
  <2>1. e.place = PlaceOf(p) BY EntryIs
  <2>2. tree[p] > 0 /\ ~ (tree[p] = 0) BY <1>4
  <2>3. IsFile(p) /\ p # Root
    <3>1. ~ IsFile(Root) BY TreeIs DEF Dirs
    <3> QED BY <1>2, <3>1
  <2> HIDE DEF p
  <2>4. PlaceOf(p) = Place(FileOffset(p), tree[p]) BY <2>2, <2>3 DEF PlaceOf
  <2> QED BY <2>1, <2>4
<1>6. FileOffset(p) = FileDataOffset + DataAt[i] /\ DataAt[i] \in Nat /\ FileDataOffset \in Nat
  <2>1. i \in 1 .. Len(Files) + 1 /\ Len(Files) \in Nat BY <1>1 DEF FilesLie
  <2>2. FileOffset(p) = FileOffsets[i] BY <1>3 DEF FileOffset
  <2> QED BY <1>1, <2>1, <2>2 DEF FilesLie, Accumulate
<1> HIDE DEF p
<1>7. FileOffset(p) \in Nat /\ tree[p] \in Nat \ {0} BY <1>4, <1>6 DEF p
<1>8. PlacedAt(e, FileOffset(p), tree[p]) BY <1>5, <1>7, PlaceIs
<1> QED BY <1>6, <1>8 DEF PlacedAt, p

\* The data are where the entries of the files say.
LEMMA ImageHoldsData ==
  ASSUME tree \in Trees
  PROVE  HoldsData(tree, PathEntries, Image)
<1> SUFFICES ASSUME NEW p \in DOMAIN tree, tree[p] # IsDir
             PROVE  /\ PathEntries[p].size = tree[p] /\ tree[p] \in Nat
                    /\ \A k \in 1 .. tree[p] :
                         Image.data[StartOf(PathEntries[p]) - Image.base + k] = <<p, k>>
  BY DEF HoldsData
<1>1. PathEntries[p] = pack_entry(p) /\ IsFile(p) BY DEF PathEntries, IsFile
<1>2. FilesLie /\ Enumerates(Files, {x \in DOMAIN tree : IsFile(x)}) BY FilesAre, TreeIs
<1>3. PICK i \in 1 .. Len(Files) : Files[i] = p BY <1>1, <1>2 DEF Enumerates
<1>4. tree[p] \in Nat BY <1>2, <1>3 DEF FilesLie
<1>5. PathEntries[p].size = tree[p] BY <1>1, EntryIs
<1>6. ASSUME NEW k \in 1 .. tree[p]
      PROVE  Image.data[StartOf(PathEntries[p]) - Image.base + k] = <<p, k>>
  <2>1. tree[Files[i]] > 0 BY <1>3, <1>4
  <2>2. StartOf(PathEntries[p]) = FileDataOffset + DataAt[i] /\ DataAt[i] \in Nat
    BY <1>1, <1>3, <2>1, FileEntryIs
  <2>3. Image.base = FileDataOffset /\ FileDataOffset \in Nat BY <1>2 DEF Image, FilesLie
  <2>4. StartOf(PathEntries[p]) - Image.base + k = DataAt[i] + k BY <2>2, <2>3
  <2>5. Image.data[DataAt[i] + k] = <<p, k>> BY <1>2, <1>3 DEF FilesLie
  <2> QED BY <2>4, <2>5
<1> QED BY <1>4, <1>5, <1>6

-----------------------------------------------------------------------------
(* What is extracted. *)

\* The image holds the tree t: its entries, its tables and its data.
Holds(t, K, P, img) == Packs(t, K, P, img) /\ HoldsTables(t, K, P, img) /\ HoldsData(t, P, img)
\* What is made of the path p if nothing is lost.
Right(t, p) == IF t[p] # IsDir THEN Content(p, t[p]) ELSE IsDir
\* The paths of H, and no others but the root, have been made, and rightly.
MadeOut(t, o, H) ==
  /\ DOMAIN o = {StoredPath(p) : p \in H \cup {Root}}
  /\ \A p \in H \cup {Root} : o[StoredPath(p)] = Right(t, p)

\* r is o with the value v at x.
Adds(r, o, x, v) == r = [y \in DOMAIN o \cup {x} |-> IF y = x THEN v ELSE o[y]]

\* One path more is made.
LEMMA MadeNext ==
  ASSUME NEW t, IsTree(t), Differ(t), NEW H, H \subseteq DOMAIN t, NEW o, MadeOut(t, o, H),
         NEW q \in DOMAIN t, NEW r, Adds(r, o, StoredPath(q), Right(t, q))
  PROVE  MadeOut(t, r, H \cup {q})
<1> DEFINE x == StoredPath(q)
<1>0. r = [y \in DOMAIN o \cup {x} |-> IF y = x THEN Right(t, q) ELSE o[y]] BY DEF Adds
<1>1. DOMAIN r = {StoredPath(p) : p \in (H \cup {q}) \cup {Root}}
  <2>1. DOMAIN r = DOMAIN o \cup {x} BY <1>0
  <2>2. DOMAIN o = {StoredPath(p) : p \in H \cup {Root}} BY DEF MadeOut
  <2> QED BY <2>1, <2>2
<1>2. ASSUME NEW p \in (H \cup {q}) \cup {Root} PROVE r[StoredPath(p)] = Right(t, p)
  <2>1. p \in DOMAIN t BY DEF IsTree
  <2>2. StoredPath(p) \in DOMAIN r BY <1>1
  <2>3. CASE p = q
    <3>1. r[x] = Right(t, q) BY <1>0, <2>2, <2>3
    <3> QED BY <2>3, <3>1
  <2>4. CASE p # q
    <3>1. StoredPath(p) # x BY <2>1, <2>4, StoredApart
    <3>2. r[StoredPath(p)] = o[StoredPath(p)] BY <1>0, <2>2, <3>1
    <3>3. p \in H \cup {Root} BY <2>4
    <3> QED BY <3>2, <3>3 DEF MadeOut
  <2> QED BY <2>3, <2>4
<1> QED BY <1>1, <1>2 DEF MadeOut

\* The tree, and whatever of it has been made, is in the image and in what is out.
TripInv ==
  /\ tree \in Trees
  /\ phase \in {"mkfs", "open", "print", "extract", "done"}
  /\ phase # "mkfs" => \E K, P : Holds(tree, K, P, image)
  /\ phase \in {"mkfs", "open", "print"} => out = [p \in {Root} |-> IsDir] /\ made = << >>
  /\ phase = "extract" /\ Differ(tree) =>
       \E K, P, H, D : /\ Holds(tree, K, P, image)
                       /\ Walking(tree, K, P, image, Here(made), H, D)
                       /\ MadeOut(tree, out, H)
  /\ phase = "done" /\ Differ(tree) => MadeOut(tree, out, DOMAIN tree \ {Root})

\* What read_file_data finds for a file is its content.
LEMMA FileIsRead ==
  ASSUME NEW K, NEW P, Holds(tree, K, P, image), NEW q \in DOMAIN tree, tree[q] # IsDir
  PROVE  read_file_data(P[q]) = Content(q, tree[q])
<1>1. /\ P[q].size = tree[q]
      /\ \A k \in 1 .. tree[q] : image.data[StartOf(P[q]) - image.base + k] = <<q, k>>
  BY DEF Holds, HoldsData
<1> QED BY <1>1 DEF read_file_data, Content

\* A return of extract_all: if it is the last one, everything has been made.
LEMMA TripReturns ==
  ASSUME TripInv, Return, phase = "extract"
  PROVE  TripInv'
<1>1. /\ stack # << >> /\ Returns /\ stack' = Front(stack) /\ tree' = tree /\ image' = image
      /\ visited' = visited /\ count' = count /\ made' = made /\ out' = out
      /\ phase' = IF Len(stack) = 1 THEN "done" ELSE "extract"
  BY DEF Return
<1>2. /\ tree' \in Trees /\ phase' \in {"extract", "done"}
      /\ \E K, P : Holds(tree', K, P, image')
  BY <1>1 DEF TripInv
<1>3. ASSUME Differ(tree)
      PROVE  /\ phase' = "extract" =>
                  \E K, P, H, D : /\ Holds(tree', K, P, image')
                                  /\ Walking(tree', K, P, image', Here(made)', H, D)
                                  /\ MadeOut(tree', out', H)
             /\ phase' = "done" => MadeOut(tree', out', DOMAIN tree' \ {Root})
  <2>1. PICK K, P, H, D : /\ Holds(tree, K, P, image)
                          /\ Walking(tree, K, P, image, Here(made), H, D)
                          /\ MadeOut(tree, out, H)
    BY <1>3 DEF TripInv
  <2> DEFINE c == Here(made)  b == Here(made)'
  <2>2. c.stack = stack /\ c.count = count /\ c.visited = visited BY DEF Here
  <2>3. b.stack = Front(c.stack) /\ b.count = c.count /\ b.visited = c.visited
    BY <1>1 DEF Here
  <2>4. Ended(image, c) BY <1>1, <2>2 DEF Returns, Top, MaxEntries, Ended
  <2>5. c.stack # << >> BY <1>1, <2>2
  <2>6. Packs(tree, K, P, image) BY <2>1 DEF Holds
  <2>7. /\ Walking(tree, K, P, image, b, H, Front(D))
        /\ Len(c.stack) = 1 => H = DOMAIN tree \ {Root}
    <3> HIDE DEF c, b
    <3>1. Walking(tree, K, P, image, c, H, D) BY <2>1 DEF c
    <3> QED BY <2>3, <2>4, <2>5, <2>6, <3>1, WalkReturns
  <2>8. phase' = "done" => Len(stack) = 1 BY <1>1
  <2>9. phase' = "done" => MadeOut(tree', out', DOMAIN tree' \ {Root})
    BY <1>1, <2>1, <2>2, <2>7, <2>8
  <2>10. Walking(tree', K, P, image', Here(made)', H, Front(D)) BY <1>1, <2>7
  <2>11. Holds(tree', K, P, image') /\ MadeOut(tree', out', H) BY <1>1, <2>1
  <2> QED BY <2>9, <2>10, <2>11
<1>4. Differ(tree') = Differ(tree) BY <1>1
<1> QED BY <1>1, <1>2, <1>3, <1>4 DEF TripInv

\* A file or directory made is the next one missing, and nothing is skipped.
LEMMA TripMakes ==
  ASSUME TripInv, ExtractSkips \/ ExtractFile \/ ExtractDir
  PROVE  TripInv'
<1>1. /\ stack # << >> /\ ~ Returns /\ tree' = tree /\ image' = image
      /\ phase = "extract" /\ phase' = phase
  BY DEF ExtractSkips, ExtractFile, ExtractDir, Skip
<1>2. /\ tree' \in Trees /\ \E K, P : Holds(tree', K, P, image')
  BY <1>1 DEF TripInv
<1>3. ASSUME Differ(tree)
      PROVE  \E K, P, H, D : /\ Holds(tree', K, P, image')
                             /\ Walking(tree', K, P, image', Here(made)', H, D)
                             /\ MadeOut(tree', out', H)
  <2>1. PICK K, P, H, D : /\ Holds(tree, K, P, image)
                          /\ Walking(tree, K, P, image, Here(made), H, D)
                          /\ MadeOut(tree, out, H)
    BY <1>1, <1>3 DEF TripInv
  <2> DEFINE c == Here(made)
  <2>2. c.stack = stack /\ c.count = count BY DEF Here
  <2>3. ~ Ended(image, c) BY <1>1, <2>2 DEF Returns, Top, MaxEntries, Ended
  <2>4. PICK q : Making(tree, K, P, image, c, H, q)
    <3>1. Packs(tree, K, P, image) /\ HoldsTables(tree, K, P, image) BY <2>1 DEF Holds
    <3>2. c.stack # << >> BY <1>1, <2>2
    <3> QED BY <1>3, <2>1, <2>3, <3>1, <3>2, WalkMakes
  <2>5. PICK E : Walking(tree, K, P, image, After(image, c), H \cup {q}, E)
    BY <2>4 DEF Making
  <2>6. /\ q \in DOMAIN tree /\ Entry = P[q] /\ Entry.name # NoName /\ Entry.name \notin Top.seen
        /\ FullPath = StoredPath(q)
    BY <2>2, <2>4 DEF Making, Top, Entry, FullPath
  <2>7. ~ ExtractSkips BY <2>6 DEF ExtractSkips, Skip, Extracted
  <2>8. Here(made)' = After(image, c) BY <1>1, ExtractIs
  <2>9. P[q].isfile <=> tree[q] # IsDir BY <2>1, <2>6 DEF Holds, Packs
  <2>10. \E v : Make(v) /\ v = Right(tree, q)
    <3>1. CASE ExtractFile
      <4>1. Make(read_file_data(Entry)) /\ Entry.isfile BY <3>1 DEF ExtractFile
      <4>2. tree[q] # IsDir BY <2>6, <2>9, <4>1
      <4>3. read_file_data(Entry) = Right(tree, q)
        BY <2>1, <2>6, <4>2, FileIsRead DEF Right
      <4> QED BY <4>1, <4>3
    <3>2. CASE ExtractDir
      <4>1. Make(IsDir) /\ ~ Entry.isfile BY <3>2 DEF ExtractDir
      <4>2. tree[q] = IsDir BY <2>6, <2>9, <4>1
      <4> QED BY <4>1, <4>2 DEF Right
    <3> QED BY <2>7, <3>1, <3>2
  <2>11. PICK v : Make(v) /\ v = Right(tree, q) BY <2>10
  <2>12. Adds(out', out, StoredPath(q), Right(tree, q))
    BY <2>6, <2>11 DEF Make, Adds
  <2>13. MadeOut(tree, out', H \cup {q})
    <3>1. IsTree(tree) BY <1>2, <1>1, TreeIs
    <3>2. H \subseteq DOMAIN tree BY <2>1 DEF Walking, Counted
    <3> QED BY <1>3, <2>1, <2>6, <2>12, <3>1, <3>2, MadeNext
  <2>14. Walking(tree', K, P, image', Here(made)', H \cup {q}, E) BY <1>1, <2>5, <2>8
  <2>15. Holds(tree', K, P, image') /\ MadeOut(tree', out', H \cup {q}) BY <1>1, <2>1, <2>13
  <2> QED BY <2>14, <2>15
<1>4. Differ(tree') = Differ(tree) BY <1>1
<1> QED BY <1>1, <1>2, <1>3, <1>4 DEF TripInv

\* The extraction begins in the root of the image.
LEMMA TripBegins ==
  ASSUME TripInv, ExtractBegins
  PROVE  TripInv'
<1>1. /\ phase = "print" /\ phase' = "extract" /\ tree' = tree /\ image' = image
      /\ made' = made /\ out' = out /\ visited' = {} /\ count' = 0
      /\ stack' = <<[Frame(SectorSize, image.entries, Root) EXCEPT !.at = 2]>>
  BY DEF ExtractBegins, Begin
<1>2. PICK K, P : Holds(tree, K, P, image) BY <1>1 DEF TripInv
<1>3. image.entries \in Nat
  <2>1. image.entries = Cardinality(DOMAIN tree) BY <1>2 DEF Holds, Packs
  <2>2. IsFiniteSet(DOMAIN tree) BY <1>2 DEF Holds, Packs, IsTree
  <2> QED BY <2>1, <2>2, FS_CardinalityType
<1>4. Here(made)' = Start(image)
  <2>1. stack' = <<[entries |-> SubSeq(image.table, 1, image.entries), at |-> 2,
                    seen |-> {}, path |-> Root]>>
    BY <1>1, <1>3, RootFrame, SecondIs
  <2>2. made' = << >> BY <1>1 DEF TripInv
  <2> QED BY <1>1, <2>1, <2>2 DEF Here, Start
<1>5. Walking(tree, K, P, image, Start(image), {}, <<Root>>)
  BY <1>2, WalkStarts DEF Holds
<1>6. MadeOut(tree, out, {})
  <2>1. out = [p \in {Root} |-> IsDir] BY <1>1 DEF TripInv
  <2>2. StoredPath(Root) = Root
    <3>1. Len(Root) = 0 /\ Root \in Seq(Nat) BY DEF Root
    <3>2. IsSeq(Root) BY <3>1 DEF IsSeq
    <3>3. IsSeq(StoredPath(Root)) /\ Len(StoredPath(Root)) = Len(Root) BY <3>2, StoredPathIs
    <3>4. \A i \in 1 .. 0 : FALSE OBVIOUS
    <3> QED BY <3>1, <3>2, <3>3, <3>4, SameSeq
  <2>3. tree[Root] = IsDir BY <1>2 DEF Holds, Packs, IsTree
  <2> QED BY <2>1, <2>2, <2>3 DEF MadeOut, Right
<1>7. /\ tree' \in Trees /\ Holds(tree', K, P, image') BY <1>1, <1>2 DEF TripInv
<1>8. /\ Walking(tree', K, P, image', Here(made)', {}, <<Root>>) /\ MadeOut(tree', out', {})
  BY <1>1, <1>4, <1>5, <1>6
<1> QED BY <1>1, <1>7, <1>8 DEF TripInv

\* The image always holds the tree packed, and while it is extracted everything
\* made is right and what is missing is still ahead of the walk (mkfs.py,
\* rdfs.py).
THEOREM LuFsRoundTrips == Spec => []TripInv
<1>1. Init => TripInv BY DEF Init, TripInv
<1>2. TripInv /\ [Next]_vars => TripInv'
  <2> SUFFICES ASSUME TripInv, [Next]_vars PROVE TripInv'
    OBVIOUS
  <2>1. CASE makefs
    <3>1. /\ tree' = tree /\ image' = Image /\ phase' = "open" /\ out' = out /\ made' = made
          /\ phase = "mkfs"
      BY <2>1 DEF makefs
    <3>2. Holds(tree, KidsTables, PathEntries, Image)
      BY ImagePacks, ImageHoldsTables, ImageHoldsData DEF TripInv, Holds
    <3>3. \E K, P : Holds(tree, K, P, Image) BY <3>2
    <3>4. \E K, P : Holds(tree', K, P, image') BY <3>1, <3>3
    <3> QED BY <3>1, <3>4 DEF TripInv
  <2>2. CASE ExtractBegins BY <2>2, TripBegins
  <2>3. CASE ExtractSkips \/ ExtractFile \/ ExtractDir BY <2>3, TripMakes
  <2>4. CASE Return /\ phase = "extract" BY <2>4, TripReturns
  <2>5. CASE PrintBegins \/ PrintSkips \/ PrintEntry \/ (Return /\ phase # "extract")
    <3>1. /\ tree' = tree /\ image' = image /\ made' = made /\ out' = out
          /\ phase # "extract" /\ phase' # "extract"
          /\ phase' = phase \/ (phase = "open" /\ phase' = "print")
      BY <2>5 DEF PrintBegins, PrintSkips, PrintEntry, Return, Begin, Skip
    <3> QED BY <3>1 DEF TripInv
  <2>6. CASE UNCHANGED vars
    <3>1. /\ tree' = tree /\ image' = image /\ made' = made /\ out' = out /\ phase' = phase
          /\ stack' = stack /\ visited' = visited /\ count' = count
      BY <2>6 DEF vars
    <3>2. Here(made)' = Here(made) BY <3>1 DEF Here
    <3> QED BY <3>1, <3>2 DEF TripInv
  <2> QED BY <2>1, <2>2, <2>3, <2>4, <2>5, <2>6 DEF Next
<1> QED BY <1>1, <1>2, PTL DEF Spec

\* What is extracted in the end is the directory that was packed, for
\* directories of any size and depth in which the first 32 bytes tell the names
\* apart.
THEOREM TripsAreRound == Spec => []RoundTrip
<1>1. TripInv => RoundTrip
  <2> SUFFICES ASSUME TripInv, phase = "done", NamesDiffer
               PROVE  /\ DOMAIN out = {StoredPath(p) : p \in DOMAIN tree}
                      /\ \A p \in DOMAIN tree :
                           out[StoredPath(p)] = IF IsFile(p) THEN Content(p, tree[p]) ELSE IsDir
    BY DEF RoundTrip
  <2>1. Differ(tree) BY DEF NamesDiffer, Differ, Parent
  <2>2. MadeOut(tree, out, DOMAIN tree \ {Root}) BY <2>1 DEF TripInv
  <2>3. (DOMAIN tree \ {Root}) \cup {Root} = DOMAIN tree
    <3>1. Root \in DOMAIN tree BY TreeIs DEF TripInv
    <3> QED BY <3>1
  <2> QED BY <2>2, <2>3 DEF MadeOut, Right, IsFile
<1> QED BY <1>1, LuFsRoundTrips, PTL

-----------------------------------------------------------------------------
(* The layout of the image: the tables are ranges one behind the other, so *)
(* are the files, and what each entry names is the range of its path.      *)

\* The i-th of the ranges that begin at the offsets at.
Segment(at, lens, i) == at[i] .. at[i] + lens[i] - 1
\* The ranges fill what lies between first and end, and do not overlap.
Fill(at, lens, n, first, end) ==
  /\ end \in Nat /\ first <= end
  /\ \A i \in 1 .. n : \A y \in Segment(at, lens, i) : y \in first .. end - 1
  /\ \A y \in first .. end - 1 : \E i \in 1 .. n : y \in Segment(at, lens, i)
  /\ \A i, j \in 1 .. n : i # j => Segment(at, lens, i) \cap Segment(at, lens, j) = {}
\* Ranges one behind the other do.
LEMMA SegmentsFill ==
  ASSUME NEW at, NEW start \in Nat, NEW lens, NEW n \in Nat, Accumulate(at, start, lens, n),
         \A i \in 1 .. n : lens[i] \in Nat
  PROVE  Fill(at, lens, n, start, at[n + 1])
<1>1. /\ \A i \in 1 .. n + 1 : at[i] \in Nat
      /\ at[1] = start
      /\ \A i \in 1 .. n : at[i + 1] = at[i] + lens[i]
  BY DEF Accumulate
<1>2. \A i, j \in 1 .. n + 1 : i <= j => at[i] <= at[j] BY OffsetsRise
<1>3. 1 \in 1 .. n + 1 /\ n + 1 \in 1 .. n + 1 OBVIOUS
<1>4. at[n + 1] \in Nat /\ start <= at[n + 1] BY <1>1, <1>2, <1>3
<1>5. ASSUME NEW i \in 1 .. n
      PROVE  at[i] \in Nat /\ start <= at[i] /\ at[i] + lens[i] <= at[n + 1]
  <2>1. i \in 1 .. n + 1 /\ i + 1 \in 1 .. n + 1 /\ 1 <= i /\ i + 1 <= n + 1 OBVIOUS
  <2>2. at[i + 1] = at[i] + lens[i] /\ at[i + 1] <= at[n + 1] BY <1>1, <1>2, <1>3, <2>1
  <2>3. at[1] <= at[i] BY <1>2, <1>3, <2>1
  <2> QED BY <1>1, <2>1, <2>2, <2>3
<1>6. ASSUME NEW i \in 1 .. n, NEW y \in Segment(at, lens, i) PROVE y \in start .. at[n + 1] - 1
  BY <1>4, <1>5 DEF Segment
<1>7. ASSUME NEW y \in start .. at[n + 1] - 1 PROVE \E i \in 1 .. n : y \in Segment(at, lens, i)
  <2>1. y + 1 \in start + 1 .. at[n + 1] /\ y \in Nat BY <1>4
  <2>2. PICK i \in 1 .. n : \E k \in 1 .. lens[i] : y + 1 = at[i] + k BY <2>1, Located
  <2>3. PICK k \in 1 .. lens[i] : y + 1 = at[i] + k BY <2>2
  <2>4. at[i] \in Nat /\ lens[i] \in Nat BY <1>5
  <2>5. y \in at[i] .. at[i] + lens[i] - 1 BY <2>1, <2>3, <2>4
  <2> QED BY <2>5 DEF Segment
<1>8. ASSUME NEW i \in 1 .. n, NEW j \in 1 .. n, i < j, NEW y \in Segment(at, lens, i),
             y \in Segment(at, lens, j)
      PROVE  FALSE
  <2>1. i + 1 \in 1 .. n + 1 /\ j \in 1 .. n + 1 /\ i + 1 <= j BY <1>8
  <2>2. at[i + 1] <= at[j] /\ at[i + 1] = at[i] + lens[i] BY <1>1, <1>2, <2>1
  <2>3. y < at[i] + lens[i] /\ at[j] <= y BY <1>1, <1>5, <1>8 DEF Segment
  <2>4. at[i] \in Nat /\ at[j] \in Nat /\ lens[i] \in Nat /\ y \in Int BY <1>5, <1>8 DEF Segment
  <2> QED BY <2>2, <2>3, <2>4
<1>9. ASSUME NEW i \in 1 .. n, NEW j \in 1 .. n, i # j
      PROVE  Segment(at, lens, i) \cap Segment(at, lens, j) = {}
  <2>1. i < j \/ j < i BY <1>9
  <2> QED BY <1>8, <2>1
<1> QED BY <1>4, <1>6, <1>7, <1>9 DEF Fill

\* Every path of the tree has its entry once (mkfs.py).
LEMMA TablesEnumerate ==
  ASSUME tree \in Trees
  PROVE  Enumerates(Tables, DOMAIN tree)
<1> DEFINE n == Len(DirOrder)
           lens == [i \in DOMAIN DirOrder |-> TableLen(DirOrder[i])]
           N == Len(Tables)
<1>1. /\ IsTree(tree) /\ IsFiniteSet(DOMAIN tree) /\ Root \in DOMAIN tree /\ Root \in Dirs
      /\ Enumerates(DirOrder, Dirs) /\ \A d : Enumerates(DirTree(d), Kids(d))
  BY TreeIs
<1>2. TablesLie BY TablesAre
<1>3. n \in Nat /\ DOMAIN DirOrder = 1 .. n /\ \A i \in 1 .. n : lens[i] = TableLen(DirOrder[i])
  BY <1>1 DEF Enumerates
<1>4. \A d : TableLen(d) \in Nat BY <1>1 DEF Enumerates, TableLen
<1>5. /\ Accumulate(Offset, 0, lens, n) /\ N = Offset[n + 1] /\ Tables \in Seq(DOMAIN tree)
      /\ \A i \in 1 .. n : \A k \in 1 .. TableLen(DirOrder[i]) :
           Offset[i] + k \in 1 .. N /\ Tables[Offset[i] + k] = DirTree(DirOrder[i])[k]
  BY <1>2 DEF TablesLie
<1> HIDE DEF lens
<1>6. ASSUME NEW j \in 1 .. N
      PROVE  \E i \in 1 .. n : \E k \in 1 .. TableLen(DirOrder[i]) :
               /\ j = Offset[i] + k /\ Tables[j] = DirTree(DirOrder[i])[k]
               /\ Parent(Tables[j]) = DirOrder[i]
  <2>1. j \in 0 + 1 .. Offset[n + 1] BY <1>5
  <2>2. \A i \in 1 .. n : lens[i] \in Nat BY <1>3, <1>4
  <2>3. PICK i \in 1 .. n : \E k \in 1 .. lens[i] : j = Offset[i] + k
    <3>1. n \in Nat /\ 0 \in Nat BY <1>3
    <3>2. Accumulate(Offset, 0, lens, n) BY <1>5
    <3> HIDE DEF n, N
    <3> QED BY <2>1, <2>2, <3>1, <3>2, Located
  <2>4. PICK k \in 1 .. TableLen(DirOrder[i]) : j = Offset[i] + k BY <1>3, <2>3
  <2>5. Tables[j] = DirTree(DirOrder[i])[k] BY <1>5, <2>4
  <2>6. DirTree(DirOrder[i])[k] \in Kids(DirOrder[i]) BY <1>1 DEF Enumerates, TableLen
  <2>7. Parent(Tables[j]) = DirOrder[i] BY <2>5, <2>6 DEF Kids
  <2> QED BY <2>4, <2>5, <2>7
<1> DEFINE From(j, i, k) == /\ j = Offset[i] + k /\ Tables[j] = DirTree(DirOrder[i])[k]
                            /\ Parent(Tables[j]) = DirOrder[i]
<1>7. ASSUME NEW j \in 1 .. N, NEW m \in 1 .. N, Tables[j] = Tables[m] PROVE j = m
  <2>1. PICK i \in 1 .. n : \E k \in 1 .. TableLen(DirOrder[i]) : From(j, i, k) BY <1>6
  <2>2. PICK k \in 1 .. TableLen(DirOrder[i]) : From(j, i, k) BY <2>1
  <2>3. PICK x \in 1 .. n : \E l \in 1 .. TableLen(DirOrder[x]) : From(m, x, l) BY <1>6
  <2>4. PICK l \in 1 .. TableLen(DirOrder[x]) : From(m, x, l) BY <2>3
  <2>5. DirOrder[i] = DirOrder[x] BY <1>7, <2>2, <2>4
  <2>6. i = x BY <1>1, <2>5 DEF Enumerates
  <2>7. DirTree(DirOrder[i])[k] = DirTree(DirOrder[i])[l] /\ l \in 1 .. TableLen(DirOrder[i])
    BY <1>7, <2>2, <2>4, <2>6
  <2>8. k = l BY <1>1, <2>7 DEF Enumerates, TableLen
  <2> QED BY <2>2, <2>4, <2>6, <2>8
<1>8. ASSUME NEW p \in DOMAIN tree PROVE \E j \in 1 .. N : Tables[j] = p
  <2>1. Parent(p) \in Dirs
    <3>1. CASE p = Root BY <1>1, <3>1, FrontOf DEF Parent
    <3>2. CASE p # Root BY <1>1, <3>2 DEF IsTree, Dirs, IsFile, Parent
    <3> QED BY <3>1, <3>2
  <2>2. PICK i \in 1 .. n : DirOrder[i] = Parent(p) BY <1>1, <2>1 DEF Enumerates
  <2>3. p \in Kids(DirOrder[i]) BY <2>2 DEF Kids
  <2>4. PICK k \in 1 .. TableLen(DirOrder[i]) : DirTree(DirOrder[i])[k] = p
    BY <1>1, <2>3 DEF Enumerates, TableLen
  <2> QED BY <1>5, <2>4
<1>9. N \in Nat /\ N = Cardinality(DOMAIN tree)
  <2>1. N \in Nat BY <1>5
  <2> DEFINE f == [j \in 1 .. N |-> Tables[j]]
  <2>2. f \in [1 .. N -> DOMAIN tree] BY <1>5
  <2>3. \A j \in 1 .. N : f[j] = Tables[j] OBVIOUS
  <2> HIDE DEF f
  <2>4. f \in Bijection(1 .. N, DOMAIN tree)
    BY <1>7, <1>8, <2>2, <2>3 DEF Bijection, Injection, Surjection, IsInjective
  <2>5. ExistsBijection(1 .. N, DOMAIN tree) BY <2>4 DEF ExistsBijection
  <2> QED BY <2>1, <2>5, FS_CountingElements
<1> QED BY <1>1, <1>5, <1>7, <1>8, <1>9 DEF Enumerates

\* How long the tables and the files are, in the order in which they lie.
TableSizes == [i \in DOMAIN DirOrder |-> EntrySize * TableLen(DirOrder[i])]
FileSizes == [i \in DOMAIN Files |-> tree[Files[i]]]
\* The bytes of all tables, of all files, and of the entry of the root.
TableBytes == SectorSize .. SectorSize + EntrySize * Len(Tables) - 1
DataBytes == FileDataOffset .. FileDataOffset + Len(Image.data) - 1
RootBytes == SectorSize .. SectorSize + EntrySize - 1
\* The bytes of the table of a directory and those of a file.
Extent(p) ==
  IF IsFile(p) THEN Segment(FileOffsets, FileSizes, PlaceIn(p, Files))
               ELSE Segment(TableOffsets, TableSizes, PlaceIn(p, DirOrder))

\* The tables fill the bytes of the tables.
LEMMA TablesFill ==
  ASSUME tree \in Trees
  PROVE  /\ Fill(TableOffsets, TableSizes, Len(DirOrder), SectorSize,
                 SectorSize + EntrySize * Len(Tables))
         /\ Len(DirOrder) \in Nat /\ TableOffsets[1] = SectorSize
         /\ \A i \in 1 .. Len(DirOrder) : TableSizes[i] = EntrySize * TableLen(DirOrder[i])
<1> DEFINE n == Len(DirOrder)
<1>1. Enumerates(DirOrder, Dirs) BY TreeIs
<1>2. n \in Nat /\ DOMAIN DirOrder = 1 .. n BY <1>1 DEF Enumerates
<1>3. EntrySize \in Nat /\ SectorSize \in Nat BY LuFsAssumption
<1>4. \A i \in 1 .. n : EntrySize * TableLen(DirOrder[i]) \in Nat
  <2>1. \A d : TableLen(d) \in Nat BY TreeIs DEF Enumerates, TableLen
  <2>2. \A x \in Nat : EntrySize * x \in Nat BY <1>3
  <2> QED BY <2>1, <2>2
<1>5. /\ Len(TableSizes) = n
      /\ \A i \in 1 .. n : TableSizes[i] = EntrySize * TableLen(DirOrder[i])
  <2>1. TableSizes \in [1 .. n -> Nat] BY <1>2, <1>4 DEF TableSizes
  <2>2. \A i \in 1 .. n : TableSizes[i] = EntrySize * TableLen(DirOrder[i])
    BY <1>2 DEF TableSizes
  <2> QED BY <1>2, <2>1, <2>2, FunctionIsSeq
<1>6. TableOffsets = Offsets(SectorSize, TableSizes) BY DEF TableOffsets, TableSizes
<1> HIDE DEF n
<1>7. \A i \in 1 .. n : TableSizes[i] \in Nat BY <1>4, <1>5
<1>8. Accumulate(TableOffsets, SectorSize, TableSizes, n)
  BY <1>2, <1>3, <1>5, <1>6, <1>7, OffsetsAre
<1>9. Fill(TableOffsets, TableSizes, n, SectorSize, TableOffsets[n + 1])
  BY <1>2, <1>3, <1>7, <1>8, SegmentsFill
<1>10. TableOffsets[n + 1] = SectorSize + EntrySize * Len(Tables) BY DirOffsetIs DEF n
<1>11. TableOffsets[1] = SectorSize BY <1>8 DEF Accumulate
<1> QED BY <1>2, <1>5, <1>9, <1>10, <1>11 DEF n

\* The files fill the bytes of the data.
LEMMA FilesFill ==
  ASSUME tree \in Trees
  PROVE  /\ Fill(FileOffsets, FileSizes, Len(Files), FileDataOffset,
                 FileDataOffset + Len(Image.data))
         /\ Len(Files) \in Nat
         /\ \A i \in 1 .. Len(Files) :
              /\ FileSizes[i] = tree[Files[i]] /\ tree[Files[i]] \in Nat
              /\ FileOffsets[i] = FileDataOffset + DataAt[i]
<1> DEFINE n == Len(Files)
<1>1. FilesLie BY FilesAre
<1>2. n \in Nat /\ DOMAIN Files = 1 .. n /\ FileDataOffset \in Nat
      /\ \A i \in 1 .. n : tree[Files[i]] \in Nat
  BY <1>1 DEF FilesLie
<1>3. Len(FileSizes) = n /\ \A i \in 1 .. n : FileSizes[i] = tree[Files[i]]
  <2>1. FileSizes \in [1 .. n -> Nat] BY <1>2 DEF FileSizes
  <2>2. \A i \in 1 .. n : FileSizes[i] = tree[Files[i]] BY <1>2 DEF FileSizes
  <2> QED BY <1>2, <2>1, <2>2, FunctionIsSeq
<1>4. FileOffsets = Offsets(FileDataOffset, FileSizes) BY DEF FileOffsets, FileSizes
<1>5. /\ \A i \in 1 .. n + 1 : FileOffsets[i] = FileDataOffset + DataAt[i]
      /\ Len(Image.data) = DataAt[n + 1]
  BY <1>1 DEF FilesLie
<1> HIDE DEF n
<1>6. \A i \in 1 .. n : FileSizes[i] \in Nat BY <1>2, <1>3
<1>7. Accumulate(FileOffsets, FileDataOffset, FileSizes, n)
  BY <1>2, <1>3, <1>4, <1>6, OffsetsAre
<1>8. Fill(FileOffsets, FileSizes, n, FileDataOffset, FileOffsets[n + 1])
  BY <1>2, <1>6, <1>7, SegmentsFill
<1>9. FileOffsets[n + 1] = FileDataOffset + Len(Image.data)
  <2>1. n + 1 \in 1 .. n + 1 BY <1>2
  <2> QED BY <1>5, <2>1
<1>10. \A i \in 1 .. n : i \in 1 .. n + 1 BY <1>2
<1> QED BY <1>2, <1>3, <1>5, <1>8, <1>9, <1>10 DEF n

\* The data begin behind the tables, at the next sector.
LEMMA DataBehindTables ==
  ASSUME tree \in Trees
  PROVE  SectorSize + EntrySize * Len(Tables) <= FileDataOffset
<1> DEFINE end == TableOffsets[Len(DirOrder) + 1]
           x == end + SectorSize - 1
           q == x \div SectorSize
<1>1. end = SectorSize + EntrySize * Len(Tables) BY DirOffsetIs
<1>2. SectorSize \in Nat \ {0} /\ EntrySize \in Nat /\ Len(Tables) \in Nat
  BY LuFsAssumption, TablesAre DEF TablesLie
<1>3. end \in Nat BY <1>1, <1>2
<1>4. FileDataOffset = q * SectorSize BY DEF FileDataOffset
<1> HIDE DEF end
<1>5. x \in Nat BY <1>2, <1>3
<1> HIDE DEF x
<1>6. q * SectorSize + (x % SectorSize) = x /\ x % SectorSize \in 0 .. SectorSize - 1
  BY <1>2, <1>5, Recomposed
<1>7. q \in Nat BY <1>2, <1>5, Recomposed
<1> HIDE DEF q
<1>8. q * SectorSize \in Nat BY <1>2, <1>7, Recomposed
<1> DEFINE b == q * SectorSize  r == x % SectorSize
<1>9. b + r = x /\ r \in 0 .. SectorSize - 1 /\ b \in Nat /\ FileDataOffset = b
  BY <1>4, <1>6, <1>8
<1> HIDE DEF b, r
<1>10. end <= b BY <1>2, <1>3, <1>9 DEF x
<1> QED BY <1>1, <1>9, <1>10

\* The extents of the paths: each in its part of the image, together all of it,
\* and no byte in two of them.
ExtentsFit ==
  /\ \A p \in DOMAIN tree : Extent(p) \subseteq IF IsFile(p) THEN DataBytes ELSE TableBytes
  /\ \A y \in TableBytes : \E p \in DOMAIN tree : ~ IsFile(p) /\ y \in Extent(p)
  /\ \A y \in DataBytes : \E p \in DOMAIN tree : IsFile(p) /\ y \in Extent(p)
  /\ TableBytes \cap DataBytes = {}
  /\ \A p, q \in DOMAIN tree : p # q => Extent(p) \cap Extent(q) = {}
\* They fit.
LEMMA ExtentsDoFit ==
  ASSUME tree \in Trees
  PROVE  ExtentsFit
<1> DEFINE F == {p \in DOMAIN tree : IsFile(p)}
<1>1. Enumerates(DirOrder, Dirs) /\ Enumerates(Files, F) BY TreeIs
<1>2. Fill(TableOffsets, TableSizes, Len(DirOrder), SectorSize,
           SectorSize + EntrySize * Len(Tables))
  BY TablesFill
<1>3. Fill(FileOffsets, FileSizes, Len(Files), FileDataOffset,
           FileDataOffset + Len(Image.data))
  BY FilesFill
<1> DEFINE e == SectorSize + EntrySize * Len(Tables)  f == FileDataOffset + Len(Image.data)
<1>14. TableBytes = SectorSize .. e - 1 /\ DataBytes = FileDataOffset .. f - 1
  <2> DEFINE x == EntrySize * Len(Tables)  y == Len(Image.data)
  <2>1. SectorSize \in Nat /\ FileDataOffset \in Nat /\ e \in Nat /\ f \in Nat /\ y \in Nat
    BY <1>2, <1>3, LuFsAssumption, FilesAre DEF Fill, FilesLie, Accumulate
  <2>2. x \in Nat
    <3>1. EntrySize \in Nat /\ Len(Tables) \in Nat BY LuFsAssumption, TablesAre DEF TablesLie
    <3> QED BY <3>1
  <2>3. /\ TableBytes = SectorSize .. SectorSize + x - 1
        /\ DataBytes = FileDataOffset .. FileDataOffset + y - 1
    BY Zenon DEF TableBytes, DataBytes
  <2>4. e = SectorSize + x /\ f = FileDataOffset + y BY Zenon
  <2> HIDE DEF e, f, x, y
  <2>5. SectorSize + x - 1 = e - 1 /\ FileDataOffset + y - 1 = f - 1 BY <2>1, <2>2, <2>4
  <2> QED BY <2>3, <2>5
<1>15. /\ Fill(TableOffsets, TableSizes, Len(DirOrder), SectorSize, e)
       /\ Fill(FileOffsets, FileSizes, Len(Files), FileDataOffset, f)
  BY <1>2, <1>3
<1> HIDE DEF e, f
<1>4. ASSUME NEW p \in Dirs
      PROVE  /\ PlaceIn(p, DirOrder) \in 1 .. Len(DirOrder)
             /\ DirOrder[PlaceIn(p, DirOrder)] = p
             /\ Extent(p) = Segment(TableOffsets, TableSizes, PlaceIn(p, DirOrder))
             /\ \A i \in 1 .. Len(DirOrder) : DirOrder[i] = p => i = PlaceIn(p, DirOrder)
  BY <1>1, PlaceInIs DEF Extent, Dirs
<1>5. ASSUME NEW p \in F
      PROVE  /\ PlaceIn(p, Files) \in 1 .. Len(Files) /\ Files[PlaceIn(p, Files)] = p
             /\ Extent(p) = Segment(FileOffsets, FileSizes, PlaceIn(p, Files))
             /\ \A i \in 1 .. Len(Files) : Files[i] = p => i = PlaceIn(p, Files)
  BY <1>1, PlaceInIs DEF Extent
<1>6. \A p \in DOMAIN tree : IF IsFile(p) THEN p \in F ELSE p \in Dirs BY DEF Dirs
<1>7. ASSUME NEW p \in Dirs PROVE Extent(p) \subseteq TableBytes
  BY <1>4, <1>14, <1>15 DEF Fill
<1>8. ASSUME NEW p \in F PROVE Extent(p) \subseteq DataBytes
  BY <1>5, <1>14, <1>15 DEF Fill
<1>9. ASSUME NEW y \in TableBytes PROVE \E p \in DOMAIN tree : ~ IsFile(p) /\ y \in Extent(p)
  <2>1. PICK i \in 1 .. Len(DirOrder) : y \in Segment(TableOffsets, TableSizes, i)
    BY <1>14, <1>15 DEF Fill
  <2>2. DirOrder[i] \in Dirs BY <1>1 DEF Enumerates
  <2>3. y \in Extent(DirOrder[i]) BY <1>4, <2>1, <2>2
  <2> QED BY <2>2, <2>3 DEF Dirs
<1>10. ASSUME NEW y \in DataBytes PROVE \E p \in DOMAIN tree : IsFile(p) /\ y \in Extent(p)
  <2>1. PICK i \in 1 .. Len(Files) : y \in Segment(FileOffsets, FileSizes, i)
    BY <1>14, <1>15 DEF Fill
  <2>2. Files[i] \in F BY <1>1 DEF Enumerates
  <2>3. y \in Extent(Files[i]) BY <1>5, <2>1, <2>2
  <2> QED BY <2>2, <2>3
<1>11. TableBytes \cap DataBytes = {}
  <2>1. e <= FileDataOffset BY DataBehindTables DEF e
  <2>2. e \in Nat BY <1>15 DEF Fill
  <2>3. FileDataOffset \in Nat BY FilesAre DEF FilesLie
  <2>4. ASSUME NEW y \in TableBytes, y \in DataBytes PROVE FALSE
    <3>1. y <= e - 1 /\ y \in Int BY <1>14, <2>4
    <3>2. FileDataOffset <= y BY <1>14, <2>4
    <3> QED BY <2>1, <2>2, <2>3, <3>1, <3>2
  <2> QED BY <2>4
<1>12. ASSUME NEW p \in DOMAIN tree, NEW q \in DOMAIN tree, p # q
       PROVE  Extent(p) \cap Extent(q) = {}
  <2>1. CASE p \in Dirs /\ q \in Dirs
    <3>1. PlaceIn(p, DirOrder) # PlaceIn(q, DirOrder) BY <1>4, <1>12, <2>1
    <3> QED BY <1>2, <1>4, <2>1, <3>1 DEF Fill
  <2>2. CASE p \in F /\ q \in F
    <3>1. PlaceIn(p, Files) # PlaceIn(q, Files) BY <1>5, <1>12, <2>2
    <3> QED BY <1>3, <1>5, <2>2, <3>1 DEF Fill
  <2>3. CASE p \in Dirs /\ q \in F BY <1>7, <1>8, <1>11, <2>3
  <2>4. CASE p \in F /\ q \in Dirs BY <1>7, <1>8, <1>11, <2>4
  <2> QED BY <1>6, <2>1, <2>2, <2>3, <2>4
<1>13. \A p \in DOMAIN tree : Extent(p) \subseteq IF IsFile(p) THEN DataBytes ELSE TableBytes
  BY <1>6, <1>7, <1>8
<1> QED BY <1>9, <1>10, <1>11, <1>12, <1>13 DEF ExtentsFit

\* The table of the root begins behind the header, with the entry of the root.
LEMMA RootExtent ==
  ASSUME tree \in Trees
  PROVE  /\ TableLen(Root) \in Nat \ {0}
         /\ Extent(Root) = SectorSize .. SectorSize + EntrySize * TableLen(Root) - 1
         /\ RootBytes \subseteq Extent(Root)
         /\ DirOffset(Root) = SectorSize
<1> DEFINE r == PlaceIn(Root, DirOrder)  t == EntrySize * TableLen(Root)
<1>1. Enumerates(DirOrder, Dirs) /\ Root \in Dirs /\ Root \in Kids(Root)
      /\ Enumerates(DirTree(Root), Kids(Root))
  BY TreeIs
<1>2. r \in 1 .. Len(DirOrder) /\ DirOrder[r] = Root BY <1>1, PlaceInIs
<1>3. SectorSize \in Nat /\ EntrySize \in Nat \ {0} BY LuFsAssumption
<1>4. TableLen(Root) \in Nat \ {0} BY <1>1 DEF Enumerates, TableLen
<1>5. t \in Nat /\ EntrySize <= t
  <2> DEFINE n == TableLen(Root)
  <2>1. n \in Nat \ {0} BY <1>4
  <2> HIDE DEF n
  <2>2. EntrySize * n \in Nat /\ EntrySize <= EntrySize * n BY <1>3, <2>1
  <2> QED BY <2>2 DEF n
<1>6. TableSizes[r] = t BY <1>2, TablesFill
<1>7. TableOffsets[r] = SectorSize
  <2>1. TableOffsets[r] = SectorSize + EntrySize * At(Root) BY <1>1, DirOffsetIs DEF DirOffset
  <2>2. At(Root) = 0 BY DirOffsetIs
  <2>3. EntrySize * 0 = 0 BY <1>3
  <2> QED BY <1>3, <2>1, <2>2, <2>3
<1>8. DirOffset(Root) = SectorSize BY <1>7 DEF DirOffset
<1>9. Extent(Root) = Segment(TableOffsets, TableSizes, r) BY <1>1 DEF Extent, Dirs
<1> HIDE DEF r, t
<1>10. Extent(Root) = SectorSize .. SectorSize + t - 1 BY <1>6, <1>7, <1>9 DEF Segment
<1>11. RootBytes \subseteq Extent(Root) BY <1>3, <1>5, <1>10 DEF RootBytes
<1> QED BY <1>4, <1>8, <1>10, <1>11 DEF t

\* The entry of the root names what is behind it in its table.
LEMMA RootEntryIs ==
  ASSUME tree \in Trees, NEW e, e = pack_entry(Root)
  PROVE  StartOf(e) # 0 /\ Bytes(e) = Extent(Root) \ RootBytes
<1> DEFINE n == TableLen(Root)  t == EntrySize * n
           at == Place(SectorSize, n * EntrySize)
           f == [place |-> at]
<1>1. SectorSize \in Nat \ {0} /\ EntrySize \in Nat \ {0} /\ EntrySize < SectorSize
  BY LuFsAssumption
<1>2. /\ n \in Nat \ {0} /\ Extent(Root) = SectorSize .. SectorSize + t - 1
      /\ DirOffset(Root) = SectorSize
  BY RootExtent
<1>3. e.place = [at EXCEPT !.start_byte = EntrySize]
  <2>1. ~ IsFile(Root) BY TreeIs DEF Dirs
  <2>2. ~ (n = 0) BY <1>2
  <2>3. e.place = PlaceOf(Root) BY EntryIs
  <2>4. PlaceOf(Root) = [Place(DirOffset(Root), n * EntrySize) EXCEPT !.start_byte = EntrySize]
    BY <2>1, <2>2 DEF PlaceOf
  <2> QED BY <1>2, <2>3, <2>4
<1> HIDE DEF n
<1>4. t \in Nat \ {0} /\ n * EntrySize = t /\ EntrySize <= t BY <1>1, <1>2
<1> HIDE DEF t
<1>5. at = [start_block |-> SectorSize \div SectorSize, start_byte |-> SectorSize % SectorSize,
            end_block |-> (SectorSize + t - 1) \div SectorSize,
            end_byte |-> (SectorSize + t - 1) % SectorSize]
  BY <1>4 DEF Place
<1>6. /\ e.place.start_block = SectorSize \div SectorSize /\ e.place.start_byte = EntrySize
      /\ e.place.end_block = f.place.end_block /\ e.place.end_byte = f.place.end_byte
  BY <1>3, <1>5
<1>7. EndOf(e) = SectorSize + t - 1
  <2>1. f.place = Place(SectorSize, t) BY <1>4
  <2>2. EndOf(e) = EndOf(f) BY <1>6 DEF EndOf
  <2> HIDE DEF f
  <2>3. PlacedAt(f, SectorSize, t) BY <1>1, <1>4, <2>1, PlaceIs
  <2> QED BY <2>2, <2>3 DEF PlacedAt
<1>8. StartOf(e) = SectorSize + EntrySize
  <2>1. SectorSize \div SectorSize = 1 /\ 1 * SectorSize = SectorSize BY <1>1
  <2> QED BY <1>6, <2>1 DEF StartOf
<1>9. StartOf(e) # 0 BY <1>1, <1>8
<1>10. Bytes(e) = SectorSize + EntrySize .. SectorSize + t - 1 BY <1>7, <1>8 DEF Bytes
<1>11. Bytes(e) = Extent(Root) \ RootBytes
  <2>1. Extent(Root) = SectorSize .. SectorSize + t - 1 BY <1>2 DEF t
  <2> QED BY <1>1, <1>4, <1>10, <2>1 DEF RootBytes
<1> QED BY <1>9, <1>11

\* The entries whose ranges count.
Takes(e) == IF e.isfile THEN e.size > 0 ELSE StartOf(e) # 0
\* The range of an entry is the extent of its path, except that the root's own
\* entry is in none; an entry whose range does not count has no extent.
Exact(p, e) ==
  /\ Takes(e) => Bytes(e) = Extent(p) \ RootBytes
  /\ ~ Takes(e) => Extent(p) = {}
  /\ Takes(e) /\ e.isfile => Cardinality(Bytes(e)) = e.size
  /\ e.isfile <=> IsFile(p)
\* They are.
LEMMA EntriesAreExact ==
  ASSUME tree \in Trees, NEW p \in DOMAIN tree, NEW e, e = pack_entry(p)
  PROVE  Exact(p, e)
<1>1. (e.isfile <=> IsFile(p)) /\ e.size = IF IsFile(p) THEN tree[p] ELSE 0 BY EntryIs
<1>2. RootBytes \cap Extent(p) = {} \/ p = Root
  <2>1. ExtentsFit /\ Root \in DOMAIN tree BY ExtentsDoFit, TreeIs
  <2>2. p # Root => Extent(Root) \cap Extent(p) = {} BY <2>1 DEF ExtentsFit
  <2> QED BY <2>2, RootExtent
<1>3. CASE IsFile(p)
  <2> DEFINE i == PlaceIn(p, Files)  a == FileDataOffset + DataAt[i]
  <2>1. i \in 1 .. Len(Files) /\ Files[i] = p
    <3>1. Enumerates(Files, {x \in DOMAIN tree : IsFile(x)}) BY TreeIs
    <3> QED BY <1>3, <3>1, PlaceInIs
  <2>2. FileSizes[i] = tree[p] /\ tree[p] \in Nat /\ FileOffsets[i] = a
    BY <2>1, FilesFill
  <2>3. Extent(p) = Segment(FileOffsets, FileSizes, i) BY <1>3 DEF Extent
  <2> HIDE DEF i
  <2>4. a \in Nat
    <3>1. FilesLie BY FilesAre
    <3>2. i \in 1 .. Len(Files) + 1 BY <2>1, <3>1 DEF FilesLie
    <3> QED BY <3>1, <3>2 DEF FilesLie, Accumulate
  <2>5. Extent(p) = a .. a + tree[p] - 1 BY <2>2, <2>3 DEF Segment
  <2>6. Takes(e) <=> tree[p] > 0 BY <1>1, <1>3 DEF Takes
  <2>7. ~ Takes(e) => Extent(p) = {}
    <3> HIDE DEF a
    <3> QED BY <2>2, <2>4, <2>5, <2>6
  <2>8. ASSUME Takes(e) PROVE Bytes(e) = Extent(p) /\ Cardinality(Bytes(e)) = e.size
    <3>1. StartOf(e) = a /\ EndOf(e) = a + tree[p] - 1 BY <2>1, <2>6, <2>8, FileEntryIs
    <3> HIDE DEF a
    <3>2. Bytes(e) = a .. a + tree[p] - 1 BY <3>1 DEF Bytes
    <3> DEFINE b == a + tree[p] - 1
    <3>3. a \in Int /\ b \in Int /\ ~ (a > b) /\ b - a + 1 = tree[p] BY <2>2, <2>4, <2>6, <2>8
    <3>4. Bytes(e) = a .. b BY <3>2
    <3> HIDE DEF b
    <3>5. Cardinality(Bytes(e)) = tree[p] BY <3>3, <3>4, FS_Interval
    <3> QED BY <1>1, <1>3, <2>5, <3>2, <3>5
  <2>9. p # Root BY <1>3, TreeIs DEF Dirs
  <2> QED BY <1>1, <1>2, <1>3, <2>7, <2>8, <2>9 DEF Exact
<1>4. CASE ~ IsFile(p) /\ p = Root
  <2>1. StartOf(e) # 0 /\ Bytes(e) = Extent(p) \ RootBytes BY <1>4, RootEntryIs
  <2>2. Takes(e) BY <1>1, <1>4, <2>1 DEF Takes
  <2> QED BY <1>1, <1>4, <2>1, <2>2 DEF Exact
<1>5. CASE ~ IsFile(p) /\ p # Root
  <2> DEFINE i == PlaceIn(p, DirOrder)  n == TableLen(p)  a == SectorSize + EntrySize * At(p)
  <2>1. p \in Dirs \ {Root} BY <1>5 DEF Dirs
  <2>2. i \in 1 .. Len(DirOrder) /\ DirOrder[i] = p BY <2>1, TreeIs, PlaceInIs
  <2>3. TableSizes[i] = EntrySize * n /\ TableOffsets[i] = a
    <3>1. TableSizes[i] = EntrySize * n BY <2>2, TablesFill
    <3>2. DirOffset(p) = a BY <2>1, DirOffsetIs
    <3> QED BY <3>1, <3>2 DEF DirOffset
  <2>4. Extent(p) = Segment(TableOffsets, TableSizes, i) BY <1>5 DEF Extent
  <2>5. n \in Nat /\ SectorSize \in Nat \ {0} /\ EntrySize \in Nat \ {0} /\ EntrySize * At(p) \in Nat
    <3>1. At(p) \in Nat /\ n \in Nat BY <2>1, DirOffsetIs, DirEntryIs
    <3>2. SectorSize \in Nat \ {0} /\ EntrySize \in Nat \ {0} BY LuFsAssumption
    <3>3. \A x \in Nat : EntrySize * x \in Nat BY <3>2
    <3> QED BY <3>1, <3>2, <3>3
  <2> HIDE DEF i, n
  <2>6. Extent(p) = a .. a + EntrySize * n - 1 BY <2>3, <2>4 DEF Segment
  <2>7. a \in Nat /\ a # 0 BY <2>5
  <2>8. CASE n = 0
    <3>1. e.place.start_block = 0 /\ e.place.start_byte = 0 BY <2>1, <2>8, DirEntryIs DEF n
    <3>2. StartOf(e) = 0 BY <2>5, <3>1 DEF StartOf
    <3>3. ~ Takes(e) BY <1>1, <1>5, <3>2 DEF Takes
    <3>4. EntrySize * n = 0 BY <2>5, <2>8
    <3> HIDE DEF a
    <3>5. Extent(p) = {} BY <2>6, <2>7, <3>4
    <3> QED BY <1>1, <1>5, <3>3, <3>5 DEF Exact
  <2>9. CASE n > 0
    <3>1. StartOf(e) = a /\ EndOf(e) = a + n * EntrySize - 1 BY <2>1, <2>9, DirEntryIs DEF n
    <3>2. EntrySize * n = n * EntrySize BY <2>5
    <3> HIDE DEF a
    <3>3. Bytes(e) = Extent(p) BY <2>6, <3>1, <3>2 DEF Bytes
    <3>4. Takes(e) BY <1>1, <1>5, <2>7, <3>1 DEF Takes
    <3> QED BY <1>1, <1>2, <1>5, <3>3, <3>4 DEF Exact
  <2> QED BY <2>5, <2>8, <2>9
<1> QED BY <1>3, <1>4, <1>5

\* The image is laid out without gaps and overlaps.
LEMMA ImageFits ==
  ASSUME tree \in Trees
  PROVE  RangesFit(Image)
<1> DEFINE tab == Image.table  N == Len(Tables)
           tables == SectorSize .. SectorSize + EntrySize * Image.entries - 1
           data == Image.base .. Image.base + Len(Image.data) - 1
           T == Taken(Image)
<1>1. ExtentsFit BY ExtentsDoFit
<1>2. Enumerates(Tables, DOMAIN tree) BY TablesEnumerate
<1>3. Image.entries = N BY <1>2, ImageTable DEF Enumerates
<1>4. Image.base = FileDataOffset BY DEF Image
<1>5. DOMAIN tab = 1 .. N /\ \A i \in 1 .. N : tab[i] = pack_entry(Tables[i])
  <2>1. DOMAIN Tables = 1 .. N BY <1>2 DEF Enumerates
  <2> QED BY <2>1 DEF Image
<1>6. tables = TableBytes BY <1>3 DEF TableBytes
<1>7. data = DataBytes BY <1>4 DEF DataBytes
<1>8. \A i \in 1 .. N : Tables[i] \in DOMAIN tree /\ Exact(Tables[i], tab[i])
  BY <1>2, <1>5, EntriesAreExact DEF Enumerates
<1>9. T = {i \in 1 .. N : Takes(tab[i])} BY <1>5 DEF Taken, Takes
<1> HIDE DEF tab, N, tables, data, T
<1>10. ASSUME NEW i \in T
       PROVE  /\ i \in 1 .. N /\ Tables[i] \in DOMAIN tree
              /\ Bytes(tab[i]) = Extent(Tables[i]) \ RootBytes
              /\ tab[i].isfile <=> IsFile(Tables[i])
              /\ tab[i].isfile => Cardinality(Bytes(tab[i])) = tab[i].size
  BY <1>8, <1>9 DEF Exact
<1>11. ASSUME NEW i \in T PROVE Bytes(tab[i]) \subseteq IF tab[i].isfile THEN data ELSE tables
  <2>1. Extent(Tables[i]) \subseteq IF IsFile(Tables[i]) THEN DataBytes ELSE TableBytes
    BY <1>1, <1>10 DEF ExtentsFit
  <2> QED BY <1>6, <1>7, <1>10, <2>1
<1>12. ASSUME NEW i \in T, NEW j \in T, i # j PROVE Bytes(tab[i]) \cap Bytes(tab[j]) = {}
  <2>1. Tables[i] # Tables[j] BY <1>2, <1>10, <1>12 DEF Enumerates, N
  <2>2. Extent(Tables[i]) \cap Extent(Tables[j]) = {} BY <1>1, <1>10, <2>1 DEF ExtentsFit
  <2> QED BY <1>10, <2>2
<1>13. RootBytes \subseteq TableBytes /\ TableBytes \cap DataBytes = {}
  <2>1. Extent(Root) \subseteq TableBytes BY <1>1, TreeIs DEF ExtentsFit, Dirs
  <2> QED BY <1>1, <2>1, RootExtent DEF ExtentsFit
<1>14. ASSUME NEW y \in (tables \ RootBytes) \cup data PROVE \E i \in T : y \in Bytes(tab[i])
  <2>1. y \notin RootBytes BY <1>6, <1>7, <1>13, <1>14
  <2>2. PICK p \in DOMAIN tree : y \in Extent(p) BY <1>1, <1>6, <1>7, <1>14 DEF ExtentsFit
  <2>3. PICK i \in 1 .. N : Tables[i] = p BY <1>2, <2>2 DEF Enumerates, N
  <2>4. Takes(tab[i]) BY <1>8, <2>2, <2>3 DEF Exact
  <2>5. i \in T BY <1>9, <2>4
  <2> QED BY <1>10, <2>1, <2>2, <2>3, <2>5
<1>15. UNION {Bytes(tab[i]) : i \in T} = (tables \ RootBytes) \cup data
  <2>1. ASSUME NEW i \in T, NEW y \in Bytes(tab[i]) PROVE y \in (tables \ RootBytes) \cup data
    BY <1>10, <1>11, <2>1
  <2> QED BY <1>14, <2>1
<1> QED BY <1>10, <1>11, <1>12, <1>15 DEF RangesFit, RootBytes, tab, tables, data, T

\* No walk before the image is made.
NotWalking == phase = "mkfs" => stack = << >>
\* It is what mkfs.py writes of any directory (mkfs.py, pack_entry and the
\* offsets of main): ranges share no byte and fill the tables and the data, and
\* the range of a file is as long as its size.
THEOREM LayoutIsExact == Spec => LayoutExact
<1>1. Init => NotWalking BY DEF Init, NotWalking
<1>2. NotWalking /\ [Next]_vars => NotWalking'
  BY DEF NotWalking, Next, vars, makefs, PrintBegins, PrintSkips, PrintEntry, ExtractBegins,
         ExtractSkips, ExtractFile, ExtractDir, Return, Begin, Skip
<1>3. PackedInv /\ NotWalking /\ [Next]_vars => [phase = "mkfs" => RangesFit(image')]_vars
  <2> SUFFICES ASSUME PackedInv, NotWalking, Next, phase = "mkfs" PROVE RangesFit(image')
    OBVIOUS
  <2>1. makefs
    BY DEF NotWalking, Next, PrintBegins, PrintSkips, PrintEntry, ExtractBegins,
           ExtractSkips, ExtractFile, ExtractDir, Return
  <2>2. image' = Image BY <2>1 DEF makefs
  <2>3. RangesFit(Image) BY ImageFits DEF PackedInv
  <2> QED BY <2>2, <2>3
<1> QED BY <1>1, <1>2, <1>3, LuFsWalks, PTL DEF Spec, LayoutExact
=============================================================================

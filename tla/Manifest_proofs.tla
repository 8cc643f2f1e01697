--------------------------- MODULE Manifest_proofs ---------------------------
(* What the operators on a manifest compute, whatever its entries: sums of   *)
(* sizes and concatenations of payloads, the chunks before an entry, the     *)
(* ranges of a deduplicated manifest, the manifest that compact metadata     *)
(* stand for, how the sizes of entries, chunks and lanes bound one another,  *)
(* and that what the writers of manifests and lanes store is what their      *)
(* readers read.                                                             *)
EXTENDS StreamManifest, SolidLanes, TLAPS, WellFoundedInduction, SequenceTheorems,
        FiniteSetTheorems

(* A set of naturals that is not empty has a smallest member.                *)
LEMMA SmallestNat == ASSUME NEW S, S \subseteq Nat, S # {} PROVE \E n \in S : \A k \in S : n <= k
<1>1. IsWellFoundedOn(OpToRel(<, Nat), Nat) BY NatLessThanWellFounded
<1>2. \E x \in S : \A y \in S : ~ (<<y, x>> \in OpToRel(<, Nat)) BY <1>1, WFMin
<1>3. \A x, y \in Nat : y < x => <<y, x>> \in OpToRel(<, Nat) BY DEF OpToRel
<1>4. \E x \in S : \A y \in S : ~(y < x) BY <1>2, <1>3, Zenon
<1> QED BY <1>4

(* Induction up to N: a set that holds 0, and with n also n + 1, holds 0 ..  *)
(* N.                                                                        *)
LEMMA UpFromZero ==
    ASSUME NEW N \in Nat, NEW S, 0 \in S, \A n \in 0 .. N - 1 : n \in S => n + 1 \in S
    PROVE  0 .. N \subseteq S
<1> SUFFICES ASSUME NEW n \in 0 .. N, n \notin S PROVE FALSE OBVIOUS
<1> DEFINE bad == {k \in 0 .. N : k \notin S}
<1>1. bad \subseteq Nat /\ bad # {} OBVIOUS
<1>2. PICK k \in bad : \A j \in bad : k <= j
  <2> HIDE DEF bad
  <2> QED BY <1>1, SmallestNat
<1>3. k # 0 BY <1>2
<1>4. k - 1 \in 0 .. N - 1 /\ k - 1 \in S BY <1>2, <1>3
<1> QED BY <1>2, <1>4

-----------------------------------------------------------------------------
(* Sum and Concat, term by term.                                             *)

(* The first n terms of s.                                                   *)
Prefix(s, n) == [i \in 1 .. n |-> s[i]]

(* s is a sequence of n terms, whatever they are.                            *)
IsRun(s, n) == s = [i \in 1 .. n |-> s[i]]

(* The sum of a prefix of s grows by the next term.                          *)
Sums(s, N) ==
    /\ Sum(Prefix(s, 0)) = 0
    /\ \A n \in 0 .. N : Sum(Prefix(s, n)) \in Nat
    /\ \A n \in 1 .. N : Sum(Prefix(s, n)) = Sum(Prefix(s, n - 1)) + s[n]

(* The concatenation of a prefix of s, a sequence over T, grows by the next  *)
(* term.                                                                     *)
Concats(s, N, T) ==
    /\ Concat(Prefix(s, 0)) = <<>>
    /\ \A n \in 0 .. N : Concat(Prefix(s, n)) \in Seq(T)
    /\ \A n \in 1 .. N : Concat(Prefix(s, n)) = Concat(Prefix(s, n - 1)) \o s[n]

(* Sum adds up the terms, as the loops over entries and chunks do.           *)
LEMMA SumsUp ==
    ASSUME NEW N \in Nat, NEW s, \A i \in 1 .. N : s[i] \in Nat
    PROVE  Sums(s, N)
<1> DEFINE Table(t, n) == /\ t \in [0 .. n -> Nat]
                          /\ t[0] = 0 /\ \A k \in 1 .. n : t[k] = t[k - 1] + s[k]
           S == {n \in 0 .. N : \E t : Table(t, n)}
<1>1. 0 \in S
  <2>1. Table([k \in 0 .. 0 |-> 0], 0) OBVIOUS
  <2>2. \E t : Table(t, 0)
    <3> HIDE DEF Table
    <3> QED BY <2>1
  <2> QED BY <2>2
<1>2. ASSUME NEW n \in 0 .. N - 1, n \in S PROVE n + 1 \in S
  <2>1. PICK t : Table(t, n) BY <1>2
  <2> DEFINE u == [k \in 0 .. n + 1 |-> IF k = n + 1 THEN t[n] + s[n + 1] ELSE t[k]]
  <2>2. t[n] + s[n + 1] \in Nat BY <2>1
  <2>3. u \in [0 .. n + 1 -> Nat] BY <2>1, <2>2
  <2>4. u[0] = 0 BY <2>1
  <2>5. ASSUME NEW k \in 1 .. n + 1 PROVE u[k] = u[k - 1] + s[k]
    <3>1. k - 1 \in 0 .. n + 1 /\ k - 1 # n + 1 /\ u[k - 1] = t[k - 1] OBVIOUS
    <3>2. CASE k = n + 1 BY <3>1, <3>2
    <3>3. CASE k # n + 1
      <4>1. k \in 1 .. n /\ u[k] = t[k] BY <3>3
      <4> QED BY <2>1, <3>1, <4>1
    <3> QED BY <3>2, <3>3
  <2>6. Table(u, n + 1) BY <2>3, <2>4, <2>5
  <2> HIDE DEF u, Table
  <2>7. n + 1 \in 0 .. N OBVIOUS
  <2> QED BY <2>6, <2>7
<1>3. PICK t : Table(t, N)
  <2> HIDE DEF S
  <2>1. 0 .. N \subseteq S BY <1>1, <1>2, UpFromZero
  <2>2. N \in S BY <2>1
  <2> QED BY <2>2 DEF S
<1>4. ASSUME NEW n \in 0 .. N PROVE Sum(Prefix(s, n)) = t[n]
  <2> DEFINE seq == Prefix(s, n)
             Is(f) == f = [k \in 0 .. Len(seq) |-> IF k = 0 THEN 0 ELSE f[k - 1] + seq[k]]
  <2>1. seq \in Seq(Nat) /\ Len(seq) = n BY LenProperties DEF Prefix
  <2> DEFINE v == [k \in 0 .. n |-> t[k]]
  <2>2. Is(v)
    <3>1. \A k \in 0 .. n : v[k] = IF k = 0 THEN 0 ELSE v[k - 1] + seq[k] BY <1>3 DEF Prefix
    <3>2. v = [k \in 0 .. n |-> IF k = 0 THEN 0 ELSE v[k - 1] + seq[k]]
      <4> HIDE DEF seq
      <4>1. v = [k \in 0 .. n |-> v[k]] OBVIOUS
      <4> HIDE DEF v
      <4> QED BY <3>1, <4>1
    <3> HIDE DEF v, seq
    <3> QED BY <2>1, <3>2
  <2>3. PICK f : Is(f) /\ Sum(seq) = f[Len(seq)]
    <3>1. Is(CHOOSE f : Is(f)) BY <2>2
    <3>2. Sum(seq) = (CHOOSE f : Is(f))[Len(seq)] BY DEF Sum
    <3> QED BY <3>1, <3>2
  <2>4. \A k \in 0 .. n : f[k] = IF k = 0 THEN 0 ELSE f[k - 1] + s[k]
    <3>1. \A k \in 0 .. n : f[k] = IF k = 0 THEN 0 ELSE f[k - 1] + seq[k]
      <4> HIDE DEF seq
      <4> QED BY <2>1, <2>3
    <3>2. \A k \in 0 .. n : k # 0 => seq[k] = s[k] BY DEF Prefix
    <3> QED BY <3>1, <3>2
  <2> DEFINE S2 == {k \in 0 .. n : f[k] = t[k]}
  <2>5. 0 \in S2 BY <1>3, <2>4
  <2>6. ASSUME NEW k \in 0 .. n - 1, k \in S2 PROVE k + 1 \in S2 BY <1>3, <2>4, <2>6
  <2>7. 0 .. n \subseteq S2
    <3> HIDE DEF S2
    <3> QED BY <2>5, <2>6, UpFromZero
  <2> HIDE DEF seq
  <2> QED BY <2>1, <2>3, <2>7 DEF seq
<1> QED BY <1>3, <1>4 DEF Sums

(* Concat joins the terms in their order, as the loops that append to a      *)
(* list do.                                                                  *)
LEMMA ConcatsUp ==
    ASSUME NEW N \in Nat, NEW T, NEW s, \A i \in 1 .. N : s[i] \in Seq(T)
    PROVE  Concats(s, N, T)
<1> DEFINE Table(t, n) == /\ t \in [0 .. n -> Seq(T)]
                          /\ t[0] = <<>> /\ \A k \in 1 .. n : t[k] = t[k - 1] \o s[k]
           S == {n \in 0 .. N : \E t : Table(t, n)}
<1>1. 0 \in S
  <2>1. Table([k \in 0 .. 0 |-> <<>>], 0) OBVIOUS
  <2>2. \E t : Table(t, 0)
    <3> HIDE DEF Table
    <3> QED BY <2>1
  <2> HIDE DEF Table
  <2> QED BY <2>2
<1>2. ASSUME NEW n \in 0 .. N - 1, n \in S PROVE n + 1 \in S
  <2>1. PICK t : Table(t, n) BY <1>2
  <2> DEFINE u == [k \in 0 .. n + 1 |-> IF k = n + 1 THEN t[n] \o s[n + 1] ELSE t[k]]
  <2>2. t[n] \o s[n + 1] \in Seq(T)
    <3>1. t[n] \in Seq(T) /\ s[n + 1] \in Seq(T) BY <2>1
    <3> QED BY <3>1
  <2>3. u \in [0 .. n + 1 -> Seq(T)] BY <2>1, <2>2
  <2>4. u[0] = <<>> BY <2>1
  <2>5. ASSUME NEW k \in 1 .. n + 1 PROVE u[k] = u[k - 1] \o s[k]
    <3>1. k - 1 \in 0 .. n + 1 /\ k - 1 # n + 1 /\ u[k - 1] = t[k - 1] OBVIOUS
    <3>2. CASE k = n + 1
      <4> DEFINE last == t[n] \o s[n + 1]
      <4>1. k - 1 = n BY <3>2
      <4>2. u[k] = last
        <5> HIDE DEF last
        <5> QED BY <3>2
      <4> HIDE DEF u
      <4> QED BY <3>1, <3>2, <4>1, <4>2
    <3>3. CASE k # n + 1
      <4>1. k \in 1 .. n /\ u[k] = t[k] BY <3>3
      <4> QED BY <2>1, <3>1, <4>1
    <3> QED BY <3>2, <3>3
  <2>6. Table(u, n + 1) BY <2>3, <2>4, <2>5
  <2> HIDE DEF u, Table
  <2>7. n + 1 \in 0 .. N OBVIOUS
  <2> QED BY <2>6, <2>7
<1>3. PICK t : Table(t, N)
  <2> HIDE DEF S
  <2>1. 0 .. N \subseteq S BY <1>1, <1>2, UpFromZero
  <2>2. N \in S BY <2>1
  <2> QED BY <2>2 DEF S
<1>4. ASSUME NEW n \in 0 .. N PROVE Concat(Prefix(s, n)) = t[n]
  <2> DEFINE seq == Prefix(s, n)
             Is(f) == f = [k \in 0 .. Len(seq) |-> IF k = 0 THEN <<>> ELSE f[k - 1] \o seq[k]]
  <2>1. seq \in Seq(Seq(T)) /\ Len(seq) = n BY LenProperties DEF Prefix
  <2> DEFINE v == [k \in 0 .. n |-> t[k]]
  <2>2. Is(v)
    <3>1. \A k \in 0 .. n : v[k] = IF k = 0 THEN <<>> ELSE v[k - 1] \o seq[k]
      <4> SUFFICES ASSUME NEW k \in 0 .. n PROVE v[k] = IF k = 0 THEN <<>> ELSE v[k - 1] \o seq[k]
        OBVIOUS
      <4>1. v[k] = t[k] /\ (k # 0 => v[k - 1] = t[k - 1] /\ seq[k] = s[k] /\ k \in 1 .. N)
        BY DEF Prefix
      <4> HIDE DEF v, seq
      <4> QED BY <1>3, <4>1
    <3>2. v = [k \in 0 .. n |-> IF k = 0 THEN <<>> ELSE v[k - 1] \o seq[k]]
      <4> HIDE DEF seq
      <4>1. v = [k \in 0 .. n |-> v[k]] OBVIOUS
      <4> HIDE DEF v
      <4> QED BY <3>1, <4>1
    <3> HIDE DEF v, seq
    <3> QED BY <2>1, <3>2
  <2>3. PICK f : Is(f) /\ Concat(seq) = f[Len(seq)]
    <3>1. Is(CHOOSE f : Is(f)) BY <2>2
    <3>2. Concat(seq) = (CHOOSE f : Is(f))[Len(seq)] BY DEF Concat
    <3> QED BY <3>1, <3>2
  <2>4. \A k \in 0 .. n : f[k] = IF k = 0 THEN <<>> ELSE f[k - 1] \o s[k]
    <3>1. \A k \in 0 .. n : f[k] = IF k = 0 THEN <<>> ELSE f[k - 1] \o seq[k]
      <4> HIDE DEF seq
      <4> QED BY <2>1, <2>3
    <3>2. \A k \in 0 .. n : k # 0 => seq[k] = s[k] BY DEF Prefix
    <3> QED BY <3>1, <3>2
  <2> DEFINE S2 == {k \in 0 .. n : f[k] = t[k]}
  <2>5. 0 \in S2 BY <1>3, <2>4
  <2>6. ASSUME NEW k \in 0 .. n - 1, k \in S2 PROVE k + 1 \in S2
    <3>1. k + 1 \in 0 .. n /\ k + 1 \in 1 .. N /\ k + 1 # 0 /\ (k + 1) - 1 = k OBVIOUS
    <3>2. f[k + 1] = f[k] \o s[k + 1] BY <2>4, <3>1
    <3>3. t[k + 1] = t[k] \o s[k + 1] BY <1>3, <3>1
    <3>4. f[k] = t[k] BY <2>6
    <3> QED BY <3>1, <3>2, <3>3, <3>4
  <2>7. 0 .. n \subseteq S2
    <3>1. n \in Nat OBVIOUS
    <3> HIDE DEF S2, Is, v, seq, Table, S
    <3> QED BY <3>1, <2>5, <2>6, UpFromZero
  <2> HIDE DEF seq
  <2> QED BY <2>1, <2>3, <2>7 DEF seq
<1>5. 0 \in 0 .. N /\ \A n \in 1 .. N : n \in 0 .. N /\ n - 1 \in 0 .. N OBVIOUS
<1>6. \A n \in 0 .. N : t[n] \in Seq(T) BY <1>3
<1>7. \A n \in 1 .. N : t[n] = t[n - 1] \o s[n] BY <1>3
<1>8. t[0] = <<>> BY <1>3
<1> HIDE DEF Table, S
<1> QED BY <1>4, <1>5, <1>6, <1>7, <1>8 DEF Concats

(* A sequence of n terms is its own prefix of n terms.                       *)
LEMMA WholePrefix == ASSUME NEW s, NEW n, IsRun(s, n) PROVE Prefix(s, n) = s
  BY DEF IsRun, Prefix

(* A sum of naturals is a natural.                                           *)
LEMMA SumNat ==
    ASSUME NEW N \in Nat, NEW s, \A i \in 1 .. N : s[i] \in Nat, IsRun(s, N)
    PROVE  Sum(s) \in Nat
<1>1. Sums(s, N) BY SumsUp
<1>2. N \in 0 .. N /\ Prefix(s, N) = s BY WholePrefix
<1> QED BY <1>1, <1>2 DEF Sums

(* A longer prefix has a larger sum, or the same.                            *)
LEMMA SumGrows ==
    ASSUME NEW N \in Nat, NEW s, \A i \in 1 .. N : s[i] \in Nat, NEW i \in 0 .. N, NEW j \in i .. N
    PROVE  Sum(Prefix(s, i)) <= Sum(Prefix(s, j))
<1> DEFINE B(k) == Sum(Prefix(s, k))
           S == {d \in 0 .. N - i : B(i) <= B(i + d)}
<1>1. /\ \A k \in 0 .. N : B(k) \in Nat
      /\ \A k \in 1 .. N : B(k) = B(k - 1) + s[k]
  BY SumsUp DEF Sums
<1> HIDE DEF B
<1>2. 0 \in S
  <2>1. i + 0 = i /\ B(i) \in Nat BY <1>1
  <2> QED BY <2>1
<1>3. ASSUME NEW d \in 0 .. N - i - 1, d \in S PROVE d + 1 \in S
  <2>1. i + (d + 1) \in 1 .. N /\ i + (d + 1) - 1 = i + d /\ i + d \in 0 .. N OBVIOUS
  <2>2. B(i + (d + 1)) = B(i + d) + s[i + (d + 1)] BY <1>1, <2>1
  <2>3. B(i) \in Nat /\ B(i + d) \in Nat /\ s[i + (d + 1)] \in Nat BY <1>1, <2>1
  <2> QED BY <1>3, <2>2, <2>3
<1>4. 0 .. N - i \subseteq S
  <2> HIDE DEF S
  <2> QED BY <1>2, <1>3, UpFromZero
<1>5. j - i \in 0 .. N - i /\ i + (j - i) = j OBVIOUS
<1>6. B(i) <= B(i + (j - i)) BY <1>4, <1>5
<1> QED BY <1>5, <1>6 DEF B

(* The sum of a + b terms is the sum of the first a and of the b that        *)
(* follow.                                                                   *)
LEMMA SumSplits ==
    ASSUME NEW a \in Nat, NEW b \in Nat, NEW s, \A i \in 1 .. a + b : s[i] \in Nat,
           NEW r, \A i \in 1 .. b : r[i] = s[a + i]
    PROVE  Sum(Prefix(s, a + b)) = Sum(Prefix(s, a)) + Sum(Prefix(r, b))
<1> DEFINE P(k) == Sum(Prefix(s, k))
           Q(k) == Sum(Prefix(r, k))
           S == {k \in 0 .. b : P(a + k) = P(a) + Q(k)}
<1>1. /\ \A k \in 0 .. a + b : P(k) \in Nat
      /\ \A k \in 1 .. a + b : P(k) = P(k - 1) + s[k]
  <2>1. a + b \in Nat OBVIOUS
  <2> QED BY <2>1, SumsUp DEF Sums
<1>2. /\ Q(0) = 0 /\ \A k \in 0 .. b : Q(k) \in Nat
      /\ \A k \in 1 .. b : Q(k) = Q(k - 1) + r[k]
  <2>1. \A i \in 1 .. b : r[i] \in Nat OBVIOUS
  <2> QED BY <2>1, SumsUp DEF Sums
<1> HIDE DEF P, Q
<1>3. 0 \in S BY <1>1, <1>2
<1>4. ASSUME NEW k \in 0 .. b - 1, k \in S PROVE k + 1 \in S
  <2>1. a + (k + 1) \in 1 .. a + b /\ a + (k + 1) - 1 = a + k /\ (k + 1) - 1 = k /\ k + 1 \in 1 .. b
        /\ a \in 0 .. a + b /\ a + k \in 0 .. a + b
    OBVIOUS
  <2>2. P(a + (k + 1)) = P(a + k) + s[a + (k + 1)] BY <1>1, <2>1
  <2>3. Q(k + 1) = Q(k) + r[k + 1] BY <1>2, <2>1
  <2>4. P(a) \in Nat /\ P(a + k) \in Nat /\ Q(k) \in Nat /\ r[k + 1] = s[a + (k + 1)]
        /\ r[k + 1] \in Nat
    BY <1>1, <1>2, <2>1
  <2> QED BY <1>4, <2>2, <2>3, <2>4
<1>5. 0 .. b \subseteq S
  <2> HIDE DEF S
  <2> QED BY <1>3, <1>4, UpFromZero
<1> QED BY <1>5 DEF P, Q

(* A longer prefix joins to a sequence at least as long.                     *)
LEMMA ConcatGrows ==
    ASSUME NEW N \in Nat, NEW s, NEW T, Concats(s, N, T), \A i \in 1 .. N : s[i] \in Seq(T),
           NEW i \in 0 .. N, NEW j \in i .. N
    PROVE  Len(Concat(Prefix(s, i))) <= Len(Concat(Prefix(s, j)))
<1> DEFINE B(k) == Concat(Prefix(s, k))
           S == {d \in 0 .. N - i : Len(B(i)) <= Len(B(i + d))}
<1>1. /\ \A k \in 0 .. N : B(k) \in Seq(T)
      /\ \A k \in 1 .. N : B(k) = B(k - 1) \o s[k]
  BY DEF Concats
<1> HIDE DEF B
<1>2. 0 \in S
  <2>1. i + 0 = i /\ Len(B(i)) \in Nat BY <1>1
  <2> QED BY <2>1
<1>3. ASSUME NEW d \in 0 .. N - i - 1, d \in S PROVE d + 1 \in S
  <2> DEFINE top == i + (d + 1)
             low == i + d
  <2>1. top \in 1 .. N /\ top - 1 = low /\ low \in 0 .. N /\ top \in 0 .. N /\ i \in 0 .. N
    OBVIOUS
  <2>2. Len(B(i)) <= Len(B(low)) BY <1>3
  <2> HIDE DEF top, low
  <2>3. B(top) = B(low) \o s[top] BY <1>1, <2>1
  <2>4. B(i) \in Seq(T) /\ B(low) \in Seq(T) /\ s[top] \in Seq(T) BY <1>1, <2>1
  <2>5. Len(B(top)) = Len(B(low)) + Len(s[top])
    <3>1. Len(B(low) \o s[top]) = Len(B(low)) + Len(s[top]) BY <2>4
    <3> QED BY <2>3, <3>1
  <2>6. Len(B(i)) \in Nat /\ Len(B(low)) \in Nat /\ Len(s[top]) \in Nat BY <2>4
  <2>7. Len(B(i)) <= Len(B(top)) BY <2>2, <2>5, <2>6
  <2> QED BY <2>7 DEF top
<1>4. 0 .. N - i \subseteq S
  <2> HIDE DEF S
  <2>1. N - i \in Nat OBVIOUS
  <2> QED BY <1>2, <1>3, <2>1, UpFromZero
<1>5. j - i \in 0 .. N - i /\ i + (j - i) = j OBVIOUS
<1>6. Len(B(i)) <= Len(B(i + (j - i))) BY <1>4, <1>5
<1> QED BY <1>5, <1>6 DEF B

(* Appending the terms one at a time gives the sequence itself.              *)
LEMMA ConcatOfSingles ==
    ASSUME NEW n \in Nat, NEW s, IsRun(s, n)
    PROVE  Concat([i \in 1 .. n |-> <<s[i]>>]) = s
<1> DEFINE one == [i \in 1 .. n |-> <<s[i]>>]
           T == {s[i] : i \in 1 .. n}
           S == {k \in 0 .. n : Concat(Prefix(one, k)) = Prefix(s, k)}
<1>1. \A i \in 1 .. n : one[i] = <<s[i]>> /\ s[i] \in T OBVIOUS
<1>2. IsRun(one, n) BY DEF IsRun
<1>3. \A k \in 0 .. n : Prefix(s, k) \in Seq(T) /\ Len(Prefix(s, k)) = k
  <2>1. ASSUME NEW k \in 0 .. n PROVE Prefix(s, k) \in [1 .. k -> T]
    <3>1. \A i \in 1 .. k : s[i] \in T OBVIOUS
    <3> HIDE DEF T
    <3> QED BY <3>1 DEF Prefix
  <2> HIDE DEF T
  <2> QED BY <2>1
<1> HIDE DEF one, T
<1>4. Concats(one, n, T)
  <2>1. ASSUME NEW i \in 1 .. n PROVE one[i] \in Seq(T)
    <3>1. s[i] \in T BY <1>1
    <3>2. <<s[i]>> \in Seq(T) BY <3>1
    <3> QED BY <1>1, <3>2
  <2> QED BY <2>1, ConcatsUp
<1>5. 0 \in S BY <1>4 DEF Concats, Prefix
<1>6. ASSUME NEW k \in 0 .. n - 1, k \in S PROVE k + 1 \in S
  <2>1. k + 1 \in 1 .. n /\ k + 1 \in 0 .. n /\ (k + 1) - 1 = k /\ k \in 0 .. n OBVIOUS
  <2>2. Concat(Prefix(one, k + 1)) = Prefix(s, k) \o <<s[k + 1]>>
    BY <1>1, <1>4, <1>6, <2>1 DEF Concats
  <2>3. Prefix(s, k) \o <<s[k + 1]>> = Prefix(s, k + 1)
    <3> DEFINE p == Prefix(s, k)
               q == Prefix(s, k + 1)
    <3>1. p \in Seq(T) /\ Len(p) = k /\ q \in Seq(T) /\ Len(q) = k + 1 BY <1>3, <2>1
    <3>2. <<s[k + 1]>> \in Seq(T) /\ Len(<<s[k + 1]>>) = 1 BY <1>1, <2>1
    <3>3. \A i \in 1 .. k : p[i] = s[i] /\ q[i] = s[i] BY DEF Prefix
    <3>4. q[k + 1] = s[k + 1] BY <2>1 DEF Prefix
    <3> HIDE DEF p, q
    <3>5. p \o <<s[k + 1]>> \in Seq(T) /\ Len(p \o <<s[k + 1]>>) = k + 1 BY <3>1, <3>2
    <3>6. \A i \in 1 .. k + 1 : (p \o <<s[k + 1]>>)[i] = q[i] BY <3>1, <3>2, <3>3, <3>4
    <3>7. p \o <<s[k + 1]>> = q BY <3>1, <3>5, <3>6, SeqEqual
    <3> QED BY <3>7 DEF p, q
  <2> QED BY <2>1, <2>2, <2>3
<1>7. 0 .. n \subseteq S
  <2> HIDE DEF S
  <2> QED BY <1>5, <1>6, UpFromZero
<1>8. n \in 0 .. n /\ Prefix(one, n) = one /\ Prefix(s, n) = s BY <1>2, WholePrefix
<1>9. Concat(one) = s BY <1>7, <1>8
<1> QED BY <1>9 DEF one

-----------------------------------------------------------------------------
(* The chunks before an entry.                                               *)

(* What one entry adds to next_chunk.                                        *)
Slot(e) == IF e.kind = "file" THEN e.count ELSE 0

(* ChunksBefore starts at 0, counts the chunks of the files and never        *)
(* decreases.                                                                *)
LEMMA BeforeSteps ==
    ASSUME NEW entries, NEW N \in Nat, \A k \in 1 .. N : Slot(entries[k]) \in Nat
    PROVE  /\ ChunksBefore(entries, 1) = 0
           /\ \A i \in 1 .. N + 1 : ChunksBefore(entries, i) \in Nat
           /\ \A i \in 1 .. N : ChunksBefore(entries, i + 1) = ChunksBefore(entries,
              i) + Slot(entries[i])
           /\ \A i \in 1 .. N + 1 : \A j \in i .. N + 1 : ChunksBefore(entries,
              i) <= ChunksBefore(entries, j)
<1> DEFINE s == [k \in 1 .. N |-> Slot(entries[k])]
<1>1. \A i \in 1 .. N : s[i] \in Nat /\ s[i] = Slot(entries[i]) OBVIOUS
<1>2. ASSUME NEW i \in 1 .. N + 1 PROVE ChunksBefore(entries, i) = Sum(Prefix(s, i - 1))
  <2>1. Prefix(s, i - 1) = [k \in 1 .. i - 1 |-> IF entries[k].kind = "file"
        THEN entries[k].count ELSE 0]
    BY DEF Slot, Prefix
  <2> HIDE DEF s
  <2> QED BY <2>1 DEF ChunksBefore
<1> HIDE DEF s
<1>3. Sums(s, N) BY <1>1, SumsUp
<1>4. ChunksBefore(entries, 1) = 0
  <2>1. 1 \in 1 .. N + 1 /\ 1 - 1 = 0 OBVIOUS
  <2> QED BY <1>2, <1>3, <2>1 DEF Sums
<1>5. \A i \in 1 .. N + 1 : i - 1 \in 0 .. N OBVIOUS
<1>6. \A i \in 1 .. N + 1 : ChunksBefore(entries, i) \in Nat BY <1>2, <1>3, <1>5 DEF Sums
<1>7. ASSUME NEW i \in 1 .. N
      PROVE  ChunksBefore(entries, i + 1) = ChunksBefore(entries, i) + Slot(entries[i])
  <2>1. i + 1 \in 1 .. N + 1 /\ i \in 1 .. N + 1 /\ (i + 1) - 1 = i OBVIOUS
  <2> QED BY <1>1, <1>2, <1>3, <2>1 DEF Sums
<1>8. ASSUME NEW i \in 1 .. N + 1, NEW j \in i .. N + 1
      PROVE  ChunksBefore(entries, i) <= ChunksBefore(entries, j)
  <2>1. i - 1 \in 0 .. N /\ j - 1 \in i - 1 .. N /\ j \in 1 .. N + 1 OBVIOUS
  <2>2. Sum(Prefix(s, i - 1)) <= Sum(Prefix(s, j - 1)) BY <1>1, <2>1, SumGrows
  <2> QED BY <1>2, <2>1, <2>2
<1> QED BY <1>4, <1>6, <1>7, <1>8

-----------------------------------------------------------------------------
(* The manifest of compact metadata.                                         *)

(* A chunk of compact metadata stands for a record of the table: a           *)
(* reference is to a chunk before it.                                        *)
LEMMA ChunkRead ==
    ASSUME NEW md \in CompactForm, ChunksRead(md), NEW i \in DOMAIN md.chunks
    PROVE  ChunkAt(md, i) \in TableRecord
<1>1. md.chunks \in Seq([tag : {0}, size : Nat, digest : DOMAIN LaneOf]
      \cup [tag : {1}, source : Nat])
  BY DEF CompactForm
<1>2. md.chunks[i] \in [tag : {0}, size : Nat, digest : DOMAIN LaneOf]
      \cup [tag : {1}, source : Nat]
  BY <1>1
<1>0. i \in 1 .. Len(md.chunks) /\ i - 1 \in Nat BY <1>1
<1>3. CASE md.chunks[i].tag = 0
  <2>1. md.chunks[i] \in [tag : {0}, size : Nat, digest : DOMAIN LaneOf] BY <1>2, <1>3
  <2> QED BY <1>0, <1>3, <2>1 DEF ChunkAt, TableRecord
<1>4. CASE md.chunks[i].tag # 0
  <2>1. md.chunks[i] \in [tag : {1}, source : Nat] BY <1>2, <1>4
  <2> DEFINE j == md.chunks[i].source + 1
  <2>2. j < i /\ md.chunks[j].tag = 0 BY <1>4, <2>1 DEF ChunksRead
  <2>3. md.chunks[i].source \in Nat BY <2>1
  <2>4. j \in 1 .. Len(md.chunks) BY <1>0, <2>2, <2>3
  <2>5. md.chunks[j] \in [tag : {0}, size : Nat, digest : DOMAIN LaneOf] BY <1>1, <2>2, <2>4
  <2> QED BY <1>4, <2>3, <2>5 DEF ChunkAt, TableRecord
<1> QED BY <1>3, <1>4

(* An entry of compact metadata stands for an entry record, with the range   *)
(* and the size that its chunks give it.                                     *)
LEMMA EntryRead ==
    ASSUME NEW md \in CompactForm, ChunksRead(md), ChunksCovered(md), NEW i \in DOMAIN md.entries
    PROVE  EntryAt(md, i) \in EntryRecord
<1> DEFINE N == Len(md.entries)
           e == md.entries[i]
           B(k) == ChunksBefore(md.entries, k)
<1>1. md.entries \in Seq([kind : {"file", "dir"}, path : RecordPath, count : Nat, digest : Digest])
  BY DEF CompactForm
<1>2. N \in Nat /\ DOMAIN md.entries = 1 .. N /\ i \in 1 .. N BY <1>1
<1>3. \A k \in 1 .. N : md.entries[k] \in [kind : {"file", "dir"}, path : RecordPath, count :
      Nat, digest : Digest]
  <2> DEFINE T == [kind : {"file", "dir"}, path : RecordPath, count : Nat, digest : Digest]
             es == md.entries
  <2>1. es \in Seq(T) BY <1>1
  <2> HIDE DEF T, es
  <2>2. \A k \in 1 .. Len(es) : es[k] \in T BY <2>1
  <2> QED BY <2>2 DEF T, es
<1>4. \A k \in 1 .. N : Slot(md.entries[k]) \in Nat BY <1>3 DEF Slot
<1>5. ZeroHash \in Digest BY DEF Digest
<1>6. CASE e.kind = "dir" BY <1>2, <1>3, <1>5, <1>6 DEF EntryAt, DirEntry, EntryRecord
<1>7. CASE e.kind = "file"
  <2>1. B(i) \in Nat /\ B(i + 1) = B(i) + e.count /\ B(i + 1) <= B(N + 1)
    <3>1. B(i) \in Nat /\ B(i + 1) = B(i) + Slot(e) 
      <4>1. \A k \in 1 .. N : /\ ChunksBefore(md.entries, k) \in Nat
                              /\ ChunksBefore(md.entries, k + 1) = ChunksBefore(md.entries,
                                 k) + Slot(md.entries[k])
        <5> HIDE DEF N
        <5>1. \A k \in 1 .. N : k \in 1 .. N + 1 BY <1>2
        <5> QED BY <1>2, <1>4, <5>1, BeforeSteps
      <4> QED BY <1>2, <4>1
    <3>2. i + 1 \in 1 .. N + 1 /\ N + 1 \in i + 1 .. N + 1 BY <1>2
    <3>3. B(i + 1) <= B(N + 1)
      <4> HIDE DEF N
      <4> QED BY <1>2, <1>4, <3>2, BeforeSteps
    <3> QED BY <1>7, <3>1, <3>3 DEF Slot
  <2>2. B(N + 1) = Len(md.chunks) /\ FirstChunk(md, i) = B(i) BY DEF ChunksCovered, FirstChunk
  <2> DEFINE s == [k \in 1 .. e.count |-> ChunkAt(md, FirstChunk(md, i) + k).size]
  <2>3. e.count \in Nat BY <1>2, <1>3
  <2>4. ASSUME NEW k \in 1 .. e.count PROVE s[k] \in Nat
    <3>1. md.chunks \in Seq([tag : {0}, size : Nat, digest : DOMAIN LaneOf]
          \cup [tag : {1}, source : Nat])
      BY DEF CompactForm
    <3>2. Len(md.chunks) \in Nat /\ DOMAIN md.chunks = 1 .. Len(md.chunks) BY <3>1
    <3>3. B(i) + k \in DOMAIN md.chunks
      <4> HIDE DEF B, e
      <4> QED BY <2>1, <2>2, <2>3, <3>2
    <3>4. ChunkAt(md, FirstChunk(md, i) + k) \in TableRecord
      <4> HIDE DEF B, e
      <4> QED BY <2>2, <3>3, ChunkRead
    <3>5. ChunkAt(md, FirstChunk(md, i) + k).size \in Nat BY <3>4 DEF TableRecord
    <3> QED BY <3>5
  <2>5. Sum(s) \in Nat
    <3>1. IsRun(s, e.count) BY DEF IsRun
    <3> HIDE DEF s, e
    <3> QED BY <2>3, <2>4, <3>1, SumNat
  <2>6. EntryAt(md, i) = FileEntry(e.path, Sum(s), FirstChunk(md, i), e.count, e.digest)
    BY <1>7 DEF EntryAt
  <2>7. e.path \in RecordPath /\ e.digest \in Digest BY <1>2, <1>3
  <2> HIDE DEF s, e
  <2> QED BY <2>1, <2>2, <2>3, <2>5, <2>6, <2>7 DEF FileEntry, EntryRecord
<1> QED BY <1>2, <1>3, <1>6, <1>7

(* The compact metadata that the parser accepts stand for a manifest.        *)
LEMMA ExpandedIsManifest ==
    ASSUME NEW md \in CompactForm, ChunksRead(md), ChunksCovered(md)
    PROVE  Expanded(md) \in ManifestFields
<1> DEFINE es == [i \in 1 .. Len(md.entries) |-> EntryAt(md, i)]
           cs == [i \in 1 .. Len(md.chunks) |-> ChunkAt(md, i)]
<1>1. /\ md.kind \in {"file", "folder"} /\ md.root \in RecordPath
      /\ Len(md.entries) \in Nat /\ DOMAIN md.entries = 1 .. Len(md.entries)
      /\ Len(md.chunks) \in Nat /\ DOMAIN md.chunks = 1 .. Len(md.chunks)
  BY DEF CompactForm
<1>2. es \in Seq(EntryRecord) /\ cs \in Seq(TableRecord)
  <2>1. \A i \in 1 .. Len(md.entries) : EntryAt(md, i) \in EntryRecord BY <1>1, EntryRead
  <2>2. \A i \in 1 .. Len(md.chunks) : ChunkAt(md, i) \in TableRecord BY <1>1, ChunkRead
  <2> QED BY <1>1, <2>1, <2>2
<1>3. Concat([i \in DOMAIN md.entries |-> <<EntryAt(md, i)>>]) = es
  <2>1. IsRun(es, Len(md.entries)) BY DEF IsRun
  <2>2. [i \in DOMAIN md.entries |-> <<EntryAt(md,
        i)>>] = [i \in 1 .. Len(md.entries) |-> <<es[i]>>]
    BY <1>1
  <2> HIDE DEF es
  <2> QED BY <1>1, <2>1, <2>2, ConcatOfSingles
<1>4. Chunks(md) = cs
  <2>1. IsRun(cs, Len(md.chunks)) BY DEF IsRun
  <2>2. [i \in DOMAIN md.chunks |-> <<ChunkAt(md, i)>>] = [i \in 1 .. Len(md.chunks) |-> <<cs[i]>>]
    BY <1>1
  <2> HIDE DEF cs
  <2> QED BY <1>1, <2>1, <2>2, ConcatOfSingles DEF Chunks
<1> HIDE DEF es, cs
<1> QED BY <1>1, <1>2, <1>3, <1>4 DEF Expanded, ManifestFields

-----------------------------------------------------------------------------
(* The ranges of a manifest that was read.                                   *)

(* The entries and the chunks of a manifest are sequences of records.        *)
LEMMA EntriesListed ==
    ASSUME NEW manifest \in ManifestFields
    PROVE  /\ Len(manifest.entries) \in Nat /\ DOMAIN manifest.entries = 1 .. Len(manifest.entries)
           /\ Len(manifest.chunks) \in Nat /\ DOMAIN manifest.chunks = 1 .. Len(manifest.chunks)
           /\ \A i \in 1 .. Len(manifest.entries) : manifest.entries[i] \in EntryRecord
           /\ \A i \in 1 .. Len(manifest.chunks) : manifest.chunks[i] \in TableRecord
<1> DEFINE es == manifest.entries
           cs == manifest.chunks
<1>1. es \in Seq(EntryRecord) /\ cs \in Seq(TableRecord) BY DEF ManifestFields
<1> HIDE DEF es, cs
<1>2. /\ Len(es) \in Nat /\ DOMAIN es = 1 .. Len(es)
      /\ Len(cs) \in Nat /\ DOMAIN cs = 1 .. Len(cs)
      /\ \A i \in 1 .. Len(es) : es[i] \in EntryRecord
      /\ \A i \in 1 .. Len(cs) : cs[i] \in TableRecord
  BY <1>1
<1> QED BY <1>2 DEF es, cs

(* The chunks before each entry, as RangesCover leaves them: within the      *)
(* table, in order, the file's own range next.                               *)
RangesOf(manifest) ==
    /\ ChunksBefore(manifest.entries, 1) = 0
    /\ \A i \in 1 .. Len(manifest.entries) :
          /\ ChunksBefore(manifest.entries, i) \in Nat
          /\ ChunksBefore(manifest.entries, i + 1) \in ChunksBefore(manifest.entries,
             i) .. Len(manifest.chunks)
          /\ manifest.entries[i].kind = "dir" =>
                ChunksBefore(manifest.entries, i + 1) = ChunksBefore(manifest.entries, i)
          /\ manifest.entries[i].kind = "file" =>
                /\ manifest.entries[i].first = ChunksBefore(manifest.entries, i)
                /\ manifest.entries[i].first + manifest.entries[i].count
                      = ChunksBefore(manifest.entries, i + 1)

(* A manifest that RangesCover accepts gives every file the range of chunks  *)
(* that starts where the previous one ends.                                  *)
LEMMA RangesRead ==
    ASSUME NEW manifest \in ManifestFields, RangesCover(manifest) PROVE RangesOf(manifest)
<1> DEFINE es == manifest.entries
           N == Len(manifest.entries)
<1>1. /\ N \in Nat /\ DOMAIN es = 1 .. N /\ \A i \in 1 .. N : es[i] \in EntryRecord
      /\ Len(manifest.chunks) \in Nat
  BY EntriesListed
<1>2. \A i \in 1 .. N : Slot(es[i]) \in Nat /\ es[i].kind \in {"file", "dir"}
  <2> HIDE DEF es, N
  <2> QED BY <1>1 DEF Slot, EntryRecord
<1>3. /\ \A i \in 1 .. N : es[i].kind = "file" => es[i].first = ChunksBefore(es, i)
      /\ ChunksBefore(es, N + 1) = Len(manifest.chunks)
  BY <1>1 DEF RangesCover
<1> SUFFICES /\ ChunksBefore(es, 1) = 0
             /\ \A i \in 1 .. N :
                   /\ ChunksBefore(es, i) \in Nat
                   /\ ChunksBefore(es, i + 1) \in ChunksBefore(es, i) .. Len(manifest.chunks)
                   /\ es[i].kind = "dir" => ChunksBefore(es, i + 1) = ChunksBefore(es, i)
                   /\ es[i].kind = "file" =>
                         /\ es[i].first = ChunksBefore(es, i)
                         /\ es[i].first + es[i].count = ChunksBefore(es, i + 1)
  BY DEF RangesOf
<1> HIDE DEF es, N
<1>4. /\ ChunksBefore(es, 1) = 0
      /\ \A i \in 1 .. N + 1 : ChunksBefore(es, i) \in Nat
      /\ \A i \in 1 .. N : ChunksBefore(es, i + 1) = ChunksBefore(es, i) + Slot(es[i])
  BY <1>1, <1>2, BeforeSteps
<1>5. ASSUME NEW i \in 1 .. N
      PROVE  /\ ChunksBefore(es, i) \in Nat
             /\ ChunksBefore(es, i + 1) \in ChunksBefore(es, i) .. Len(manifest.chunks)
             /\ es[i].kind = "dir" => ChunksBefore(es, i + 1) = ChunksBefore(es, i)
             /\ es[i].kind = "file" =>
                   /\ es[i].first = ChunksBefore(es, i)
                   /\ es[i].first + es[i].count = ChunksBefore(es, i + 1)
  <2>1. i \in 1 .. N + 1 /\ i + 1 \in 1 .. N + 1 /\ N + 1 \in i + 1 .. N + 1 BY <1>1
  <2>2. ChunksBefore(es, i + 1) <= ChunksBefore(es, N + 1) BY <1>1, <1>2, <2>1, BeforeSteps
  <2>3. /\ ChunksBefore(es, i) \in Nat /\ ChunksBefore(es, i + 1) \in Nat
        /\ ChunksBefore(es, i + 1) = ChunksBefore(es, i) + Slot(es[i])
        /\ Slot(es[i]) \in Nat /\ es[i].kind \in {"file", "dir"}
    BY <1>2, <1>4, <2>1
  <2>4. ChunksBefore(es, i + 1) \in ChunksBefore(es, i) .. Len(manifest.chunks)
    BY <1>1, <1>3, <2>2, <2>3
  <2>5. es[i].kind = "dir" => ChunksBefore(es, i + 1) = ChunksBefore(es, i) BY <2>3 DEF Slot
  <2>6. es[i].kind = "file" => es[i].first = ChunksBefore(es, i)
        /\ es[i].first + es[i].count = ChunksBefore(es, i + 1)
    BY <1>3, <2>3 DEF Slot
  <2> QED BY <2>3, <2>4, <2>5, <2>6
<1> QED BY <1>4, <1>5

-----------------------------------------------------------------------------
(* The sizes that a manifest gives.                                          *)

(* The sizes of the entries.                                                 *)
EntrySizes(manifest) == [i \in 1 .. Len(manifest.entries) |-> manifest.entries[i].size]

(* The sizes of the chunks.                                                  *)
ChunkSizes(manifest) == [i \in 1 .. Len(manifest.chunks) |-> manifest.chunks[i].size]

(* The bytes of the entries before entry i.                                  *)
SizesBefore(manifest, i) == Sum(Prefix(EntrySizes(manifest), i - 1))

(* The sizes of the chunks of file e.                                        *)
SliceSizes(manifest, e) == [k \in 1 .. e.count |-> manifest.chunks[e.first + k].size]

(* The bytes before an entry grow by the size of the entry, up to the total  *)
(* size.                                                                     *)
LEMMA SizeSteps ==
    ASSUME NEW manifest \in ManifestFields
    PROVE  /\ SizesBefore(manifest, 1) = 0
           /\ TotalSize(manifest) \in Nat
           /\ \A i \in 1 .. Len(manifest.entries) + 1 :
                 SizesBefore(manifest, i) \in Nat /\ SizesBefore(manifest, i) <= TotalSize(manifest)
           /\ \A i \in 1 .. Len(manifest.entries) :
                 /\ SizesBefore(manifest, i + 1) = SizesBefore(manifest,
                    i) + manifest.entries[i].size
                 /\ manifest.entries[i].size \in Nat
<1> DEFINE N == Len(manifest.entries)
           s == EntrySizes(manifest)
<1>1. N \in Nat /\ DOMAIN manifest.entries = 1 .. N
      /\ \A i \in 1 .. N : manifest.entries[i].size \in Nat
  BY EntriesListed DEF EntryRecord
<1>2. \A i \in 1 .. N : s[i] = manifest.entries[i].size /\ s[i] \in Nat BY <1>1 DEF EntrySizes
<1>3. IsRun(s, N) BY DEF IsRun, EntrySizes
<1>4. TotalSize(manifest) = Sum(Prefix(s, N))
  <2>1. TotalSize(manifest) = Sum(s) BY <1>1 DEF TotalSize, EntrySizes
  <2> QED BY <1>3, <2>1, WholePrefix
<1>5. \A i : SizesBefore(manifest, i) = Sum(Prefix(s, i - 1)) BY DEF SizesBefore
<1> HIDE DEF N, s
<1>6. Sums(s, N) BY <1>1, <1>2, SumsUp
<1>7. SizesBefore(manifest, 1) = 0
  <2>1. 1 - 1 = 0 OBVIOUS
  <2> QED BY <1>5, <1>6, <2>1 DEF Sums
<1>8. ASSUME NEW i \in 1 .. N + 1
      PROVE  SizesBefore(manifest, i) \in Nat /\ SizesBefore(manifest, i) <= TotalSize(manifest)
  <2>1. i - 1 \in 0 .. N /\ N \in i - 1 .. N BY <1>1
  <2>2. Sum(Prefix(s, i - 1)) <= Sum(Prefix(s, N)) BY <1>1, <1>2, <2>1, SumGrows
  <2> QED BY <1>4, <1>5, <1>6, <2>1, <2>2 DEF Sums
<1>9. ASSUME NEW i \in 1 .. N
      PROVE  /\ SizesBefore(manifest, i + 1) = SizesBefore(manifest, i) + manifest.entries[i].size
             /\ manifest.entries[i].size \in Nat
  <2>1. (i + 1) - 1 = i OBVIOUS
  <2> QED BY <1>2, <1>5, <1>6, <2>1 DEF Sums
<1>10. TotalSize(manifest) \in Nat
  <2>1. N \in 0 .. N BY <1>1
  <2> QED BY <1>4, <1>6, <2>1 DEF Sums
<1> QED BY <1>7, <1>8, <1>9, <1>10 DEF N

(* The chunks of a file lie in the table and their sizes add up to the size  *)
(* of the file.                                                              *)
LEMMA SliceSteps ==
    ASSUME NEW manifest \in ManifestFields, RangesOf(manifest), SizesAddUp(manifest),
           NEW i \in 1 .. Len(manifest.entries), manifest.entries[i].kind = "file"
    PROVE  LET e == manifest.entries[i]
               W(k) == Sum(Prefix(SliceSizes(manifest, e), k))
           IN  /\ e.count \in Nat /\ e.first \in Nat /\ e.first + e.count <= Len(manifest.chunks)
               /\ W(0) = 0 /\ W(e.count) = e.size
               /\ \A k \in 0 .. e.count : W(k) \in Nat /\ W(k) <= e.size
               /\ \A k \in 0 .. e.count - 1 :
                     W(k + 1) = W(k) + manifest.chunks[e.first + k + 1].size
               /\ \A k \in 1 .. e.count : SliceSizes(manifest,
                  e)[k] = manifest.chunks[e.first + k].size
                                          /\ SliceSizes(manifest, e)[k] \in Nat
<1> DEFINE e == manifest.entries[i]
           s == SliceSizes(manifest, e)
           cs == manifest.chunks
           W(k) == Sum(Prefix(s, k))
<1>1. /\ e \in EntryRecord /\ Len(cs) \in Nat /\ \A k \in 1 .. Len(cs) : cs[k] \in TableRecord
      /\ i \in DOMAIN manifest.entries
  BY EntriesListed
<1>2. e.count \in Nat /\ e.first \in Nat /\ e.first + e.count <= Len(cs)
  <2>1. e.count \in Nat /\ e.first \in Nat BY <1>1 DEF EntryRecord
  <2>2. e.first + e.count \in ChunksBefore(manifest.entries, i) .. Len(cs) BY DEF RangesOf
  <2> QED BY <1>1, <2>1, <2>2
<1>3. ASSUME NEW k \in 1 .. e.count PROVE s[k] = cs[e.first + k].size /\ s[k] \in Nat
  <2>1. s[k] = cs[e.first + k].size BY DEF SliceSizes
  <2>2. e.first + k \in 1 .. Len(cs)
    <3> HIDE DEF e, cs
    <3> QED BY <1>1, <1>2
  <2>3. cs[e.first + k].size \in Nat BY <1>1, <2>2 DEF TableRecord
  <2> QED BY <2>1, <2>3
<1>4. IsRun(s, e.count) BY DEF IsRun, SliceSizes
<1>5. e.size = Sum(s) BY <1>1 DEF SizesAddUp, SliceSizes
<1> HIDE DEF s, e, cs
<1>6. Sums(s, e.count) BY <1>2, <1>3, SumsUp
<1>7. W(0) = 0 /\ W(e.count) = e.size BY <1>4, <1>5, <1>6, WholePrefix DEF Sums
<1>8. ASSUME NEW k \in 0 .. e.count PROVE W(k) \in Nat /\ W(k) <= e.size
  <2>1. e.count \in k .. e.count BY <1>2
  <2>2. W(k) <= W(e.count) BY <1>2, <1>3, <2>1, SumGrows
  <2> QED BY <1>6, <1>7, <2>2 DEF Sums
<1>9. ASSUME NEW k \in 0 .. e.count - 1 PROVE W(k + 1) = W(k) + cs[e.first + k + 1].size
  <2>1. k + 1 \in 1 .. e.count /\ (k + 1) - 1 = k /\ e.first + (k + 1) = e.first + k + 1 BY <1>2
  <2> QED BY <1>3, <1>6, <2>1 DEF Sums
<1> QED BY <1>2, <1>3, <1>7, <1>8, <1>9 DEF e, s, cs

(* The chunks of the table take no more bytes than the entries: every chunk  *)
(* is in the range of a file.                                                *)
LEMMA ChunksSum ==
    ASSUME NEW manifest \in ManifestFields, RangesOf(manifest), SizesAddUp(manifest),
           ChunksBefore(manifest.entries, Len(manifest.entries) + 1) = Len(manifest.chunks)
    PROVE  /\ Sum(Prefix(ChunkSizes(manifest), Len(manifest.chunks))) <= TotalSize(manifest)
           /\ \A i \in 1 .. Len(manifest.chunks) : ChunkSizes(manifest)[i] = manifest.chunks[i].size
                                                   /\ manifest.chunks[i].size \in Nat
<1> DEFINE N == Len(manifest.entries)
           L == Len(manifest.chunks)
           cs == ChunkSizes(manifest)
           B(i) == ChunksBefore(manifest.entries, i)
           P(k) == Sum(Prefix(cs, k))
           Z(i) == SizesBefore(manifest, i)
           S == {i \in 0 .. N : P(B(i + 1)) <= Z(i + 1)}
<1>1. /\ N \in Nat /\ L \in Nat /\ \A i \in 1 .. N : manifest.entries[i] \in EntryRecord
      /\ \A i \in 1 .. L : manifest.chunks[i] \in TableRecord
  BY EntriesListed
<1>2. \A i \in 1 .. L : cs[i] = manifest.chunks[i].size /\ cs[i] \in Nat
  BY <1>1 DEF ChunkSizes, TableRecord
<1>3. /\ B(1) = 0
      /\ \A i \in 1 .. N : B(i) \in Nat /\ B(i + 1) \in B(i) .. L
  BY DEF RangesOf
<1>4. /\ Z(1) = 0 /\ \A i \in 1 .. N + 1 : Z(i) \in Nat /\ Z(i) <= TotalSize(manifest)
      /\ \A i \in 1 .. N : Z(i + 1) = Z(i) + manifest.entries[i].size
         /\ manifest.entries[i].size \in Nat
  BY SizeSteps
<1>5. Sums(cs, L)
  <2> HIDE DEF cs, L
  <2> QED BY <1>1, <1>2, SumsUp
<1>6. \A k \in 0 .. L : P(k) \in Nat BY <1>5 DEF Sums
<1>7. 0 \in S
  <2>1. P(0) = 0 /\ 0 + 1 = 1 BY <1>5 DEF Sums
  <2> HIDE DEF P, B, Z, N
  <2> QED BY <1>1, <1>3, <1>4, <2>1
<1>8. ASSUME NEW i \in 0 .. N - 1, i \in S PROVE i + 1 \in S
  <2> DEFINE j == i + 1
             e == manifest.entries[j]
  <2>1. j \in 1 .. N BY <1>1
  <2>2. P(B(j)) <= Z(j) BY <1>8
  <2>3. CASE e.kind = "dir"
    <3>1. B(j + 1) = B(j) BY <2>1, <2>3 DEF RangesOf
    <3>2. B(j) \in 0 .. L BY <1>1, <1>3, <2>1
    <3>3. P(B(j)) \in Nat
      <4> HIDE DEF P, B, L
      <4> QED BY <1>6, <3>2
    <3>4. Z(j) \in Nat /\ e.size \in Nat /\ Z(j + 1) = Z(j) + e.size
      <4>1. j \in 1 .. N + 1 BY <1>1, <2>1
      <4> HIDE DEF Z, N, j
      <4> QED BY <1>4, <2>1, <4>1
    <3>5. j + 1 \in 1 .. N + 1 BY <1>1, <2>1
    <3> HIDE DEF P, B, Z, N, e
    <3> QED BY <2>1, <2>2, <3>1, <3>3, <3>4, <3>5
  <2>4. CASE e.kind = "file"
    <3>1. e.first = B(j) /\ e.first + e.count = B(j + 1) BY <2>1, <2>4 DEF RangesOf
    <3> DEFINE r == SliceSizes(manifest, e)
    <3>2. /\ e.count \in Nat /\ e.first \in Nat /\ e.first + e.count <= L
          /\ Sum(Prefix(r, e.count)) = e.size
          /\ \A k \in 1 .. e.count : r[k] = manifest.chunks[e.first + k].size
      BY <2>1, <2>4, SliceSteps
    <3> HIDE DEF cs, e, r, L
    <3>3. \A k \in 1 .. e.first + e.count : cs[k] \in Nat BY <1>1, <1>2, <3>2
    <3>4. \A k \in 1 .. e.count : r[k] = cs[e.first + k]
      <4> SUFFICES ASSUME NEW k \in 1 .. e.count PROVE r[k] = cs[e.first + k] OBVIOUS
      <4>1. e.first + k \in 1 .. L BY <1>1, <3>2
      <4> QED BY <1>2, <3>2, <4>1
    <3>5. P(e.first + e.count) = P(e.first) + Sum(Prefix(r, e.count)) 
      <4> DEFINE a == e.first
                 b == e.count
      <4>1. a \in Nat /\ b \in Nat BY <3>2
      <4>2. \A k \in 1 .. a + b : cs[k] \in Nat BY <3>3
      <4>3. \A k \in 1 .. b : r[k] = cs[a + k] BY <3>4
      <4> HIDE DEF a, b, P
      <4>4. Sum(Prefix(cs, a + b)) = Sum(Prefix(cs, a)) + Sum(Prefix(r, b))
        BY <4>1, <4>2, <4>3, SumSplits
      <4> QED BY <4>4 DEF a, b, P
    <3>6. Z(j + 1) = Z(j) + e.size /\ Z(j) \in Nat /\ e.size \in Nat BY <1>4, <2>1 DEF e
    <3>7. P(e.first) \in Nat BY <1>1, <1>6, <3>2
    <3>8. P(B(j + 1)) <= Z(j + 1)
      <4> HIDE DEF P, B, Z
      <4> QED BY <2>2, <3>1, <3>2, <3>5, <3>6, <3>7
    <3> QED BY <2>1, <3>8
  <2>5. e.kind \in {"file", "dir"} BY <1>1, <2>1 DEF EntryRecord
  <2> QED BY <2>3, <2>4, <2>5
<1>9. N \in S
  <2> HIDE DEF S, N
  <2>1. 0 .. N \subseteq S BY <1>1, <1>7, <1>8, UpFromZero
  <2> QED BY <1>1, <2>1
<1>10. P(L) <= Z(N + 1) BY <1>9
<1>11. Z(N + 1) <= TotalSize(manifest) /\ Z(N + 1) \in Nat /\ TotalSize(manifest) \in Nat
  <2>1. N + 1 \in 1 .. N + 1 BY <1>1
  <2> QED BY <1>4, <2>1, SizeSteps
<1>12. P(L) \in Nat
  <2>1. L \in 0 .. L BY <1>1
  <2> QED BY <1>6, <2>1
<1>13. P(L) <= TotalSize(manifest)
  <2> HIDE DEF P, Z, N, L
  <2> QED BY <1>10, <1>11, <1>12
<1> QED BY <1>2, <1>13

-----------------------------------------------------------------------------
(* The sizes of the unique chunks and of their lanes.                        *)

(* The sizes of a sequence of records.                                       *)
RecordSizes(rs) == [k \in 1 .. Len(rs) |-> rs[k].size]

(* The bytes of a sequence of records.                                       *)
RecordSum(rs) == Sum(Prefix(RecordSizes(rs), Len(rs)))

(* A record appended adds its size.                                          *)
LEMMA RecordAppended ==
    ASSUME NEW rs \in Seq(TableRecord), NEW c \in TableRecord
    PROVE  RecordSum(rs \o <<c>>) = RecordSum(rs) + c.size
<1> DEFINE n == Len(rs)
           t == rs \o <<c>>
           z == RecordSizes(t)
<1>1. n \in Nat /\ t \in Seq(TableRecord) /\ Len(t) = n + 1 /\ t[n + 1] = c
      /\ \A k \in 1 .. n : t[k] = rs[k]
  OBVIOUS
<1>2. \A k \in 1 .. n + 1 : t[k] \in TableRecord
  <2> HIDE DEF t, n
  <2> QED BY <1>1
<1>3. \A k \in 1 .. n + 1 : z[k] = t[k].size /\ z[k] \in Nat
  <2> HIDE DEF t, n
  <2> QED BY <1>1, <1>2 DEF RecordSizes, TableRecord
<1>4. Prefix(z, n) = Prefix(RecordSizes(rs), n)
  <2>1. \A k \in 1 .. n : z[k] = RecordSizes(rs)[k]
    <3> HIDE DEF t, z
    <3>1. \A k \in 1 .. n : z[k] = t[k].size BY <1>1, <1>3
    <3> QED BY <1>1, <3>1 DEF RecordSizes
  <2> HIDE DEF t, z
  <2> QED BY <2>1 DEF Prefix
<1> HIDE DEF t, z, n
<1>5. Sums(z, n + 1) BY <1>1, <1>3, SumsUp
<1>6. Sum(Prefix(z, n + 1)) = Sum(Prefix(z, n)) + z[n + 1]
  <2>1. n + 1 \in 1 .. n + 1 /\ (n + 1) - 1 = n BY <1>1
  <2> QED BY <1>5, <2>1 DEF Sums
<1>7. z[n + 1] = c.size
  <2>1. n + 1 \in 1 .. n + 1 BY <1>1
  <2> QED BY <1>1, <1>3, <2>1
<1>8. RecordSum(t) = Sum(Prefix(z, n + 1)) BY <1>1 DEF RecordSum, z
<1>9. RecordSum(rs) = Sum(Prefix(RecordSizes(rs), n)) BY DEF RecordSum, n
<1> QED BY <1>4, <1>6, <1>7, <1>8, <1>9 DEF t

(* The unique chunks take no more bytes than all the chunks.                 *)
LEMMA UniqueFits ==
    ASSUME NEW manifest \in ManifestFields
    PROVE  /\ UniqueRecords(manifest) \in Seq(TableRecord)
           /\ RecordSum(UniqueRecords(manifest)) \in Nat
           /\ RecordSum(UniqueRecords(manifest))
                 <= Sum(Prefix(ChunkSizes(manifest), Len(manifest.chunks)))
<1> DEFINE L == Len(manifest.chunks)
           cs == manifest.chunks
           unique == Unique(manifest.chunks)
           s == [i \in 1 .. L |-> IF i \in unique THEN <<cs[i]>> ELSE <<>>]
           z == ChunkSizes(manifest)
           R(n) == Concat(Prefix(s, n))
           P(n) == Sum(Prefix(z, n))
           S == {n \in 0 .. L : RecordSum(R(n)) \in Nat /\ RecordSum(R(n)) <= P(n)}
<1>1. /\ L \in Nat /\ DOMAIN cs = 1 .. L /\ \A i \in 1 .. L : cs[i] \in TableRecord
  BY EntriesListed
<1>2. \A i \in 1 .. L : z[i] = cs[i].size /\ z[i] \in Nat BY <1>1 DEF ChunkSizes, TableRecord
<1>3. \A i \in 1 .. L : s[i] = IF i \in unique THEN <<cs[i]>> ELSE <<>> OBVIOUS
<1>4. IsRun(s, L) BY DEF IsRun
<1>5. UniqueRecords(manifest) = Concat(s) BY <1>1 DEF UniqueRecords
<1> HIDE DEF s, L, cs, unique, z
<1>6. \A i \in 1 .. L : s[i] \in Seq(TableRecord)
  <2> SUFFICES ASSUME NEW i \in 1 .. L PROVE s[i] \in Seq(TableRecord) OBVIOUS
  <2>1. <<cs[i]>> \in Seq(TableRecord) /\ <<>> \in Seq(TableRecord)
    <3>1. cs[i] \in TableRecord BY <1>1
    <3> QED BY <3>1
  <2> QED BY <1>3, <2>1
<1>7. Concats(s, L, TableRecord) BY <1>1, <1>6, ConcatsUp
<1>8. Sums(z, L) BY <1>1, <1>2, SumsUp
<1>9. 0 \in S
  <2>1. R(0) = <<>> /\ P(0) = 0 BY <1>7, <1>8 DEF Concats, Sums
  <2>2. RecordSum(<<>>) = 0
    <3>1. Sums(<<>>, 0) BY SumsUp
    <3>2. Len(<<>>) = 0 /\ RecordSizes(<<>>) = <<>> BY DEF RecordSizes
    <3> QED BY <3>1, <3>2 DEF RecordSum, Sums
  <2> HIDE DEF R, P
  <2> QED BY <1>1, <2>1, <2>2
<1>10. ASSUME NEW n \in 0 .. L - 1, n \in S PROVE n + 1 \in S
  <2>1. n + 1 \in 1 .. L /\ (n + 1) - 1 = n /\ n \in 0 .. L BY <1>1
  <2>2. R(n + 1) = R(n) \o s[n + 1] /\ R(n) \in Seq(TableRecord) BY <1>7, <2>1 DEF Concats
  <2>3. P(n + 1) = P(n) + z[n + 1] /\ P(n) \in Nat BY <1>8, <2>1 DEF Sums
  <2>4. z[n + 1] = cs[n + 1].size /\ z[n + 1] \in Nat /\ cs[n + 1] \in TableRecord
    BY <1>1, <1>2, <2>1
  <2>5. RecordSum(R(n)) \in Nat /\ RecordSum(R(n)) <= P(n) BY <1>10
  <2> HIDE DEF R, P
  <2>6. CASE n + 1 \in unique
    <3>1. R(n + 1) = R(n) \o <<cs[n + 1]>> BY <1>3, <2>1, <2>2, <2>6
    <3>2. RecordSum(R(n + 1)) = RecordSum(R(n)) + cs[n + 1].size BY <2>2, <2>4, <3>1, RecordAppended
    <3> QED BY <2>1, <2>3, <2>4, <2>5, <3>2
  <2>7. CASE n + 1 \notin unique
    <3>1. s[n + 1] = <<>> BY <1>3, <2>1, <2>7
    <3>2. R(n + 1) = R(n) BY <2>2, <3>1
    <3> QED BY <2>1, <2>3, <2>4, <2>5, <3>2
  <2> QED BY <2>6, <2>7
<1>11. 0 .. L \subseteq S
  <2> HIDE DEF S
  <2> QED BY <1>1, <1>9, <1>10, UpFromZero
<1>12. L \in 0 .. L /\ Prefix(s, L) = s BY <1>1, <1>4, WholePrefix
<1>13. Concat(s) \in Seq(TableRecord) BY <1>7, <1>12 DEF Concats
<1>14. RecordSum(Concat(s)) \in Nat /\ RecordSum(Concat(s)) <= P(L) BY <1>11, <1>12
<1> QED BY <1>5, <1>13, <1>14 DEF L, z

(* The lanes together take no more bytes than the unique chunks: a chunk is  *)
(* in one lane.                                                              *)
LEMMA LanesFit ==
    ASSUME NEW manifest \in ManifestFields, NEW lanes
    PROVE  /\ \A l \in Lanes : RawSize(manifest, lanes, l) \in Nat
           /\ RawSize(manifest, lanes, 0) + RawSize(manifest, lanes, 1) + RawSize(manifest, lanes,
              2)
                 <= RecordSum(UniqueRecords(manifest))
<1> DEFINE rs == UniqueRecords(manifest)
           N == Len(rs)
           T == (DOMAIN LaneOf) \X Nat
           s(l) == [k \in 1 .. N |-> IF lanes[k] = l THEN Units(rs[k].digest, rs[k].size) ELSE <<>>]
           z == RecordSizes(rs)
           R(l, n) == Concat(Prefix(s(l), n))
           P(n) == Sum(Prefix(z, n))
           S == {n \in 0 .. N : Len(R(0, n)) + Len(R(1, n)) + Len(R(2, n)) <= P(n)}
<1>1. rs \in Seq(TableRecord) BY UniqueFits
<1>2. N \in Nat /\ DOMAIN rs = 1 .. N /\ \A k \in 1 .. N : rs[k] \in TableRecord
  <2> HIDE DEF rs
  <2> QED BY <1>1
<1>3. \A k \in 1 .. N : z[k] = rs[k].size /\ z[k] \in Nat BY <1>2 DEF RecordSizes, TableRecord
<1>4. \A l : LaneUnits(manifest, lanes, l) = Concat(s(l)) BY <1>2 DEF LaneUnits
<1>5. \A l : IsRun(s(l), N) BY DEF IsRun
<1>6. ASSUME NEW l, NEW k \in 1 .. N
      PROVE  /\ s(l)[k] \in Seq(T)
             /\ Len(s(l)[k]) = IF lanes[k] = l THEN z[k] ELSE 0
  <2>1. /\ rs[k].digest \in DOMAIN LaneOf /\ rs[k].size \in Nat /\ z[k] = rs[k].size
    BY <1>2, <1>3 DEF TableRecord
  <2> DEFINE u == Units(rs[k].digest, rs[k].size)
  <2>2. u \in Seq(T) /\ Len(u) = z[k]
    <3> HIDE DEF rs, z
    <3> QED BY <2>1 DEF Units
  <2>3. s(l)[k] = IF lanes[k] = l THEN u ELSE <<>> OBVIOUS
  <2>4. <<>> \in Seq(T) /\ Len(<<>>) = 0 OBVIOUS
  <2> HIDE DEF u, s, T
  <2> QED BY <2>2, <2>3, <2>4
<1>7. RecordSum(rs) = P(N) BY DEF RecordSum
<1> HIDE DEF s, rs, N, z, T
<1>8. \A l : Concats(s(l), N, T)
  <2> SUFFICES ASSUME NEW l PROVE Concats(s(l), N, T) OBVIOUS
  <2>1. \A k \in 1 .. N : s(l)[k] \in Seq(T) BY <1>6
  <2> QED BY <1>2, <2>1, ConcatsUp
<1>9. Sums(z, N) BY <1>2, <1>3, SumsUp
<1>10. 0 \in S
  <2>1. \A l : R(l, 0) = <<>> BY <1>8 DEF Concats
  <2>2. P(0) = 0 BY <1>9 DEF Sums
  <2>3. Len(<<>>) = 0 OBVIOUS
  <2> HIDE DEF R, P
  <2> QED BY <1>2, <2>1, <2>2, <2>3
<1>11. ASSUME NEW n \in 0 .. N - 1, n \in S PROVE n + 1 \in S
  <2>1. n + 1 \in 1 .. N /\ (n + 1) - 1 = n /\ n \in 0 .. N BY <1>2
  <2>2. P(n + 1) = P(n) + z[n + 1] /\ P(n) \in Nat /\ z[n + 1] \in Nat BY <1>3, <1>9, <2>1 DEF Sums
  <2>3. ASSUME NEW l
        PROVE  /\ Len(R(l, n)) \in Nat
               /\ Len(R(l, n + 1)) = Len(R(l, n)) + IF lanes[n + 1] = l THEN z[n + 1] ELSE 0
    <3>1. R(l, n + 1) = R(l, n) \o s(l)[n + 1] /\ R(l, n) \in Seq(T) BY <1>8, <2>1 DEF Concats
    <3>2. /\ s(l)[n + 1] \in Seq(T)
          /\ Len(s(l)[n + 1]) = IF lanes[n + 1] = l THEN z[n + 1] ELSE 0
      BY <1>6, <2>1
    <3> HIDE DEF R
    <3>3. Len(R(l, n) \o s(l)[n + 1]) = Len(R(l, n)) + Len(s(l)[n + 1]) BY <3>1, <3>2
    <3> QED BY <3>1, <3>2, <3>3
  <2>4. Len(R(0, n)) + Len(R(1, n)) + Len(R(2, n)) <= P(n) BY <1>11
  <2> HIDE DEF R, P
  <2>5. Len(R(0, n + 1)) + Len(R(1, n + 1)) + Len(R(2, n + 1)) <= P(n + 1)
    <3>1. /\ Len(R(0, n)) \in Nat /\ Len(R(1, n)) \in Nat /\ Len(R(2, n)) \in Nat
          /\ Len(R(0, n + 1)) = Len(R(0, n)) + IF lanes[n + 1] = 0 THEN z[n + 1] ELSE 0
          /\ Len(R(1, n + 1)) = Len(R(1, n)) + IF lanes[n + 1] = 1 THEN z[n + 1] ELSE 0
          /\ Len(R(2, n + 1)) = Len(R(2, n)) + IF lanes[n + 1] = 2 THEN z[n + 1] ELSE 0
      BY <2>3
    <3> DEFINE a == Len(R(0, n))
               b == Len(R(1, n))
               c == Len(R(2, n))
               a1 == Len(R(0, n + 1))
               b1 == Len(R(1, n + 1))
               c1 == Len(R(2, n + 1))
               lane == lanes[n + 1]
               size == z[n + 1]
    <3>2. /\ a \in Nat /\ b \in Nat /\ c \in Nat /\ size \in Nat
          /\ a1 = a + IF lane = 0 THEN size ELSE 0
          /\ b1 = b + IF lane = 1 THEN size ELSE 0
          /\ c1 = c + IF lane = 2 THEN size ELSE 0
          /\ a + b + c <= P(n) /\ P(n + 1) = P(n) + size /\ P(n) \in Nat
      BY <2>2, <2>4, <3>1
    <3> HIDE DEF a, b, c, a1, b1, c1, lane, size
    <3>3. a1 + b1 + c1 <= P(n + 1)
      <4>1. CASE lane = 0 BY <3>2, <4>1
      <4>2. CASE lane = 1 BY <3>2, <4>2
      <4>3. CASE lane = 2 BY <3>2, <4>3
      <4>4. CASE lane # 0 /\ lane # 1 /\ lane # 2 BY <3>2, <4>4
      <4> QED BY <4>1, <4>2, <4>3, <4>4
    <3> QED BY <3>3 DEF a1, b1, c1
  <2> QED BY <2>1, <2>5
<1>12. 0 .. N \subseteq S
  <2> HIDE DEF S
  <2> QED BY <1>2, <1>10, <1>11, UpFromZero
<1>13. N \in 0 .. N /\ \A l : Prefix(s(l), N) = s(l) BY <1>2, <1>5, WholePrefix
<1>14. \A l : Concat(s(l)) \in Seq(T) BY <1>8, <1>13 DEF Concats
<1>15. \A l : RawSize(manifest, lanes, l) = Len(Concat(s(l))) BY <1>4 DEF RawSize
<1>16. Len(Concat(s(0))) + Len(Concat(s(1))) + Len(Concat(s(2))) <= P(N) BY <1>12, <1>13
<1>17. \A l : Len(Concat(s(l))) \in Nat BY <1>14
<1> QED BY <1>7, <1>15, <1>16, <1>17 DEF rs

-----------------------------------------------------------------------------
(* A row of the chunk table that a scan makes: one unit of data, and the     *)
(* place of the row that stores it.                                          *)
UnitRecord == [digest : DOMAIN LaneOf, size : {1}, source : Nat]

(* A manifest under construction.                                            *)
MadeManifest == [kind : {"file", "folder"}, root : RecordPath, entries : Seq(EntryRecord),
                 chunks : Seq(UnitRecord)]

-----------------------------------------------------------------------------
(* The manifest that a scan makes, entry by entry and chunk by chunk.        *)

(* An entry as the encoders make it, with the range of chunks that starts at *)
(* place: a directory, or a file with one chunk for each unit of its size.   *)
RecordShape(e, place) ==
    \/ e.kind = "dir" /\ e = DirEntry(e.path)
    \/ /\ e.kind = "file" /\ e.digest \in Seq(DOMAIN LaneOf)
       /\ e.first = place /\ e.count = Len(e.digest) /\ e.size = Len(e.digest)

(* Entries whose ranges follow one another, from base.                       *)
Rows(es, base) ==
    /\ es \in Seq(EntryRecord)
    /\ \A i \in 1 .. Len(es) : RecordShape(es[i], base + ChunksBefore(es, i))

(* The chunks that the entries take.                                         *)
Taken(es) == ChunksBefore(es, Len(es) + 1)

(* More is what follows es in t: nothing that stands before it is changed.   *)
Grown(t, es, e) ==
    /\ t \in Seq(EntryRecord) /\ Len(t) = Len(es) + 1 /\ t[Len(es) + 1] = e
    /\ \A i \in 1 .. Len(es) : t[i] = es[i]
    /\ \A i \in 1 .. Len(es) + 1 : ChunksBefore(t, i) = ChunksBefore(es, i)
    /\ Taken(t) = Taken(es) + Slot(e) /\ Taken(es) \in Nat /\ Slot(e) \in Nat

(* ChunksBefore an entry does not see the entries after it.                  *)
LEMMA BeforeSame ==
    ASSUME NEW s, NEW t, NEW n \in Nat, \A i \in 1 .. n : t[i] = s[i]
    PROVE  \A i \in 1 .. n + 1 : ChunksBefore(t, i) = ChunksBefore(s, i)
<1> SUFFICES ASSUME NEW i \in 1 .. n + 1 PROVE ChunksBefore(t, i) = ChunksBefore(s, i) OBVIOUS
<1>1. \A k \in 1 .. i - 1 : t[k] = s[k] OBVIOUS
<1>2. [k \in 1 .. i - 1 |-> IF t[k].kind = "file" THEN t[k].count ELSE 0]
        = [k \in 1 .. i - 1 |-> IF s[k].kind = "file" THEN s[k].count ELSE 0]
  BY <1>1
<1> QED BY <1>2 DEF ChunksBefore

(* The chunks before each of a sequence of entries are a number of chunks.   *)
LEMMA BeforeNat ==
    ASSUME NEW es \in Seq(EntryRecord)
    PROVE  /\ Len(es) \in Nat /\ \A i \in 1 .. Len(es) : es[i] \in EntryRecord /\ Slot(es[i]) \in Nat
           /\ ChunksBefore(es, 1) = 0 /\ Taken(es) \in Nat
           /\ \A i \in 1 .. Len(es) + 1 : ChunksBefore(es, i) \in Nat
           /\ \A i \in 1 .. Len(es) : ChunksBefore(es, i + 1) = ChunksBefore(es, i) + Slot(es[i])
           /\ \A i \in 1 .. Len(es) + 1 : \A j \in i .. Len(es) + 1 :
                 ChunksBefore(es, i) <= ChunksBefore(es, j)
<1> DEFINE N == Len(es)
<1>1. N \in Nat /\ \A i \in 1 .. N : es[i] \in EntryRecord OBVIOUS
<1>2. \A i \in 1 .. N : Slot(es[i]) \in Nat BY <1>1 DEF Slot, EntryRecord
<1> HIDE DEF N
<1>3. /\ ChunksBefore(es, 1) = 0
      /\ \A i \in 1 .. N + 1 : ChunksBefore(es, i) \in Nat
      /\ \A i \in 1 .. N : ChunksBefore(es, i + 1) = ChunksBefore(es, i) + Slot(es[i])
      /\ \A i \in 1 .. N + 1 : \A j \in i .. N + 1 : ChunksBefore(es, i) <= ChunksBefore(es, j)
  BY <1>1, <1>2, BeforeSteps
<1>4. Taken(es) \in Nat
  <2>1. N + 1 \in 1 .. N + 1 BY <1>1
  <2> QED BY <1>3, <2>1 DEF Taken, N
<1> QED BY <1>1, <1>2, <1>3, <1>4 DEF N

(* An entry appended changes nothing before it.                              *)
LEMMA EntryAppended ==
    ASSUME NEW es \in Seq(EntryRecord), NEW e \in EntryRecord
    PROVE  Grown(Append(es, e), es, e)
<1> DEFINE n == Len(es)
           t == Append(es, e)
<1>1. n \in Nat /\ t \in Seq(EntryRecord) /\ Len(t) = n + 1 /\ t[n + 1] = e
      /\ \A i \in 1 .. n : t[i] = es[i]
  OBVIOUS
<1>2. Taken(es) \in Nat /\ \A i \in 1 .. n + 1 : ChunksBefore(es, i) \in Nat BY BeforeNat
<1> HIDE DEF t
<1>3. /\ Len(t) \in Nat /\ \A i \in 1 .. Len(t) : Slot(t[i]) \in Nat
      /\ \A i \in 1 .. Len(t) : ChunksBefore(t, i + 1) = ChunksBefore(t, i) + Slot(t[i])
  BY <1>1, BeforeNat
<1>4. \A i \in 1 .. n + 1 : ChunksBefore(t, i) = ChunksBefore(es, i)
  <2> HIDE DEF n
  <2> QED BY <1>1, BeforeSame
<1>5. Taken(t) = Taken(es) + Slot(e) /\ Slot(e) \in Nat
  <2> HIDE DEF n
  <2>1. n + 1 \in 1 .. n + 1 /\ n + 1 \in 1 .. Len(t) BY <1>1
  <2>2. ChunksBefore(t, (n + 1) + 1) = ChunksBefore(t, n + 1) + Slot(t[n + 1]) BY <1>3, <2>1
  <2>3. ChunksBefore(t, n + 1) = ChunksBefore(es, n + 1) BY <1>4, <2>1
  <2>4. Taken(t) = ChunksBefore(t, (n + 1) + 1) BY <1>1 DEF Taken
  <2>5. Taken(es) = ChunksBefore(es, n + 1) BY DEF Taken, n
  <2>6. Slot(t[n + 1]) \in Nat BY <1>3, <2>1
  <2> QED BY <1>1, <2>2, <2>3, <2>4, <2>5, <2>6
<1> QED BY <1>1, <1>2, <1>4, <1>5 DEF Grown, t, n

(* Rows stay rows when the next one is appended.                             *)
LEMMA RowsAppended ==
    ASSUME NEW es, NEW base \in Nat, Rows(es, base), NEW e \in EntryRecord,
           RecordShape(e, base + Taken(es))
    PROVE  Rows(Append(es, e), base)
<1> DEFINE t == Append(es, e)
           n == Len(es)
<1>1. es \in Seq(EntryRecord) /\ n \in Nat BY DEF Rows
<1>2. Grown(t, es, e) BY <1>1, EntryAppended
<1> HIDE DEF t
<1>3. t \in Seq(EntryRecord) /\ Len(t) = n + 1 /\ t[n + 1] = e BY <1>2 DEF Grown
<1>4. ASSUME NEW i \in 1 .. n PROVE RecordShape(t[i], base + ChunksBefore(t, i))
  <2>1. i \in 1 .. n + 1 BY <1>1
  <2>2. t[i] = es[i] /\ ChunksBefore(t, i) = ChunksBefore(es, i) BY <1>2, <2>1 DEF Grown
  <2> QED BY <2>2 DEF Rows
<1>5. RecordShape(t[n + 1], base + ChunksBefore(t, n + 1))
  <2>1. n + 1 \in 1 .. n + 1 BY <1>1
  <2>2. ChunksBefore(t, n + 1) = Taken(es) BY <1>2, <2>1 DEF Grown, Taken
  <2> QED BY <1>3, <2>2
<1>6. \A i \in 1 .. n + 1 : i \in 1 .. n \/ i = n + 1 BY <1>1
<1>7. \A i \in 1 .. n + 1 : RecordShape(t[i], base + ChunksBefore(t, i)) BY <1>4, <1>5, <1>6
<1> QED BY <1>3, <1>7 DEF Rows, t

-----------------------------------------------------------------------------
(* The chunk table of a scan.                                                *)

(* Chunk i of the table holds one unit; when its bytes are stored elsewhere, *)
(* that is before it and is the same chunk.                                  *)
RecordDirect(cs, i) ==
    cs[i].source # i - 1 =>
        /\ cs[i].source < i - 1
        /\ cs[cs[i].source + 1].source = cs[i].source
        /\ cs[cs[i].source + 1].digest = cs[i].digest

TableDirect(cs) == cs \in Seq(UnitRecord) /\ \A i \in 1 .. Len(cs) : RecordDirect(cs, i)

(* The first occurrence of a chunk is stored.                                *)
LEMMA RecordMade ==
    ASSUME NEW cs, TableDirect(cs), NEW c \in DOMAIN LaneOf
    PROVE  /\ TableDirect(Append(cs, ChunkRecord(cs, c, 1)))
           /\ ChunkRecord(cs, c, 1).digest = c
<1> DEFINE n == Len(cs)
           same == {i \in DOMAIN cs : cs[i].digest = c /\ cs[i].size = 1}
           r == ChunkRecord(cs, c, 1)
           t == Append(cs, r)
<1>1. cs \in Seq(UnitRecord) /\ n \in Nat /\ DOMAIN cs = 1 .. n
      /\ \A i \in 1 .. n : cs[i] \in UnitRecord /\ RecordDirect(cs, i)
  BY DEF TableDirect
<1>2. r.digest = c /\ r.size = 1 /\ r.source = Canonical(cs, c, 1)
      /\ r = [digest |-> c, size |-> 1, source |-> Canonical(cs, c, 1)]
  BY DEF ChunkRecord
<1> HIDE DEF r
<1>3. CASE same = {}
  <2>1. r.source = n BY <1>2, <1>3 DEF Canonical
  <2>2. r \in UnitRecord BY <1>1, <1>2, <2>1 DEF UnitRecord
  <2> QED
    <3>1. t \in Seq(UnitRecord) /\ Len(t) = n + 1 /\ t[n + 1] = r /\ \A i \in 1 .. n : t[i] = cs[i]
      BY <1>1, <2>2
    <3> HIDE DEF t, n
    <3>2. RecordDirect(t, n + 1) BY <1>1, <2>1, <3>1 DEF RecordDirect
    <3>3. ASSUME NEW i \in 1 .. n PROVE RecordDirect(t, i)
      <4>1. t[i] = cs[i] /\ RecordDirect(cs, i) /\ cs[i].source \in Nat BY <1>1, <3>1 DEF UnitRecord
      <4>2. cs[i].source # i - 1 => cs[i].source + 1 \in 1 .. n BY <1>1, <4>1 DEF RecordDirect
      <4>3. cs[i].source # i - 1 => t[cs[i].source + 1] = cs[cs[i].source + 1] BY <3>1, <4>2
      <4> QED BY <4>1, <4>3 DEF RecordDirect
    <3>4. \A i \in 1 .. n + 1 : i \in 1 .. n \/ i = n + 1 BY <1>1
    <3>5. TableDirect(t) BY <3>1, <3>2, <3>3, <3>4 DEF TableDirect
    <3> QED BY <1>2, <3>5 DEF t, r
<1>4. CASE same # {}
  <2>1. PICK m \in same : \A j \in same : m <= j
    <3>1. same \subseteq Nat BY <1>1
    <3> HIDE DEF same
    <3> QED BY <1>4, <3>1, SmallestNat
  <2>2. m \in 1 .. n /\ cs[m].digest = c BY <1>1
  <2>3. (CHOOSE i \in same : \A j \in same : i <= j) = m
    <3>1. ASSUME NEW i \in same, \A j \in same : i <= j PROVE i = m
      <4>1. i \in Nat /\ m \in Nat /\ i <= m /\ m <= i BY <1>1, <2>1, <3>1
      <4> QED BY <4>1
    <3> HIDE DEF same
    <3> QED BY <2>1, <3>1
  <2>4. r.source = m - 1 BY <1>2, <1>4, <2>3 DEF Canonical
  <2>5. cs[m].source = m - 1
    <3> SUFFICES ASSUME cs[m].source # m - 1 PROVE FALSE OBVIOUS
    <3> DEFINE k == cs[m].source + 1
    <3>1. cs[m].source < m - 1 /\ cs[k].digest = cs[m].digest BY <1>1, <2>2 DEF RecordDirect
    <3>2. cs[m].source \in Nat BY <1>1, <2>2 DEF UnitRecord
    <3>3. k \in 1 .. n /\ k < m BY <1>1, <2>2, <3>1, <3>2
    <3>4. k \in same BY <1>1, <2>2, <3>1, <3>3 DEF UnitRecord
    <3>5. m <= k
      <4> HIDE DEF same, k
      <4> QED BY <2>1, <3>4
    <3> HIDE DEF k
    <3> QED BY <2>2, <3>3, <3>5, <1>1
  <2>6. r \in UnitRecord BY <1>1, <1>2, <2>2, <2>4 DEF UnitRecord
  <2> QED
    <3>1. t \in Seq(UnitRecord) /\ Len(t) = n + 1 /\ t[n + 1] = r /\ \A i \in 1 .. n : t[i] = cs[i]
      BY <1>1, <2>6
    <3> HIDE DEF t, n, same
    <3>2. RecordDirect(t, n + 1)
      <4>1. r.source + 1 = m /\ r.source < (n + 1) - 1 BY <1>1, <2>2, <2>4
      <4>2. t[m] = cs[m] BY <2>2, <3>1
      <4> QED BY <1>2, <2>2, <2>4, <2>5, <3>1, <4>1, <4>2 DEF RecordDirect
    <3>3. ASSUME NEW i \in 1 .. n PROVE RecordDirect(t, i)
      <4>1. t[i] = cs[i] /\ RecordDirect(cs, i) /\ cs[i].source \in Nat BY <1>1, <3>1 DEF UnitRecord
      <4>2. cs[i].source # i - 1 => cs[i].source + 1 \in 1 .. n BY <1>1, <4>1 DEF RecordDirect
      <4>3. cs[i].source # i - 1 => t[cs[i].source + 1] = cs[cs[i].source + 1] BY <3>1, <4>2
      <4> QED BY <4>1, <4>3 DEF RecordDirect
    <3>4. \A i \in 1 .. n + 1 : i \in 1 .. n \/ i = n + 1 BY <1>1
    <3>5. TableDirect(t) BY <3>1, <3>2, <3>3, <3>4 DEF TableDirect
    <3> QED BY <1>2, <3>5 DEF t, r
<1> QED BY <1>3, <1>4

(* A table holds the digests of the files whose entries are made, and of the *)
(* file that is being read the chunks read so far (rest).                    *)
TableHolds(es, cs, rest) ==
    /\ Len(cs) = Taken(es) + Len(rest)
    /\ \A k \in 1 .. Len(rest) : cs[Taken(es) + k].digest = rest[k]
    /\ \A i \in 1 .. Len(es) : es[i].kind = "file" =>
          \A k \in 1 .. Len(es[i].digest) : cs[ChunksBefore(es, i) + k].digest = es[i].digest[k]

ScanGood(es, cs, rest) ==
    /\ Rows(es, 0) /\ TableDirect(cs) /\ rest \in Seq(DOMAIN LaneOf) /\ TableHolds(es, cs, rest)

(* The range of an entry lies before the chunks of the rest.                 *)
LEMMA RangeBelow ==
    ASSUME NEW es, Rows(es, 0), NEW i \in 1 .. Len(es), es[i].kind = "file",
           NEW k \in 1 .. Len(es[i].digest)
    PROVE  ChunksBefore(es, i) + k \in 1 .. Taken(es) /\ Len(es[i].digest) = es[i].count
<1> DEFINE n == Len(es)
<1>1. es \in Seq(EntryRecord) /\ RecordShape(es[i], 0 + ChunksBefore(es, i)) BY DEF Rows
<1>2. n \in Nat /\ i + 1 \in 1 .. n + 1 /\ n + 1 \in i + 1 .. n + 1 /\ i \in 1 .. n + 1 BY <1>1
<1>3. /\ ChunksBefore(es, i) \in Nat
      /\ ChunksBefore(es, i + 1) = ChunksBefore(es, i) + Slot(es[i])
  BY <1>1, <1>2, BeforeNat
<1>4. ChunksBefore(es, i + 1) <= Taken(es)
  <2>1. ChunksBefore(es, i + 1) <= ChunksBefore(es, n + 1) BY <1>1, <1>2, BeforeNat
  <2> QED BY <2>1 DEF Taken
<1>5. Slot(es[i]) = Len(es[i].digest) /\ es[i].count = Len(es[i].digest)
      /\ Len(es[i].digest) \in Nat
  BY <1>1 DEF RecordShape, Slot, DirEntry
<1>6. Taken(es) \in Nat BY <1>1, BeforeNat
<1> HIDE DEF n
<1> QED BY <1>3, <1>4, <1>5, <1>6

(* A chunk read is added to the table.                                       *)
LEMMA ChunkAdded ==
    ASSUME NEW es, NEW cs, NEW rest, ScanGood(es, cs, rest), NEW c \in DOMAIN LaneOf
    PROVE  ScanGood(es, Append(cs, ChunkRecord(cs, c, 1)), Append(rest, c))
<1> DEFINE r == ChunkRecord(cs, c, 1)
           t == Append(cs, r)
           more == Append(rest, c)
           n == Len(cs)
           b == Taken(es)
<1>1. TableDirect(cs) /\ Rows(es, 0) /\ rest \in Seq(DOMAIN LaneOf) /\ TableHolds(es, cs, rest)
  BY DEF ScanGood
<1>2. TableDirect(t) /\ r.digest = c BY <1>1, RecordMade
<1>3. cs \in Seq(UnitRecord) /\ n \in Nat BY <1>1 DEF TableDirect
<1> HIDE DEF r
<1>4. Len(t) = n + 1 /\ t[n + 1] = r /\ \A i \in 1 .. n : t[i] = cs[i]
  <2>1. cs = [i \in 1 .. n |-> cs[i]] BY <1>3
  <2>2. IsRun(cs, n) BY <2>1 DEF IsRun
  <2>3. PICK T : T = UnitRecord \cup {r} OBVIOUS
  <2>4. cs \in Seq(T) /\ r \in T BY <1>3, <2>3
  <2> QED BY <1>3, <2>4
<1>5. more \in Seq(DOMAIN LaneOf) /\ Len(more) = Len(rest) + 1 /\ more[Len(rest) + 1] = c
      /\ Len(rest) \in Nat /\ \A k \in 1 .. Len(rest) : more[k] = rest[k]
  BY <1>1
<1>6. b \in Nat BY <1>1, BeforeNat DEF Rows
<1>7. n = b + Len(rest) BY <1>1 DEF TableHolds
<1> HIDE DEF t, more, n, b
<1>8. Len(t) = b + Len(more) BY <1>3, <1>4, <1>5, <1>6, <1>7
<1>9. ASSUME NEW k \in 1 .. Len(more) PROVE t[b + k].digest = more[k]
  <2>1. CASE k = Len(rest) + 1 BY <1>2, <1>4, <1>5, <1>6, <1>7, <2>1
  <2>2. CASE k # Len(rest) + 1
    <3>1. k \in 1 .. Len(rest) BY <1>5, <2>2
    <3>2. b + k \in 1 .. n BY <1>5, <1>6, <1>7, <3>1
    <3>3. cs[b + k].digest = rest[k] BY <1>1, <3>1 DEF TableHolds, b
    <3> QED BY <1>4, <1>5, <3>1, <3>2, <3>3
  <2> QED BY <2>1, <2>2
<1>10. ASSUME NEW i \in 1 .. Len(es), es[i].kind = "file", NEW k \in 1 .. Len(es[i].digest)
       PROVE  t[ChunksBefore(es, i) + k].digest = es[i].digest[k]
  <2>1. ChunksBefore(es, i) + k \in 1 .. b BY <1>1, <1>10, RangeBelow DEF b
  <2>2. ChunksBefore(es, i) + k \in 1 .. n BY <1>5, <1>6, <1>7, <2>1
  <2>3. cs[ChunksBefore(es, i) + k].digest = es[i].digest[k] BY <1>1, <1>10 DEF TableHolds
  <2> QED BY <1>4, <2>2, <2>3
<1>11. TableHolds(es, t, more) BY <1>8, <1>9, <1>10 DEF TableHolds, b
<1> QED BY <1>1, <1>2, <1>5, <1>11 DEF ScanGood, t, more, r

-----------------------------------------------------------------------------
(* The end of an entry, and the manifest once every entry is made.           *)

(* What an entry must be to take exactly the chunks read since the one       *)
(* before it.                                                                *)
Takes(e, place, rest) ==
    /\ e \in EntryRecord /\ RecordShape(e, place) /\ Slot(e) = Len(rest)
    /\ e.kind = "file" => e.digest = rest

(* An entry that takes the chunks read is added to the scan.                 *)
LEMMA EntryScanned ==
    ASSUME NEW es, NEW cs, NEW rest, ScanGood(es, cs, rest), NEW e, Takes(e, Taken(es), rest)
    PROVE  ScanGood(Append(es, e), cs, <<>>)
<1> DEFINE t == Append(es, e)
           n == Len(es)
<1>1. TableDirect(cs) /\ Rows(es, 0) /\ rest \in Seq(DOMAIN LaneOf) /\ TableHolds(es, cs, rest)
  BY DEF ScanGood
<1>2. es \in Seq(EntryRecord) /\ n \in Nat BY <1>1 DEF Rows
<1>3. e \in EntryRecord /\ RecordShape(e, Taken(es)) /\ Slot(e) = Len(rest)
      /\ (e.kind = "file" => e.digest = rest)
  BY DEF Takes
<1>4. Grown(t, es, e) BY <1>2, <1>3, EntryAppended
<1>5. Taken(es) \in Nat BY <1>2, BeforeNat
<1>6. Rows(t, 0)
  <2>1. 0 + Taken(es) = Taken(es) BY <1>5
  <2>2. RecordShape(e, 0 + Taken(es)) BY <1>3, <2>1
  <2> QED BY <1>1, <1>3, <2>2, RowsAppended
<1> HIDE DEF t
<1>7. Len(t) = n + 1 /\ t[n + 1] = e /\ \A i \in 1 .. n : t[i] = es[i] BY <1>4 DEF Grown
<1>8. /\ \A i \in 1 .. n + 1 : ChunksBefore(t, i) = ChunksBefore(es, i)
      /\ Taken(t) = Taken(es) + Slot(e)
  BY <1>4 DEF Grown
<1>9. ASSUME NEW i \in 1 .. n + 1, t[i].kind = "file", NEW k \in 1 .. Len(t[i].digest)
      PROVE  cs[ChunksBefore(t, i) + k].digest = t[i].digest[k]
  <2>1. CASE i = n + 1
    <3>1. t[i] = e /\ e.digest = rest BY <1>3, <1>7, <1>9, <2>1
    <3>2. ChunksBefore(t, i) = Taken(es)
      <4>1. ChunksBefore(t, i) = ChunksBefore(es, n + 1) BY <1>8, <2>1
      <4> QED BY <4>1 DEF Taken
    <3>3. k \in 1 .. Len(rest) BY <1>9, <3>1
    <3>4. cs[Taken(es) + k].digest = rest[k] BY <1>1, <3>3 DEF TableHolds
    <3> QED BY <3>1, <3>2, <3>4
  <2>2. CASE i # n + 1
    <3>1. i \in 1 .. n BY <1>2, <2>2
    <3>2. t[i] = es[i] /\ ChunksBefore(t, i) = ChunksBefore(es, i) BY <1>7, <1>8, <3>1
    <3>3. es[i].kind = "file" /\ k \in 1 .. Len(es[i].digest) BY <1>9, <3>2
    <3>4. cs[ChunksBefore(es, i) + k].digest = es[i].digest[k] BY <1>1, <3>1, <3>3 DEF TableHolds
    <3> QED BY <3>2, <3>4
  <2> QED BY <2>1, <2>2
<1>10. Len(cs) = Taken(t) + Len(<<>>)
  <2>1. Len(cs) = Taken(es) + Len(rest) BY <1>1 DEF TableHolds
  <2>2. Len(rest) \in Nat BY <1>1
  <2> QED BY <1>3, <1>5, <1>8, <2>1, <2>2
<1>11. TableHolds(t, cs, <<>>) BY <1>7, <1>9, <1>10 DEF TableHolds
<1>12. <<>> \in Seq(DOMAIN LaneOf) OBVIOUS
<1> QED BY <1>1, <1>6, <1>11, <1>12 DEF ScanGood, t

(* A directory takes no chunk.                                               *)
LEMMA DirectoryTakes ==
    ASSUME NEW p \in RecordPath, NEW place
    PROVE  Takes(DirEntry(p), place, <<>>)
  BY DEF Takes, DirEntry, EntryRecord, RecordShape, Slot, Digest

(* A file takes what was read of it.                                         *)
LEMMA FileTakes ==
    ASSUME NEW p \in RecordPath, NEW place \in Nat, NEW rest \in Seq(DOMAIN LaneOf)
    PROVE  Takes(FileEntry(p, Len(rest), place, Len(rest), rest), place, rest)
<1> DEFINE e == FileEntry(p, Len(rest), place, Len(rest), rest)
<1>1. Len(rest) \in Nat OBVIOUS
<1>2. rest \in Digest BY DEF Digest
<1>3. e = [kind |-> "file", path |-> p, size |-> Len(rest), first |-> place, count |-> Len(rest),
           digest |-> rest]
  BY DEF FileEntry
<1>4. e \in EntryRecord BY <1>1, <1>2, <1>3 DEF EntryRecord
<1>5. RecordShape(e, place) BY <1>3 DEF RecordShape
<1>6. Slot(e) = Len(rest) /\ e.digest = rest BY <1>3 DEF Slot
<1> QED BY <1>4, <1>5, <1>6 DEF Takes

(* A sum of ones counts them.                                                *)
LEMMA SumOfOnes == ASSUME NEW n \in Nat, NEW s, \A k \in 1 .. n : s[k] = 1, IsRun(s, n)
                   PROVE  Sum(s) = n
<1> DEFINE P(k) == Sum(Prefix(s, k))
           S == {k \in 0 .. n : P(k) = k}
<1>1. Sums(s, n) BY SumsUp
<1>2. P(0) = 0 /\ \A k \in 1 .. n : P(k) = P(k - 1) + s[k] BY <1>1 DEF Sums
<1> HIDE DEF P
<1>3. 0 \in S BY <1>2
<1>4. ASSUME NEW k \in 0 .. n - 1, k \in S PROVE k + 1 \in S
  <2>1. k + 1 \in 1 .. n /\ (k + 1) - 1 = k /\ k + 1 \in 0 .. n /\ P(k) = k BY <1>4
  <2>2. P(k + 1) = P(k) + s[k + 1] BY <1>2, <2>1
  <2> QED BY <2>1, <2>2
<1>5. 0 .. n \subseteq S
  <2> HIDE DEF S
  <2> QED BY <1>3, <1>4, UpFromZero
<1>6. P(n) = n BY <1>5
<1>7. Prefix(s, n) = s BY WholePrefix
<1> QED BY <1>6, <1>7 DEF P

(* The manifest of a scan passes every check of parse_dedup_manifest but     *)
(* those of the paths.                                                       *)
TableParsed(m) ==
    DirectoriesEmpty(m) /\ RangesCover(m) /\ ReferencesDirect(m) /\ SizesAddUp(m)

LEMMA ScanParsed ==
    ASSUME NEW m, ScanGood(m.entries, m.chunks, <<>>), MaxChunk = 1
    PROVE  TableParsed(m)
<1> DEFINE es == m.entries
           cs == m.chunks
<1>1. TableDirect(cs) /\ Rows(es, 0) /\ TableHolds(es, cs, <<>>) BY DEF ScanGood
<1>2. es \in Seq(EntryRecord) /\ \A i \in 1 .. Len(es) : RecordShape(es[i], 0 + ChunksBefore(es, i))
  BY <1>1 DEF Rows
<1>3. /\ Len(es) \in Nat /\ DOMAIN es = 1 .. Len(es)
      /\ \A i \in 1 .. Len(es) : es[i] \in EntryRecord /\ Slot(es[i]) \in Nat
      /\ \A i \in 1 .. Len(es) + 1 : ChunksBefore(es, i) \in Nat
      /\ Taken(es) \in Nat
  BY <1>2, BeforeNat
<1>4. /\ Len(cs) \in Nat /\ DOMAIN cs = 1 .. Len(cs)
      /\ \A i \in 1 .. Len(cs) : cs[i] \in UnitRecord /\ RecordDirect(cs, i)
  BY <1>1 DEF TableDirect
<1>5. Len(cs) = Taken(es)
  <2>1. Len(cs) = Taken(es) + Len(<<>>) BY <1>1 DEF TableHolds
  <2> QED BY <1>3, <2>1
<1>6. \A i \in 1 .. Len(es) : RecordShape(es[i], ChunksBefore(es, i))
  <2> SUFFICES ASSUME NEW i \in 1 .. Len(es) PROVE RecordShape(es[i], ChunksBefore(es, i)) OBVIOUS
  <2>1. ChunksBefore(es, i) \in Nat BY <1>3
  <2>2. 0 + ChunksBefore(es, i) = ChunksBefore(es, i) BY <2>1
  <2> QED BY <1>2, <2>2
<1>a. PICK fs, ds : fs = es /\ ds = cs OBVIOUS
<1>7. DirectoriesEmpty(m)
  <2>1. \A i \in 1 .. Len(es) : es[i].kind = "dir" => es[i] = DirEntry(es[i].path)
    BY <1>6 DEF RecordShape
  <2> QED BY <1>3, <2>1 DEF DirectoriesEmpty
<1>8. RangesCover(m)
  <2>1. ASSUME NEW i \in 1 .. Len(es), es[i].kind = "file"
        PROVE  es[i].first = ChunksBefore(es, i) /\ (es[i].size = 0) = (es[i].count = 0)
    BY <1>6, <2>1 DEF RecordShape
  <2>2. ChunksBefore(es, Len(es) + 1) = Len(cs) BY <1>5 DEF Taken
  <2> QED BY <1>3, <2>1, <2>2 DEF RangesCover
<1>9. ReferencesDirect(m)
  <2> SUFFICES ASSUME NEW i \in 1 .. Len(cs)
               PROVE  /\ cs[i].size \in 1 .. MaxChunk
                      /\ cs[i].source # i - 1 =>
                            /\ cs[i].source < i - 1
                            /\ cs[cs[i].source + 1].source = cs[i].source
                            /\ cs[cs[i].source + 1].digest = cs[i].digest
                            /\ cs[cs[i].source + 1].size = cs[i].size
    BY <1>4 DEF ReferencesDirect
  <2>1. cs[i] \in UnitRecord /\ RecordDirect(cs, i) BY <1>4
  <2>2. cs[i].size = 1 /\ cs[i].source \in Nat BY <2>1 DEF UnitRecord
  <2>3. CASE cs[i].source # i - 1
    <3>1. /\ cs[i].source < i - 1
          /\ cs[cs[i].source + 1].source = cs[i].source
          /\ cs[cs[i].source + 1].digest = cs[i].digest
      BY <2>1, <2>3 DEF RecordDirect
    <3>2. cs[i].source + 1 \in 1 .. Len(cs) BY <1>4, <2>2, <3>1
    <3>3. cs[cs[i].source + 1].size = 1 BY <1>4, <3>2 DEF UnitRecord
    <3> QED BY <2>2, <3>1, <3>3
  <2>4. CASE cs[i].source = i - 1 BY <2>2, <2>4
  <2> QED BY <2>3, <2>4
<1>10. SizesAddUp(m)
  <2> SUFFICES ASSUME NEW i \in 1 .. Len(es), es[i].kind = "file"
               PROVE  es[i].size = Sum([k \in 1 .. es[i].count |-> cs[es[i].first + k].size])
    BY <1>3 DEF SizesAddUp
  <2> DEFINE e == es[i]
             s == [k \in 1 .. e.count |-> cs[e.first + k].size]
  <2>1. /\ e.first = ChunksBefore(es, i) /\ e.count = Len(e.digest) /\ e.size = e.count
        /\ e.count \in Nat
    BY <1>3, <1>6 DEF RecordShape, EntryRecord
  <2>2. ASSUME NEW k \in 1 .. e.count PROVE cs[e.first + k].size = 1
    <3>1. k \in 1 .. Len(es[i].digest) BY <2>1
    <3>2. ChunksBefore(es, i) + k \in 1 .. Taken(es)
      <4> HIDE DEF es
      <4> QED BY <1>1, <3>1, RangeBelow
    <3>3. e.first + k \in 1 .. Len(cs) BY <1>5, <2>1, <3>2
    <3> QED BY <1>4, <3>3 DEF UnitRecord
  <2>3. \A k \in 1 .. e.count : s[k] = 1 BY <2>2
  <2>4. IsRun(s, e.count) BY DEF IsRun
  <2>5. Sum(s) = e.count
    <3> HIDE DEF s, e
    <3> QED BY <2>1, <2>3, <2>4, SumOfOnes
  <2> QED BY <2>1, <2>5
<1> QED BY <1>7, <1>8, <1>9, <1>10 DEF TableParsed

(* The same of parse_manifest.                                               *)
LEMMA RowsParsed ==
    ASSUME NEW m, Rows(m.entries, 1), MaxChunk = 1
    PROVE  DirectoriesEmpty(m) /\ RangesConsecutive(m, 1 + Taken(m.entries))
<1> DEFINE es == m.entries
<1>1. es \in Seq(EntryRecord) /\ \A i \in 1 .. Len(es) : RecordShape(es[i], 1 + ChunksBefore(es, i))
  BY DEF Rows
<1>2. /\ Len(es) \in Nat /\ DOMAIN es = 1 .. Len(es)
      /\ \A i \in 1 .. Len(es) : es[i] \in EntryRecord
  BY <1>1
<1>3. DirectoriesEmpty(m)
  <2>1. \A i \in 1 .. Len(es) : es[i].kind = "dir" => es[i] = DirEntry(es[i].path)
    BY <1>1 DEF RecordShape
  <2> QED BY <1>2, <2>1 DEF DirectoriesEmpty
<1>4. ASSUME NEW i \in 1 .. Len(es), es[i].kind = "file"
      PROVE  es[i].count = FramesFor(es[i].size) /\ es[i].first = 1 + ChunksBefore(es, i)
  <2>1. /\ es[i].count = es[i].size /\ es[i].size \in Nat
        /\ es[i].first = 1 + ChunksBefore(es, i)
    BY <1>1, <1>2, <1>4 DEF RecordShape, EntryRecord
  <2>2. (es[i].size + 1 - 1) \div 1 = es[i].size
    <3> DEFINE z == es[i].size
    <3>1. z \in Nat BY <2>1
    <3> HIDE DEF z
    <3>2. (z + 1 - 1) \div 1 = z BY <3>1
    <3> QED BY <3>2 DEF z
  <2> QED BY <2>1, <2>2 DEF FramesFor
<1>5. RangesConsecutive(m, 1 + Taken(es))
  BY <1>2, <1>4 DEF RangesConsecutive, FramesBefore, Taken
<1> QED BY <1>3, <1>5

-----------------------------------------------------------------------------
(* The frames of the second pass of MSC6.                                    *)

FrameRecord == [occurrence : Nat, chunk : DOMAIN LaneOf]

(* The frames hold the unique ones of the first n chunks, in their order.    *)
Stores(frames, cs, n) ==
    /\ frames \in Seq(FrameRecord)
    /\ \A k \in 1 .. Len(frames) : frames[k].occurrence < n
    /\ \A j, k \in 1 .. Len(frames) : j < k => frames[j].occurrence < frames[k].occurrence
    /\ \A i \in 1 .. n : cs[i].source = i - 1 =>
          \E k \in 1 .. Len(frames) : frames[k].occurrence = i - 1 /\ frames[k].chunk = cs[i].digest

(* A chunk of the second pass is stored when it is unique.                   *)
LEMMA ChunkStored ==
    ASSUME NEW frames, NEW cs, NEW n \in Nat, Stores(frames, cs, n), NEW c \in DOMAIN LaneOf,
           cs[n + 1].digest = c, cs[n + 1].source = n
    PROVE  Stores(Append(frames, [occurrence |-> n, chunk |-> c]), cs, n + 1)
<1> DEFINE r == [occurrence |-> n, chunk |-> c]
           t == Append(frames, r)
           L == Len(frames)
<1>1. frames \in Seq(FrameRecord) /\ L \in Nat /\ \A k \in 1 .. L : frames[k] \in FrameRecord
  BY DEF Stores
<1>2. r \in FrameRecord /\ r.occurrence = n /\ r.chunk = c BY DEF FrameRecord
<1>3. t \in Seq(FrameRecord) /\ Len(t) = L + 1 /\ t[L + 1] = r /\ \A k \in 1 .. L : t[k] = frames[k]
  BY <1>1, <1>2
<1> HIDE DEF t, r, L
<1>4. \A k \in 1 .. L : frames[k].occurrence < n /\ frames[k].occurrence \in Nat
  BY <1>1 DEF Stores, L, FrameRecord
<1>5. \A k \in 1 .. L + 1 : k \in 1 .. L \/ k = L + 1 BY <1>1
<1>6. \A k \in 1 .. L + 1 : t[k].occurrence < n + 1 BY <1>2, <1>3, <1>4, <1>5
<1>7. ASSUME NEW j \in 1 .. L + 1, NEW k \in 1 .. L + 1, j < k
      PROVE  t[j].occurrence < t[k].occurrence
  <2>1. j \in 1 .. L BY <1>1, <1>7
  <2>2. CASE k = L + 1 BY <1>2, <1>3, <1>4, <2>1, <2>2
  <2>3. CASE k \in 1 .. L
    <3>1. frames[j].occurrence < frames[k].occurrence BY <1>7, <2>1, <2>3 DEF Stores, L
    <3> QED BY <1>3, <2>1, <2>3, <3>1
  <2> QED BY <1>5, <2>2, <2>3
<1>8. ASSUME NEW i \in 1 .. n + 1, cs[i].source = i - 1
      PROVE  \E k \in 1 .. L + 1 : t[k].occurrence = i - 1 /\ t[k].chunk = cs[i].digest
  <2>1. CASE i = n + 1
    <3>1. L + 1 \in 1 .. L + 1 BY <1>1
    <3>2. t[L + 1].occurrence = i - 1 /\ t[L + 1].chunk = cs[i].digest BY <1>2, <1>3, <2>1
    <3> QED BY <3>1, <3>2
  <2>2. CASE i # n + 1
    <3>1. i \in 1 .. n BY <2>2
    <3>2. PICK k \in 1 .. L : frames[k].occurrence = i - 1 /\ frames[k].chunk = cs[i].digest
      BY <1>8, <3>1 DEF Stores, L
    <3>3. k \in 1 .. L + 1 /\ t[k] = frames[k] BY <1>1, <1>3, <3>2
    <3> QED BY <3>2, <3>3
  <2> QED BY <2>1, <2>2
<1> QED BY <1>3, <1>6, <1>7, <1>8 DEF Stores, t, r

(* A reference is not.                                                       *)
LEMMA ReferenceSkipped ==
    ASSUME NEW frames, NEW cs, NEW n \in Nat, Stores(frames, cs, n), cs[n + 1].source # n
    PROVE  Stores(frames, cs, n + 1)
<1>0. frames \in Seq(FrameRecord) BY DEF Stores
<1>1a. \A k \in 1 .. Len(frames) : frames[k] \in FrameRecord BY <1>0
<1>1. \A k \in 1 .. Len(frames) : frames[k].occurrence < n /\ frames[k].occurrence \in Nat
  BY <1>1a DEF Stores, FrameRecord
<1>2. \A k \in 1 .. Len(frames) : frames[k].occurrence < n + 1 BY <1>1
<1>3. \A i \in 1 .. n + 1 : cs[i].source = i - 1 => i \in 1 .. n OBVIOUS
<1> QED BY <1>0, <1>2, <1>3 DEF Stores

(* What Whole asks of the frames.                                            *)
FramesWhole(a, m) ==
    /\ \A i \in Unique(m.chunks) :
          \E k \in DOMAIN a.frames : /\ a.frames[k].occurrence = i - 1
                                     /\ a.frames[k].chunk = m.chunks[i].digest
    /\ \A j, k \in DOMAIN a.frames : j < k => a.frames[j].occurrence < a.frames[k].occurrence
    /\ \A i \in DOMAIN m.entries :
          m.entries[i].kind = "file" => Restored(a, m.entries[i]) = m.entries[i].digest

(* Once all chunks are stored, every file can be restored.                   *)
LEMMA StoredWhole ==
    ASSUME NEW a, NEW m, a.manifest = m, ScanGood(m.entries, m.chunks, <<>>),
           Stores(a.frames, m.chunks, Len(m.chunks))
    PROVE  FramesWhole(a, m)
<1> DEFINE es == m.entries
           cs == m.chunks
           fs == a.frames
           n == Len(cs)
<1>1. TableDirect(cs) /\ Rows(es, 0) /\ TableHolds(es, cs, <<>>) BY DEF ScanGood
<1>2. /\ n \in Nat /\ DOMAIN cs = 1 .. n
      /\ \A i \in 1 .. n : cs[i] \in UnitRecord /\ RecordDirect(cs, i)
  BY <1>1 DEF TableDirect
<1>3. fs \in Seq(FrameRecord) /\ Stores(fs, cs, n) BY DEF Stores
<1>4. Len(fs) \in Nat /\ DOMAIN fs = 1 .. Len(fs) /\ \A k \in 1 .. Len(fs) : fs[k].occurrence \in Nat
  <2>1. Len(fs) \in Nat /\ DOMAIN fs = 1 .. Len(fs) /\ \A k \in 1 .. Len(fs) : fs[k] \in FrameRecord
    <3> HIDE DEF fs
    <3> QED BY <1>3
  <2> QED BY <2>1 DEF FrameRecord
<1>5. /\ Len(es) \in Nat /\ DOMAIN es = 1 .. Len(es)
      /\ \A i \in 1 .. Len(es) : es[i] \in EntryRecord /\ ChunksBefore(es, i) \in Nat
      /\ Taken(es) \in Nat
  <2>1. es \in Seq(EntryRecord) BY <1>1 DEF Rows
  <2>2. \A i \in 1 .. Len(es) : i \in 1 .. Len(es) + 1 BY <2>1
  <2> QED BY <2>1, <2>2, BeforeNat
<1>6. n = Taken(es)
  <2>1. n = Taken(es) + Len(<<>>) BY <1>1 DEF TableHolds
  <2> QED BY <1>5, <2>1
<1>7. ASSUME NEW i \in 1 .. n, cs[i].source = i - 1
      PROVE  \E k \in 1 .. Len(fs) : fs[k].occurrence = i - 1 /\ fs[k].chunk = cs[i].digest
  <2> HIDE DEF fs, cs, n
  <2> QED BY <1>3, <1>7 DEF Stores
<1>8. \A j, k \in 1 .. Len(fs) : j < k => fs[j].occurrence < fs[k].occurrence
  <2> HIDE DEF fs, cs, n
  <2> QED BY <1>3 DEF Stores
<1>9. \A j, k \in 1 .. Len(fs) : fs[j].occurrence = fs[k].occurrence => j = k
  <2> HIDE DEF fs
  <2> SUFFICES ASSUME NEW j \in 1 .. Len(fs), NEW k \in 1 .. Len(fs),
                      fs[j].occurrence = fs[k].occurrence, j # k PROVE FALSE OBVIOUS
  <2>1. j < k \/ k < j OBVIOUS
  <2>2. fs[j].occurrence < fs[k].occurrence \/ fs[k].occurrence < fs[j].occurrence
    BY <1>8, <2>1
  <2> QED BY <1>4, <2>2
<1>10. ASSUME NEW at \in 0 .. n - 1 PROVE Stored(a, at) = cs[at + 1].digest
  <2> DEFINE i == at + 1
             s == cs[i].source
             held == {k \in DOMAIN fs : fs[k].occurrence = s}
  <2>1. i \in 1 .. n /\ i - 1 = at /\ s \in Nat BY <1>2 DEF UnitRecord
  <2>2. s + 1 \in 1 .. n /\ cs[s + 1].source = (s + 1) - 1 /\ cs[s + 1].digest = cs[i].digest
    <3>1. CASE s = i - 1 BY <2>1, <3>1
    <3>2. CASE s # i - 1
      <4>1. s < i - 1 /\ cs[s + 1].source = s /\ cs[s + 1].digest = cs[i].digest
        BY <1>2, <2>1, <3>2 DEF RecordDirect
      <4> QED BY <1>2, <2>1, <4>1
    <3> QED BY <3>1, <3>2
  <2>3. PICK k \in 1 .. Len(fs) : fs[k].occurrence = (s + 1) - 1 /\ fs[k].chunk = cs[s + 1].digest
    <3> HIDE DEF s, fs
    <3> QED BY <1>7, <2>2
  <2>4. fs[k].occurrence = s BY <2>1, <2>3
  <2>5. held = {k}
    <3> HIDE DEF s, fs
    <3>1. \A j \in 1 .. Len(fs) : fs[j].occurrence = s => j = k BY <1>9, <2>4
    <3> QED BY <1>4, <2>4, <3>1
  <2>6. Stored(a, at) = IF held = {} THEN ZeroHash ELSE fs[CHOOSE j \in held : TRUE].chunk
    BY DEF Stored
  <2>7. (CHOOSE j \in held : TRUE) = k /\ held # {}
    <3> HIDE DEF held
    <3> QED BY <2>5
  <2>8. fs[CHOOSE j \in held : TRUE].chunk = fs[k].chunk
    <3> HIDE DEF held, fs
    <3> QED BY <2>7
  <2> HIDE DEF held
  <2> QED BY <2>2, <2>3, <2>6, <2>7, <2>8
<1>11. ASSUME NEW i \in 1 .. Len(es), es[i].kind = "file" PROVE Restored(a, es[i]) = es[i].digest
  <2> DEFINE e == es[i] d == es[i].digest b == ChunksBefore(es, i)
  <2>1. RecordShape(e, 0 + b) BY <1>1 DEF Rows
  <2>2. e.count = Len(d) /\ e.first = 0 + b /\ d \in Seq(DOMAIN LaneOf) /\ b \in Nat
    BY <1>5, <1>11, <2>1 DEF RecordShape
  <2>3. Len(d) \in Nat /\ d = [k \in 1 .. Len(d) |-> d[k]]
    <3> HIDE DEF d
    <3> QED BY <2>2
  <2>4. ASSUME NEW k \in 1 .. Len(d) PROVE Stored(a, e.first + k - 1) = d[k]
    <3>1. b + k \in 1 .. Taken(es)
      <4>1. k \in 1 .. Len(es[i].digest) BY <2>4
      <4> HIDE DEF es
      <4> QED BY <1>1, <1>11, <4>1, RangeBelow
    <3>2. cs[b + k].digest = d[k]
      <4>1. k \in 1 .. Len(es[i].digest) BY <2>4
      <4> HIDE DEF es, cs
      <4> QED BY <1>1, <1>11, <4>1 DEF TableHolds
    <3>3. e.first + k - 1 \in 0 .. n - 1 /\ (e.first + k - 1) + 1 = b + k
      <4> HIDE DEF d, b, e, n
      <4> QED BY <1>2, <1>6, <2>2, <2>3, <2>4, <3>1
    <3>4. Stored(a, e.first + k - 1) = cs[(e.first + k - 1) + 1].digest
      <4> HIDE DEF e, cs, n
      <4> QED BY <1>10, <3>3
    <3> QED BY <3>2, <3>3, <3>4
  <2>5. Restored(a, e) = [k \in 1 .. Len(d) |-> Stored(a, e.first + k - 1)] BY <2>2 DEF Restored
  <2> HIDE DEF d, e
  <2>6. [k \in 1 .. Len(d) |-> Stored(a, e.first + k - 1)] = [k \in 1 .. Len(d) |-> d[k]] BY <2>4
  <2>7. Restored(a, e) = d BY <2>3, <2>5, <2>6
  <2> QED BY <2>7 DEF e, d
<1>12. \A i \in Unique(cs) :
          \E k \in 1 .. Len(fs) : fs[k].occurrence = i - 1 /\ fs[k].chunk = cs[i].digest
  BY <1>2, <1>7 DEF Unique
<1> QED BY <1>4, <1>5, <1>8, <1>11, <1>12 DEF FramesWhole

-----------------------------------------------------------------------------
(* The frames of the second pass of MSC2.                                    *)

BlockRecord == [entry : Nat, chunk : DOMAIN LaneOf, size : {1}]

Block(i, c) == [entry |-> i - 1, chunk |-> c, size |-> 1]

(* The frames are the blocks of the entries before entry i, and of it the    *)
(* blocks in rest.                                                           *)
Blocks(frames, es, i, rest) ==
    /\ frames \in Seq(BlockRecord) /\ rest \in Seq(DOMAIN LaneOf)
    /\ Len(frames) = ChunksBefore(es, i) + Len(rest)
    /\ \A k \in 1 .. Len(rest) : frames[ChunksBefore(es, i) + k] = Block(i, rest[k])
    /\ \A j \in 1 .. i - 1 : es[j].kind = "file" =>
          \A k \in 1 .. Len(es[j].digest) :
             frames[ChunksBefore(es, j) + k] = Block(j, es[j].digest[k])

(* The frames of a file, among those of the entries up to it.                *)
LEMMA RangeOf ==
    ASSUME NEW es, NEW base, Rows(es, base), NEW i \in 1 .. Len(es)
    PROVE  /\ ChunksBefore(es, i) \in Nat /\ ChunksBefore(es, i + 1) \in Nat
           /\ es[i].kind = "dir" => ChunksBefore(es, i + 1) = ChunksBefore(es, i)
           /\ es[i].kind = "file" =>
                /\ Len(es[i].digest) \in Nat /\ es[i].count = Len(es[i].digest)
                /\ ChunksBefore(es, i + 1) = ChunksBefore(es, i) + Len(es[i].digest)
           /\ es[i].kind \in {"file", "dir"}
           /\ \A j \in i + 1 .. Len(es) + 1 : ChunksBefore(es, i + 1) <= ChunksBefore(es, j)
<1>1. es \in Seq(EntryRecord) /\ RecordShape(es[i], base + ChunksBefore(es, i)) BY DEF Rows
<1>2. Len(es) \in Nat /\ i \in 1 .. Len(es) + 1 /\ i + 1 \in 1 .. Len(es) + 1 BY <1>1
<1>3. /\ ChunksBefore(es, i) \in Nat /\ ChunksBefore(es, i + 1) \in Nat
      /\ ChunksBefore(es, i + 1) = ChunksBefore(es, i) + Slot(es[i])
      /\ \A j \in i + 1 .. Len(es) + 1 : ChunksBefore(es, i + 1) <= ChunksBefore(es, j)
  BY <1>1, <1>2, BeforeNat
<1>4. es[i].kind = "file" => /\ Len(es[i].digest) \in Nat /\ es[i].count = Len(es[i].digest)
                             /\ Slot(es[i]) = Len(es[i].digest)
  BY <1>1 DEF RecordShape, Slot, DirEntry
<1>5. es[i].kind = "dir" => Slot(es[i]) = 0 BY DEF Slot
<1>6. es[i].kind \in {"file", "dir"} BY <1>1 DEF RecordShape
<1> QED BY <1>3, <1>4, <1>5, <1>6

(* A block read again becomes a frame.                                       *)
LEMMA BlockAdded ==
    ASSUME NEW frames, NEW es, NEW base, Rows(es, base), NEW i \in 1 .. Len(es), NEW rest,
           Blocks(frames, es, i, rest), NEW c \in DOMAIN LaneOf
    PROVE  Blocks(Append(frames, Block(i, c)), es, i, Append(rest, c))
<1> DEFINE r == Block(i, c)
           t == Append(frames, r)
           more == Append(rest, c)
           L == Len(frames)
           b == ChunksBefore(es, i)
<1>1. frames \in Seq(BlockRecord) /\ rest \in Seq(DOMAIN LaneOf) /\ L = b + Len(rest) BY DEF Blocks
<1>2. r \in BlockRecord BY DEF Block, BlockRecord
<1>3. t \in Seq(BlockRecord) /\ Len(t) = L + 1 /\ t[L + 1] = r /\ \A k \in 1 .. L : t[k] = frames[k]
      /\ L \in Nat
  BY <1>1, <1>2
<1>4. more \in Seq(DOMAIN LaneOf) /\ Len(more) = Len(rest) + 1 /\ more[Len(rest) + 1] = c
      /\ Len(rest) \in Nat /\ \A k \in 1 .. Len(rest) : more[k] = rest[k]
  BY <1>1
<1>5. b \in Nat BY RangeOf
<1> HIDE DEF t, more, L, r, b
<1>6. Len(t) = b + Len(more) BY <1>1, <1>3, <1>4, <1>5
<1>7. ASSUME NEW k \in 1 .. Len(more) PROVE t[b + k] = Block(i, more[k])
  <2>1. CASE k = Len(rest) + 1
    <3>1. b + k = L + 1 BY <1>1, <1>4, <1>5, <2>1
    <3> QED BY <1>3, <1>4, <2>1, <3>1 DEF r
  <2>2. CASE k # Len(rest) + 1
    <3>1. k \in 1 .. Len(rest) BY <1>4, <2>2
    <3>2. b + k \in 1 .. L BY <1>1, <1>3, <1>4, <1>5, <3>1
    <3>3. frames[b + k] = Block(i, rest[k]) BY <3>1 DEF Blocks, b
    <3> QED BY <1>3, <1>4, <3>1, <3>2, <3>3
  <2> QED BY <2>1, <2>2
<1>8. ASSUME NEW j \in 1 .. i - 1, es[j].kind = "file", NEW k \in 1 .. Len(es[j].digest)
      PROVE  t[ChunksBefore(es, j) + k] = Block(j, es[j].digest[k])
  <2>1. es \in Seq(EntryRecord) BY DEF Rows
  <2>2. j \in 1 .. Len(es) /\ i \in j + 1 .. Len(es) + 1 BY <2>1
  <2>3. /\ ChunksBefore(es, j) \in Nat /\ ChunksBefore(es, j + 1) <= b
        /\ ChunksBefore(es, j + 1) = ChunksBefore(es, j) + Len(es[j].digest)
        /\ Len(es[j].digest) \in Nat
    BY <1>8, <2>2, RangeOf DEF b
  <2>4. ChunksBefore(es, j) + k \in 1 .. L
    <3> DEFINE x == ChunksBefore(es, j) y == Len(es[j].digest) z == ChunksBefore(es, j + 1)
    <3>1. x \in Nat /\ y \in Nat /\ z = x + y /\ z <= b /\ k \in 1 .. y BY <1>8, <2>3
    <3> HIDE DEF x, y, z
    <3>2. x + k \in 1 .. L BY <1>1, <1>4, <1>5, <3>1
    <3> QED BY <3>2 DEF x
  <2>5. frames[ChunksBefore(es, j) + k] = Block(j, es[j].digest[k]) BY <1>8 DEF Blocks
  <2> QED BY <1>3, <2>4, <2>5
<1> QED BY <1>3, <1>4, <1>6, <1>7, <1>8 DEF Blocks, t, more, r, b

(* The next entry follows a directory, or a file with the digest recorded.   *)
LEMMA BlocksOfNext ==
    ASSUME NEW frames, NEW es, NEW base, Rows(es, base), NEW i \in 1 .. Len(es), NEW rest,
           Blocks(frames, es, i, rest),
           IF es[i].kind = "file" THEN rest = es[i].digest ELSE rest = <<>>
    PROVE  Blocks(frames, es, i + 1, <<>>)
<1>1. frames \in Seq(BlockRecord) /\ Len(frames) = ChunksBefore(es, i) + Len(rest) BY DEF Blocks
<1>2. /\ ChunksBefore(es, i) \in Nat /\ ChunksBefore(es, i + 1) \in Nat
      /\ es[i].kind = "dir" => ChunksBefore(es, i + 1) = ChunksBefore(es, i)
      /\ es[i].kind = "file" => ChunksBefore(es, i + 1) = ChunksBefore(es, i) + Len(es[i].digest)
      /\ es[i].kind \in {"file", "dir"}
  BY RangeOf
<1>3. Len(frames) = ChunksBefore(es, i + 1) + Len(<<>>)
  <2>1. CASE es[i].kind = "file" BY <1>1, <1>2, <2>1
  <2>2. CASE es[i].kind # "file" BY <1>1, <1>2, <2>2
  <2> QED BY <2>1, <2>2
<1>4. ASSUME NEW j \in 1 .. (i + 1) - 1, es[j].kind = "file", NEW k \in 1 .. Len(es[j].digest)
      PROVE  frames[ChunksBefore(es, j) + k] = Block(j, es[j].digest[k])
  <2>1. CASE j = i BY <1>4, <2>1 DEF Blocks
  <2>2. CASE j # i
    <3>1. j \in 1 .. i - 1 BY <2>2
    <3> QED BY <1>4, <3>1 DEF Blocks
  <2> QED BY <2>1, <2>2
<1>5. <<>> \in Seq(DOMAIN LaneOf) /\ Len(<<>>) = 0 OBVIOUS
<1>6. \A k \in 1 .. Len(<<>>) : FALSE BY <1>5
<1> QED BY <1>1, <1>3, <1>4, <1>5, <1>6 DEF Blocks

(* What StreamWhole asks of the frames.                                      *)
BlocksWhole(a, m) ==
    \A i \in DOMAIN m.entries :
        m.entries[i].kind = "file" =>
            /\ \A block \in 0 .. m.entries[i].count - 1 :
                  /\ BlockFrame(a, i, block).entry = i - 1
                  /\ BlockFrame(a, i, block).size = BlockSize(m, i, block)
            /\ StreamRestored(a, i) = m.entries[i].digest

(* Once every entry is read again, the frames are what the manifest says.    *)
LEMMA BlocksFinished ==
    ASSUME NEW a, NEW m, a.manifest = m, Rows(m.entries, 1), MaxChunk = 1,
           Blocks(a.frames, m.entries, Len(m.entries) + 1, <<>>)
    PROVE  BlocksWhole(a, m) /\ Len(a.frames) = Taken(m.entries)
<1> DEFINE es == m.entries
           fs == a.frames
<1>1. es \in Seq(EntryRecord) /\ \A i \in 1 .. Len(es) : RecordShape(es[i], 1 + ChunksBefore(es, i))
  BY DEF Rows
<1>2. Len(es) \in Nat /\ DOMAIN es = 1 .. Len(es) /\ Taken(es) \in Nat
  <2> HIDE DEF es
  <2> QED BY <1>1, BeforeNat
<1>3. Len(fs) = Taken(es)
  <2>1. Len(fs) = Taken(es) + Len(<<>>) BY DEF Blocks, Taken
  <2> QED BY <1>2, <2>1
<1>4. ASSUME NEW i \in 1 .. Len(es), es[i].kind = "file"
      PROVE  /\ \A block \in 0 .. es[i].count - 1 :
                  /\ BlockFrame(a, i, block).entry = i - 1
                  /\ BlockFrame(a, i, block).size = BlockSize(m, i, block)
             /\ StreamRestored(a, i) = es[i].digest
  <2> DEFINE e == es[i] d == es[i].digest b == ChunksBefore(es, i)
  <2>1. e.count = Len(d) /\ e.first = 1 + b /\ e.size = Len(d) /\ d \in Seq(DOMAIN LaneOf)
    BY <1>1, <1>4 DEF RecordShape
  <2>2. b \in Nat
    <3>1. i \in 1 .. Len(es) + 1 BY <1>2
    <3> HIDE DEF es
    <3> QED BY <1>1, <3>1, BeforeNat
  <2>3. Len(d) \in Nat /\ d = [k \in 1 .. Len(d) |-> d[k]]
    <3> HIDE DEF d
    <3> QED BY <2>1
  <2>4. ASSUME NEW k \in 1 .. Len(d) PROVE BlockFrame(a, i, k - 1) = Block(i, d[k])
    <3>1. i \in 1 .. (Len(es) + 1) - 1 BY <1>2
    <3>2. fs[b + k] = Block(i, d[k])
      <4>1. \A j \in 1 .. (Len(es) + 1) - 1 : es[j].kind = "file" =>
               \A l \in 1 .. Len(es[j].digest) :
                  fs[ChunksBefore(es, j) + l] = Block(j, es[j].digest[l])
        BY DEF Blocks
      <4> HIDE DEF es, fs
      <4> QED BY <1>4, <2>4, <3>1, <4>1
    <3>3. e.first + (k - 1) = b + k
      <4> HIDE DEF d, b, e
      <4> QED BY <2>1, <2>2, <2>3, <2>4
    <3>4. BlockFrame(a, i, k - 1) = fs[e.first + (k - 1)] BY DEF BlockFrame
    <3> QED BY <3>2, <3>3, <3>4
  <2>5. ASSUME NEW block \in 0 .. e.count - 1
        PROVE  /\ BlockFrame(a, i, block).entry = i - 1
               /\ BlockFrame(a, i, block).size = BlockSize(m, i, block)
    <3> DEFINE k == block + 1
    <3>1. k \in 1 .. Len(d) /\ k - 1 = block
      <4> HIDE DEF d, e
      <4> QED BY <2>1, <2>3
    <3>2. BlockFrame(a, i, block) = Block(i, d[k])
      <4> HIDE DEF d, k
      <4> QED BY <2>4, <3>1
    <3>3. BlockSize(m, i, block) = IF e.size - block * 1 < 1 THEN e.size - block * 1 ELSE 1
      BY DEF BlockSize
    <3>4. ~(e.size - block * 1 < 1)
      <4> HIDE DEF d, e
      <4> QED BY <2>1, <2>3
    <3> QED BY <3>2, <3>3, <3>4 DEF Block
  <2>6. StreamRestored(a, i) = d
    <3>1. StreamRestored(a, i) = [k \in 1 .. Len(d) |-> BlockFrame(a, i, k - 1).chunk]
      BY <2>1 DEF StreamRestored
    <3> HIDE DEF d
    <3>2. \A k \in 1 .. Len(d) : BlockFrame(a, i, k - 1).chunk = d[k]
      <4>1. \A k \in 1 .. Len(d) : Block(i, d[k]).chunk = d[k] BY DEF Block
      <4> QED BY <2>4, <4>1
    <3>3. [k \in 1 .. Len(d) |-> BlockFrame(a, i, k - 1).chunk] = [k \in 1 .. Len(d) |-> d[k]]
      BY <3>2
    <3> QED BY <2>3, <3>1, <3>3
  <2> QED BY <2>5, <2>6
<1>5. BlocksWhole(a, m) BY <1>2, <1>4 DEF BlocksWhole
<1> QED BY <1>3, <1>5

-----------------------------------------------------------------------------
(* Sequences cut in pieces and joined again.                                 *)

(* What a prefix joins to stays in its place when more is joined.            *)
LEMMA ConcatKeeps ==
    ASSUME NEW N \in Nat, NEW s, NEW T, Concats(s, N, T), \A i \in 1 .. N : s[i] \in Seq(T),
           NEW i \in 0 .. N, NEW j \in i .. N
    PROVE  \A x \in 1 .. Len(Concat(Prefix(s, i))) :
              Concat(Prefix(s, j))[x] = Concat(Prefix(s, i))[x]
<1> DEFINE B(k) == Concat(Prefix(s, k))
           S == {d \in 0 .. N - i : \A x \in 1 .. Len(B(i)) : B(i + d)[x] = B(i)[x]}
<1>1. /\ \A k \in 0 .. N : B(k) \in Seq(T)
      /\ \A k \in 1 .. N : B(k) = B(k - 1) \o s[k]
  BY DEF Concats
<1>2. \A k \in i .. N : Len(B(i)) <= Len(B(k)) BY ConcatGrows
<1> HIDE DEF B
<1>3. 0 \in S
  <2>1. i + 0 = i BY <1>1
  <2> QED BY <2>1
<1>4. ASSUME NEW d \in 0 .. N - i - 1, d \in S PROVE d + 1 \in S
  <2> DEFINE top == i + (d + 1)
             low == i + d
  <2>1. top \in 1 .. N /\ top - 1 = low /\ low \in 0 .. N /\ low \in i .. N /\ i \in 0 .. N
    OBVIOUS
  <2>2. \A x \in 1 .. Len(B(i)) : B(low)[x] = B(i)[x] BY <1>4
  <2> HIDE DEF top, low
  <2>3. B(top) = B(low) \o s[top] BY <1>1, <2>1
  <2>4. B(i) \in Seq(T) /\ B(low) \in Seq(T) /\ s[top] \in Seq(T) BY <1>1, <2>1
  <2>5. Len(B(i)) <= Len(B(low)) /\ Len(B(i)) \in Nat /\ Len(B(low)) \in Nat BY <1>2, <2>1, <2>4
  <2>6. \A x \in 1 .. Len(B(low)) : (B(low) \o s[top])[x] = B(low)[x] BY <2>4
  <2>7. \A x \in 1 .. Len(B(i)) : B(top)[x] = B(i)[x] BY <2>2, <2>3, <2>5, <2>6
  <2> QED BY <2>7 DEF top
<1>5. 0 .. N - i \subseteq S
  <2> HIDE DEF S
  <2>1. N - i \in Nat OBVIOUS
  <2> QED BY <1>3, <1>4, <2>1, UpFromZero
<1>6. j - i \in 0 .. N - i /\ i + (j - i) = j OBVIOUS
<1>7. \A x \in 1 .. Len(B(i)) : B(i + (j - i))[x] = B(i)[x] BY <1>5, <1>6
<1> QED BY <1>6, <1>7 DEF B

(* Term k is found behind what the terms before it join to.                  *)
TermFound(s, N, T, k) ==
    /\ Len(Concat(Prefix(s, k - 1))) \in Nat
    /\ Len(Concat(Prefix(s, k - 1))) + Len(s[k]) <= Len(Concat(Prefix(s, N)))
    /\ Concat(Prefix(s, N)) \in Seq(T)
    /\ \A x \in 1 .. Len(s[k]) :
          Concat(Prefix(s, N))[Len(Concat(Prefix(s, k - 1))) + x] = s[k][x]

LEMMA TermIn ==
    ASSUME NEW N \in Nat, NEW s, NEW T, \A i \in 1 .. N : s[i] \in Seq(T), NEW k \in 1 .. N
    PROVE  TermFound(s, N, T, k)
<1> DEFINE B(n) == Concat(Prefix(s, n))
<1>1. Concats(s, N, T) BY ConcatsUp
<1>2. /\ \A n \in 0 .. N : B(n) \in Seq(T)
      /\ \A n \in 1 .. N : B(n) = B(n - 1) \o s[n]
  BY <1>1 DEF Concats
<1>3. k \in 0 .. N /\ N \in k .. N /\ k - 1 \in 0 .. N /\ N \in 0 .. N OBVIOUS
<1>4. \A x \in 1 .. Len(B(k)) : B(N)[x] = B(k)[x] BY <1>1, <1>3, ConcatKeeps
<1>5. Len(B(k)) <= Len(B(N)) BY <1>1, <1>3, ConcatGrows
<1> HIDE DEF B
<1>6. B(k) = B(k - 1) \o s[k] /\ B(k - 1) \in Seq(T) /\ s[k] \in Seq(T) /\ B(N) \in Seq(T)
  BY <1>2, <1>3
<1>7. /\ Len(B(k - 1) \o s[k]) = Len(B(k - 1)) + Len(s[k])
      /\ \A x \in 1 .. Len(s[k]) : (B(k - 1) \o s[k])[Len(B(k - 1)) + x] = s[k][x]
  BY <1>6
<1>8. Len(B(k - 1)) \in Nat /\ Len(s[k]) \in Nat BY <1>6
<1>9. ASSUME NEW x \in 1 .. Len(s[k]) PROVE B(N)[Len(B(k - 1)) + x] = s[k][x]
  <2>1. Len(B(k - 1)) + x \in 1 .. Len(B(k)) BY <1>6, <1>7, <1>8
  <2> QED BY <1>4, <1>6, <1>7, <2>1
<1> QED BY <1>5, <1>6, <1>7, <1>8, <1>9 DEF B, TermFound

(* The terms of u from a + 1 to b.                                           *)
LEMMA Slice ==
    ASSUME NEW T, NEW u \in Seq(T), NEW a \in 0 .. Len(u), NEW b \in a .. Len(u)
    PROVE  /\ SubSeq(u, a + 1, b) \in Seq(T) /\ Len(SubSeq(u, a + 1, b)) = b - a
           /\ \A i \in 1 .. b - a : SubSeq(u, a + 1, b)[i] = u[a + i]
<1>1. Len(u) \in Nat OBVIOUS
<1>2. CASE a = b
  <2>1. SubSeq(u, a + 1, b) = <<>> BY <1>1, <1>2, SubSeqEmpty
  <2>2. <<>> \in Seq(T) /\ Len(<<>>) = 0 OBVIOUS
  <2> QED BY <1>1, <1>2, <2>1, <2>2
<1>3. CASE a # b
  <2>1. a + 1 \in 1 .. Len(u) + 1 /\ b \in a .. Len(u) BY <1>1
  <2>2. \A i \in a + 1 .. b : u[i] \in T BY <1>1
  <2>3. /\ SubSeq(u, a + 1, b) \in Seq(T)
        /\ Len(SubSeq(u, a + 1, b)) = IF a + 1 <= b THEN b - (a + 1) + 1 ELSE 0
        /\ \A i \in 1 .. b - (a + 1) + 1 : SubSeq(u, a + 1, b)[i] = u[(a + 1) + i - 1]
    BY <1>1, <2>1, <2>2, SubSeqProperties
  <2>4. a + 1 <= b /\ b - (a + 1) + 1 = b - a /\ \A i \in 1 .. b - a : (a + 1) + i - 1 = a + i
    BY <1>1, <1>3
  <2> QED BY <2>3, <2>4
<1> QED BY <1>2, <1>3

(* Where n terms are cut into K parts.                                       *)
CutAt(c, K, n) ==
    /\ K \in Nat /\ c[0] = 0 /\ c[K] = n
    /\ \A k \in 0 .. K : c[k] \in 0 .. n
    /\ \A k \in 1 .. K : c[k - 1] <= c[k]

(* A sequence cut anywhere joins to itself again.                            *)
LEMMA CutsJoin ==
    ASSUME NEW T, NEW u \in Seq(T), NEW K, NEW c, CutAt(c, K, Len(u)),
           NEW s, \A k \in 1 .. K : s[k] = SubSeq(u, c[k - 1] + 1, c[k])
    PROVE  Concat(Prefix(s, K)) = u
<1> DEFINE B(k) == Concat(Prefix(s, k))
           S == {k \in 0 .. K : B(k) = SubSeq(u, 1, c[k])}
<1> USE DEF CutAt
<1>1. ASSUME NEW a \in 0 .. Len(u), NEW b \in 0 .. Len(u), a <= b
      PROVE  /\ SubSeq(u, a + 1, b) \in Seq(T) /\ SubSeq(u, 1, a) \in Seq(T)
             /\ SubSeq(u, 1, b) = SubSeq(u, 1, a) \o SubSeq(u, a + 1, b)
  <2>1. Len(u) \in Nat /\ \A i \in 1 .. Len(u) : u[i] \in T OBVIOUS
  <2>2. /\ SubSeq(u, a + 1, b) \in Seq(T) /\ Len(SubSeq(u, a + 1, b)) = b - a
        /\ \A i \in 1 .. b - a : SubSeq(u, a + 1, b)[i] = u[a + i]
    BY <1>1, <2>1, Slice
  <2>3. \A d \in 0 .. Len(u) : /\ SubSeq(u, 1, d) \in Seq(T) /\ Len(SubSeq(u, 1, d)) = d
                               /\ \A i \in 1 .. d : SubSeq(u, 1, d)[i] = u[i]
    <3> SUFFICES ASSUME NEW d \in 0 .. Len(u)
                 PROVE  /\ SubSeq(u, 1, d) \in Seq(T) /\ Len(SubSeq(u, 1, d)) = d
                        /\ \A i \in 1 .. d : SubSeq(u, 1, d)[i] = u[i]
      OBVIOUS
    <3>1. 0 \in 0 .. Len(u) /\ d \in 0 .. Len(u) /\ 0 + 1 = 1 /\ d - 0 = d BY <2>1
    <3>2. /\ SubSeq(u, 0 + 1, d) \in Seq(T) /\ Len(SubSeq(u, 0 + 1, d)) = d - 0
          /\ \A i \in 1 .. d - 0 : SubSeq(u, 0 + 1, d)[i] = u[0 + i]
      BY <3>1, Slice
    <3>3. \A i \in 1 .. d : 0 + i = i OBVIOUS
    <3> QED BY <3>1, <3>2, <3>3
  <2> DEFINE p == SubSeq(u, 1, a)
             q == SubSeq(u, a + 1, b)
             r == SubSeq(u, 1, b)
  <2>4. /\ p \in Seq(T) /\ Len(p) = a /\ \A i \in 1 .. a : p[i] = u[i]
        /\ r \in Seq(T) /\ Len(r) = b /\ \A i \in 1 .. b : r[i] = u[i]
    BY <2>3
  <2>5. q \in Seq(T) /\ Len(q) = b - a /\ \A i \in 1 .. b - a : q[i] = u[a + i] BY <2>2
  <2> HIDE DEF p, q, r
  <2>6. p \o q \in Seq(T) /\ Len(p \o q) = b BY <1>1, <2>4, <2>5
  <2>7. ASSUME NEW i \in 1 .. b PROVE (p \o q)[i] = r[i]
    <3>1. CASE i <= a
      <4>1. (p \o q)[i] = p[i] BY <2>4, <2>5, <2>7, <3>1
      <4> QED BY <4>1, <2>4, <3>1
    <3>2. CASE ~(i <= a)
      <4>1. i - a \in 1 .. b - a /\ a + (i - a) = i BY <3>2, <1>1
      <4>2. (p \o q)[i] = q[i - a] BY <2>4, <2>5, <2>7, <3>2
      <4> QED BY <4>1, <4>2, <2>4, <2>5
    <3> QED BY <3>1, <3>2
  <2>8. p \o q = r BY <2>4, <2>6, <2>7, SeqEqual
  <2> QED BY <2>4, <2>5, <2>8 DEF p, q, r
<1>2. \A k \in 1 .. K : s[k] \in Seq(T)
  <2> SUFFICES ASSUME NEW k \in 1 .. K PROVE s[k] \in Seq(T) OBVIOUS
  <2>1. k - 1 \in 0 .. K /\ k \in 0 .. K OBVIOUS
  <2>2. SubSeq(u, c[k - 1] + 1, c[k]) \in Seq(T) BY <1>1, <2>1
  <2> QED BY <2>2
<1>3. Concats(s, K, T) BY <1>2, ConcatsUp
<1>4. 0 \in S
  <2>1. B(0) = <<>> BY <1>3 DEF Concats
  <2>2. SubSeq(u, 1, 0) = <<>> BY SubSeqEmpty
  <2>3. 0 \in 0 .. K /\ c[0] = 0 OBVIOUS
  <2> HIDE DEF B
  <2> QED BY <2>1, <2>2, <2>3
<1>5. ASSUME NEW k \in 0 .. K - 1, k \in S PROVE k + 1 \in S
  <2>1. k + 1 \in 1 .. K /\ (k + 1) - 1 = k /\ k \in 0 .. K /\ k + 1 \in 0 .. K OBVIOUS
  <2>2. B(k + 1) = B(k) \o s[k + 1] BY <1>3, <2>1 DEF Concats
  <2>3. s[k + 1] = SubSeq(u, c[k] + 1, c[k + 1]) /\ c[k] <= c[k + 1] BY <2>1
  <2>4. SubSeq(u, 1, c[k + 1]) = SubSeq(u, 1, c[k]) \o SubSeq(u, c[k] + 1, c[k + 1])
    BY <1>1, <2>1, <2>3
  <2> QED BY <1>5, <2>1, <2>2, <2>3, <2>4
<1>6. 0 .. K \subseteq S
  <2> HIDE DEF S
  <2> QED BY <1>4, <1>5, UpFromZero
<1>7. B(K) = SubSeq(u, 1, Len(u)) BY <1>6
<1>8. SubSeq(u, 1, Len(u)) = u BY SubSeqFull
<1> QED BY <1>7, <1>8

(* What a + b terms of s join to, when r holds the last b.                   *)
Joined(s, a, b, r, T) ==
    /\ Concat(Prefix(s, a)) \in Seq(T) /\ Concat(Prefix(r, b)) \in Seq(T)
    /\ Concat(Prefix(s, a + b)) = Concat(Prefix(s, a)) \o Concat(Prefix(r, b))

(* Two runs of terms, one after the other.                                   *)
LEMMA ConcatSplits ==
    ASSUME NEW T, NEW a \in Nat, NEW b \in Nat, NEW s, \A i \in 1 .. a + b : s[i] \in Seq(T),
           NEW r, \A i \in 1 .. b : r[i] = s[a + i]
    PROVE  Joined(s, a, b, r, T)
<1> DEFINE B(n) == Concat(Prefix(s, n))
           C(n) == Concat(Prefix(r, n))
           S == {n \in 0 .. b : B(a + n) = B(a) \o C(n)}
<1>1. a + b \in Nat /\ a \in 0 .. a + b /\ b \in 0 .. b /\ \A i \in 1 .. b : a + i \in 1 .. a + b
  OBVIOUS
<1>2. \A i \in 1 .. b : r[i] \in Seq(T) BY <1>1
<1>3. Concats(s, a + b, T) BY <1>1, ConcatsUp
<1>4. Concats(r, b, T) BY <1>2, ConcatsUp
<1>5. /\ \A n \in 0 .. a + b : B(n) \in Seq(T)
      /\ \A n \in 1 .. a + b : B(n) = B(n - 1) \o s[n]
  BY <1>3 DEF Concats
<1>6. /\ C(0) = <<>> /\ \A n \in 0 .. b : C(n) \in Seq(T)
      /\ \A n \in 1 .. b : C(n) = C(n - 1) \o r[n]
  BY <1>4 DEF Concats
<1> HIDE DEF B, C
<1>7. 0 \in S
  <2>1. a + 0 = a /\ B(a) \in Seq(T) BY <1>1, <1>5
  <2>2. B(a) \o <<>> = B(a) BY <2>1
  <2> QED BY <1>6, <2>1, <2>2
<1>8. ASSUME NEW n \in 0 .. b - 1, n \in S PROVE n + 1 \in S
  <2>1. /\ n + 1 \in 1 .. b /\ n \in 0 .. b /\ (n + 1) - 1 = n /\ n + 1 \in 0 .. b
        /\ a + (n + 1) \in 1 .. a + b /\ (a + (n + 1)) - 1 = a + n /\ a + n \in 0 .. a + b
    OBVIOUS
  <2>2. B(a + (n + 1)) = B(a + n) \o s[a + (n + 1)] BY <1>5, <2>1
  <2>3. C(n + 1) = C(n) \o r[n + 1] /\ r[n + 1] = s[a + (n + 1)] BY <1>6, <2>1
  <2>4. B(a + n) = B(a) \o C(n) BY <1>8
  <2>5. B(a) \in Seq(T) /\ C(n) \in Seq(T) /\ r[n + 1] \in Seq(T) BY <1>1, <1>2, <1>5, <1>6, <2>1
  <2>6. (B(a) \o C(n)) \o r[n + 1] = B(a) \o (C(n) \o r[n + 1])
    <3>1. \A x, y, z \in Seq(T) : (x \o y) \o z = x \o (y \o z) BY ConcatAssociative
    <3> QED BY <2>5, <3>1
  <2>7. B(a + (n + 1)) = B(a) \o C(n + 1) BY <2>2, <2>3, <2>4, <2>6
  <2> QED BY <2>1, <2>7
<1>9. 0 .. b \subseteq S
  <2> HIDE DEF S
  <2> QED BY <1>7, <1>8, UpFromZero
<1>10. B(a + b) = B(a) \o C(b) BY <1>1, <1>9
<1> QED BY <1>1, <1>5, <1>6, <1>10 DEF B, C, Joined

(* Joining the parts of a sequence of sequences, cut anywhere, and then what *)
(* they join to, is joining them all.                                        *)
LEMMA PartsJoin ==
    ASSUME NEW T, NEW q \in Seq(Seq(T)), NEW K, NEW c, CutAt(c, K, Len(q)),
           NEW s, \A k \in 1 .. K : s[k] = Concat(SubSeq(q, c[k - 1] + 1, c[k]))
    PROVE  Concat(Prefix(s, K)) = Concat(q)
<1> DEFINE A(n) == Concat(Prefix(q, n))
           B(k) == Concat(Prefix(s, k))
           S == {k \in 0 .. K : B(k) = A(c[k])}
<1> USE DEF CutAt
<1>1. Len(q) \in Nat /\ \A i \in 1 .. Len(q) : q[i] \in Seq(T) OBVIOUS
<1>2. Concats(q, Len(q), T) BY <1>1, ConcatsUp
<1>3. ASSUME NEW a \in 0 .. Len(q), NEW b \in a .. Len(q)
      PROVE  /\ Concat(SubSeq(q, a + 1, b)) \in Seq(T)
             /\ A(b) = A(a) \o Concat(SubSeq(q, a + 1, b))
  <2> DEFINE r == SubSeq(q, a + 1, b)
             d == b - a
  <2>1. r \in Seq(Seq(T)) /\ Len(r) = d /\ \A i \in 1 .. d : r[i] = q[a + i] BY <1>1, Slice
  <2>2. a \in Nat /\ d \in Nat /\ a + d = b /\ \A i \in 1 .. a + d : q[i] \in Seq(T) BY <1>1
  <2> HIDE DEF r, d
  <2>3. /\ Concat(Prefix(r, d)) \in Seq(T)
        /\ Concat(Prefix(q, a + d)) = Concat(Prefix(q, a)) \o Concat(Prefix(r, d))
    <3>1. \A i \in 1 .. d : r[i] = q[a + i] BY <2>1
    <3>2. a \in Nat /\ d \in Nat BY <2>2
    <3>3. \A i \in 1 .. a + d : q[i] \in Seq(T) BY <2>2
    <3>4. Joined(q, a, d, r, T) BY <3>1, <3>2, <3>3, ConcatSplits
    <3> QED BY <3>4 DEF Joined
  <2>4. IsRun(r, d) BY <2>1 DEF IsRun
  <2>5. Prefix(r, d) = r BY <2>4, WholePrefix
  <2> QED BY <2>2, <2>3, <2>5 DEF r
<1>4. \A k \in 1 .. K : s[k] \in Seq(T)
  <2> SUFFICES ASSUME NEW k \in 1 .. K PROVE s[k] \in Seq(T) OBVIOUS
  <2>1. k - 1 \in 0 .. K /\ k \in 0 .. K OBVIOUS
  <2>2. c[k - 1] \in 0 .. Len(q) /\ c[k] \in c[k - 1] .. Len(q) BY <1>1, <2>1
  <2>3. Concat(SubSeq(q, c[k - 1] + 1, c[k])) \in Seq(T) BY <1>3, <2>2
  <2> QED BY <2>3
<1>5. Concats(s, K, T) BY <1>4, ConcatsUp
<1>6. 0 \in S
  <2>1. B(0) = <<>> BY <1>5 DEF Concats
  <2>2. A(0) = <<>> BY <1>2 DEF Concats
  <2>3. 0 \in 0 .. K /\ c[0] = 0 OBVIOUS
  <2> HIDE DEF A, B
  <2> QED BY <2>1, <2>2, <2>3
<1>7. ASSUME NEW k \in 0 .. K - 1, k \in S PROVE k + 1 \in S
  <2>1. k + 1 \in 1 .. K /\ (k + 1) - 1 = k /\ k \in 0 .. K /\ k + 1 \in 0 .. K OBVIOUS
  <2>2. B(k + 1) = B(k) \o s[k + 1] BY <1>5, <2>1 DEF Concats
  <2>3. s[k + 1] = Concat(SubSeq(q, c[k] + 1, c[k + 1])) /\ c[k] <= c[k + 1] BY <2>1
  <2>4. c[k] \in 0 .. Len(q) /\ c[k + 1] \in c[k] .. Len(q) BY <1>1, <2>1, <2>3
  <2>5. A(c[k + 1]) = A(c[k]) \o Concat(SubSeq(q, c[k] + 1, c[k + 1])) BY <1>3, <2>4
  <2>6. B(k) = A(c[k]) BY <1>7
  <2> HIDE DEF A, B
  <2> QED BY <2>1, <2>2, <2>3, <2>5, <2>6
<1>8. 0 .. K \subseteq S
  <2> HIDE DEF S
  <2> QED BY <1>6, <1>7, UpFromZero
<1>9. B(K) = A(Len(q)) BY <1>8
<1>10. IsRun(q, Len(q)) BY DEF IsRun
<1>11. Prefix(q, Len(q)) = q BY <1>10, WholePrefix
<1> QED BY <1>9, <1>11

(* Into how many pieces of width w a sequence of n terms is cut.             *)
LEMMA Pieces ==
    ASSUME NEW w \in Nat \ {0}, NEW n \in Nat, NEW K, K = (n + w - 1) \div w
    PROVE  /\ K \in Nat /\ (K = 0) = (n = 0) /\ n <= K * w
           /\ K # 0 => (K - 1) * w < n
<1>1. n + w - 1 \in Nat OBVIOUS
<1>2. K \in Nat BY <1>1
<1>3. K * w <= n + w - 1 /\ n + w - 1 < K * w + w
  OBVIOUS
<1>4. (K - 1) * w = K * w - w BY <1>2
<1>5. K * w \in Nat BY <1>2
<1>6. K = 0 => n = 0 BY <1>3, <1>5
<1>7. K # 0 => K * w >= w
  <2>1. SUFFICES ASSUME K # 0 PROVE K * w >= w OBVIOUS
  <2>2. K - 1 \in Nat BY <1>2, <2>1
  <2>3. (K - 1) * w \in Nat BY <2>2
  <2> QED BY <1>4, <1>5, <2>3
<1>8. n = 0 => K = 0 BY <1>2, <1>3, <1>5, <1>7
<1> QED BY <1>2, <1>3, <1>4, <1>5, <1>6, <1>8

-----------------------------------------------------------------------------
(* Cutting a payload into frames.                                            *)

(* Where the k-th piece of width w of n terms ends.                          *)
Cut(k, w, n) == IF k * w < n THEN k * w ELSE n

(* The cuts of n terms into K pieces of width w, the last one not empty.     *)
Cuts(K, w, n) ==
    /\ K \in Nat /\ (K = 0) = (n = 0)
    /\ Cut(0, w, n) = 0 /\ Cut(K, w, n) = n
    /\ \A k \in 0 .. K : Cut(k, w, n) \in 0 .. n
    /\ \A k \in 1 .. K : /\ Cut(k - 1, w, n) = (k - 1) * w /\ (k - 1) * w \in Nat
                         /\ Cut(k - 1, w, n) < Cut(k, w, n)
                         /\ Cut(k, w, n) <= Cut(k - 1, w, n) + w
                         /\ k # K => Cut(k, w, n) = Cut(k - 1, w, n) + w /\ Cut(k, w, n) < n

LEMMA CutsMade ==
    ASSUME NEW w \in Nat \ {0}, NEW n \in Nat, NEW K, K = (n + w - 1) \div w
    PROVE  Cuts(K, w, n)
<1>1. /\ K \in Nat /\ (K = 0) = (n = 0) /\ n <= K * w
      /\ K # 0 => (K - 1) * w < n
  BY Pieces
<1>2. \A k \in 0 .. K : k * w \in Nat BY <1>1
<1>3. Cut(0, w, n) = 0
  <2>1. 0 * w = 0 OBVIOUS
  <2> QED BY <2>1 DEF Cut
<1>4. Cut(K, w, n) = n
  <2>1. K * w \in Nat BY <1>1, <1>2
  <2> QED BY <1>1, <2>1 DEF Cut
<1>5. \A k \in 0 .. K : Cut(k, w, n) \in 0 .. n
  <2> SUFFICES ASSUME NEW k \in 0 .. K PROVE Cut(k, w, n) \in 0 .. n OBVIOUS
  <2>1. k * w \in Nat BY <1>2
  <2> DEFINE x == k * w
  <2> HIDE DEF x
  <2> QED BY <2>1 DEF Cut, x
<1>6. ASSUME NEW k \in 1 .. K
      PROVE  /\ Cut(k - 1, w, n) = (k - 1) * w /\ (k - 1) * w \in Nat
             /\ Cut(k - 1, w, n) < Cut(k, w, n)
             /\ Cut(k, w, n) <= Cut(k - 1, w, n) + w
             /\ k # K => Cut(k, w, n) = Cut(k - 1, w, n) + w /\ Cut(k, w, n) < n
  <2> DEFINE below(j) == j * w
  <2>1. k \in Nat /\ K \in Nat /\ K # 0 /\ K - k \in Nat /\ k - 1 \in 0 .. K /\ k \in 0 .. K BY <1>1
  <2>2. (K - k) * w \in Nat BY <2>1
  <2>3. below(k) = below(k - 1) + w BY <2>1
  <2>4. below(K - 1) = below(k - 1) + (K - k) * w BY <2>1
  <2>5. below(k - 1) \in Nat /\ below(k) \in Nat /\ below(K - 1) < n BY <1>1, <1>2, <2>1
  <2>6. k # K => (K - k) * w >= w
    <3>1. SUFFICES ASSUME k # K PROVE (K - k) * w >= w OBVIOUS
    <3>2. K - k - 1 \in Nat BY <2>1, <3>1
    <3>3. (K - k - 1) * w \in Nat BY <3>2
    <3>4. (K - k) * w = (K - k - 1) * w + w BY <2>1
    <3> QED BY <3>3, <3>4
  <2> DEFINE rest == (K - k) * w
  <2>7. /\ Cut(k - 1, w, n) = IF below(k - 1) < n THEN below(k - 1) ELSE n
        /\ Cut(k, w, n) = IF below(k) < n THEN below(k) ELSE n
    BY DEF Cut
  <2>8. (k - 1) * w = below(k - 1) OBVIOUS
  <2>9. rest \in Nat /\ below(K - 1) = below(k - 1) + rest /\ (k # K => rest >= w)
    BY <2>2, <2>4, <2>6
  <2>10. below(K - 1) \in Nat /\ w \in Nat /\ w # 0 BY <2>5, <2>9
  <2> HIDE DEF below, rest
  <2>11. below(k - 1) < n BY <2>5, <2>9, <2>10
  <2>12. k # K => below(k) < n BY <2>3, <2>5, <2>9, <2>10
  <2> QED BY <2>3, <2>5, <2>7, <2>8, <2>10, <2>11, <2>12
<1> QED BY <1>1, <1>3, <1>4, <1>5, <1>6 DEF Cuts

(* What the pieces between the cuts hold, and what joining them gives.       *)
Piece(p, k, w) == SubSeq(p, Cut(k - 1, w, Len(p)) + 1, Cut(k, w, Len(p)))

LEMMA PieceOf ==
    ASSUME NEW T, NEW p \in Seq(T), NEW w \in Nat \ {0}, NEW K, Cuts(K, w, Len(p)), NEW k \in 1 .. K
    PROVE  /\ Piece(p, k, w) \in Seq(T)
           /\ Len(Piece(p, k, w)) = Cut(k, w, Len(p)) - Cut(k - 1, w, Len(p))
           /\ Len(Piece(p, k, w)) \in 1 .. w
           /\ k # K => Len(Piece(p, k, w)) = w
           /\ \A i \in 1 .. Len(Piece(p, k, w)) : Piece(p, k, w)[i] = p[Cut(k - 1, w, Len(p)) + i]
<1> DEFINE a == Cut(k - 1, w, Len(p))
           b == Cut(k, w, Len(p))
<1>1. Len(p) \in Nat /\ k \in 0 .. K /\ k - 1 \in 0 .. K BY DEF Cuts
<1>2. a \in 0 .. Len(p) /\ b \in 0 .. Len(p) /\ a < b /\ b <= a + w /\ (k # K => b = a + w)
  BY <1>1 DEF Cuts
<1>3. Piece(p, k, w) = SubSeq(p, a + 1, b) BY DEF Piece
<1> HIDE DEF a, b
<1>4. b \in a .. Len(p) BY <1>1, <1>2
<1>5. /\ SubSeq(p, a + 1, b) \in Seq(T) /\ Len(SubSeq(p, a + 1, b)) = b - a
      /\ \A i \in 1 .. b - a : SubSeq(p, a + 1, b)[i] = p[a + i]
  BY <1>1, <1>2, <1>4, Slice
<1>6. b - a \in 1 .. w /\ (k # K => b - a = w) BY <1>1, <1>2
<1> QED BY <1>3, <1>5, <1>6 DEF a, b

LEMMA PiecesJoin ==
    ASSUME NEW T, NEW p \in Seq(T), NEW w \in Nat \ {0}, NEW K, Cuts(K, w, Len(p)),
           NEW s, \A k \in 1 .. K : s[k] = Piece(p, k, w)
    PROVE  Concat(Prefix(s, K)) = p
<1> DEFINE c == [k \in 0 .. K |-> Cut(k, w, Len(p))]
<1>1. K \in Nat BY DEF Cuts
<1>2. \A k \in 0 .. K : c[k] = Cut(k, w, Len(p)) OBVIOUS
<1>3. \A k \in 1 .. K : k \in 0 .. K /\ k - 1 \in 0 .. K BY <1>1
<1> HIDE DEF c
<1>4. \A k \in 0 .. K : c[k] \in 0 .. Len(p) BY <1>2 DEF Cuts
<1>5. c[0] = 0 /\ c[K] = Len(p) BY <1>1, <1>2 DEF Cuts
<1>6. \A k \in 1 .. K : c[k - 1] <= c[k]
  <2> SUFFICES ASSUME NEW k \in 1 .. K PROVE c[k - 1] <= c[k] OBVIOUS
  <2>1. c[k - 1] < c[k] BY <1>2, <1>3 DEF Cuts
  <2>2. c[k - 1] \in 0 .. Len(p) /\ c[k] \in 0 .. Len(p) BY <1>3, <1>4
  <2> QED BY <2>1, <2>2
<1>7. \A k \in 1 .. K : s[k] = SubSeq(p, c[k - 1] + 1, c[k]) BY <1>2, <1>3 DEF Piece
<1>8. CutAt(c, K, Len(p)) BY <1>1, <1>4, <1>5, <1>6 DEF CutAt
<1> QED BY <1>7, <1>8, CutsJoin

-----------------------------------------------------------------------------
(* The streams of the codecs, whole and cut into frames.                     *)

(* A slice of a slice is a slice.                                            *)
LEMMA SliceTwice ==
    ASSUME NEW T, NEW p \in Seq(T), NEW a \in 0 .. Len(p), NEW b \in a .. Len(p),
           NEW x \in 0 .. b - a, NEW y \in x .. b - a
    PROVE  SubSeq(SubSeq(p, a + 1, b), x + 1, y) = SubSeq(p, (a + x) + 1, a + y)
<1> DEFINE f == SubSeq(p, a + 1, b)
           g == SubSeq(f, x + 1, y)
           h == SubSeq(p, (a + x) + 1, a + y)
<1>1. f \in Seq(T) /\ Len(f) = b - a /\ \A i \in 1 .. b - a : f[i] = p[a + i] BY Slice
<1>2. Len(p) \in Nat /\ x \in 0 .. Len(f) /\ y \in x .. Len(f) BY <1>1
<1>3. a + x \in 0 .. Len(p) /\ a + y \in (a + x) .. Len(p) /\ (a + y) - (a + x) = y - x BY <1>2
<1> HIDE DEF f
<1>4. g \in Seq(T) /\ Len(g) = y - x /\ \A i \in 1 .. y - x : g[i] = f[x + i]
  BY <1>1, <1>2, Slice
<1> DEFINE u == a + x
           v == a + y
<1>5. h \in Seq(T) /\ Len(h) = y - x /\ \A i \in 1 .. y - x : h[i] = p[(a + x) + i]
  <2>1. u \in 0 .. Len(p) /\ v \in u .. Len(p) /\ v - u = y - x BY <1>3
  <2> HIDE DEF u, v
  <2>2. /\ SubSeq(p, u + 1, v) \in Seq(T) /\ Len(SubSeq(p, u + 1, v)) = v - u
        /\ \A i \in 1 .. v - u : SubSeq(p, u + 1, v)[i] = p[u + i]
    BY <2>1, Slice
  <2> QED BY <2>1, <2>2 DEF u, v
<1>6. ASSUME NEW i \in 1 .. y - x PROVE g[i] = h[i]
  <2>1. x + i \in 1 .. b - a /\ a + (x + i) = (a + x) + i BY <1>2
  <2> QED BY <1>1, <1>4, <1>5, <2>1
<1> HIDE DEF g, h
<1>7. g = h BY <1>4, <1>5, <1>6, SeqEqual
<1> QED BY <1>7 DEF f, g, h

LEMMA NoEnd ==
    ASSUME NEW T, NEW p \in Seq(T), \A k \in 1 .. Len(p) : p[k] # End
    PROVE  UpToEnd(p) = p /\ ~HasEnd(p) /\ ~UnusedData(p)
<1>1. DOMAIN p = 1 .. Len(p) OBVIOUS
<1>2. {k \in DOMAIN p : p[k] = End} = {} BY <1>1
<1> QED BY <1>1, <1>2 DEF UpToEnd, HasEnd, UnusedData

LEMMA LastEnd ==
    ASSUME NEW T, NEW p \in Seq(T), Len(p) # 0, p[Len(p)] = End,
           \A k \in 1 .. Len(p) - 1 : p[k] # End
    PROVE  UpToEnd(p) = SubSeq(p, 1, Len(p) - 1) /\ HasEnd(p) /\ ~UnusedData(p)
<1> DEFINE n == Len(p)
           ends == {k \in DOMAIN p : p[k] = End}
<1>1. n \in Nat /\ n # 0 /\ DOMAIN p = 1 .. n OBVIOUS
<1>2. ends = {n}
  <2>1. n \in ends BY <1>1
  <2>2. \A k \in ends : k = n
    <3>1. SUFFICES ASSUME NEW k \in ends, k # n PROVE FALSE OBVIOUS
    <3>2. k \in 1 .. n /\ p[k] = End BY <1>1
    <3> HIDE DEF n, ends
    <3>3. k \in 1 .. n - 1 BY <1>1, <3>1, <3>2
    <3> QED BY <3>2, <3>3 DEF n
  <2> QED BY <2>1, <2>2
<1>3. UpToEnd(p) = IF ends = {} THEN p ELSE SubSeq(p, 1, (CHOOSE k \in ends : \A j \in ends : k <= j) - 1)
  BY DEF UpToEnd
<1>4. (CHOOSE k \in ends : \A j \in ends : k <= j) = n
  <2> HIDE DEF n, ends
  <2>1. \E k \in ends : \A j \in ends : k <= j BY <1>1, <1>2
  <2>2. (CHOOSE k \in ends : \A j \in ends : k <= j) \in ends BY <2>1
  <2> QED BY <1>2, <2>2
<1>5. HasEnd(p) BY <1>1 DEF HasEnd
<1>6. ~UnusedData(p)
  <2>1. \A k \in 1 .. n : k < n => k \in 1 .. n - 1 BY <1>1
  <2> QED BY <1>1, <2>1 DEF UnusedData
<1>7. ends # {} BY <1>2
<1> HIDE DEF ends
<1> QED BY <1>3, <1>4, <1>5, <1>6, <1>7

(* A stream of tokens over W that ends once, at its end, and holds u.        *)
Closed(p, u, W) ==
    /\ p \in Seq(Seq(W)) /\ Len(p) # 0 /\ p[Len(p)] = End
    /\ \A k \in 1 .. Len(p) - 1 : p[k] # End
    /\ Concat(SubSeq(p, 1, Len(p) - 1)) = u

WithEnd(V) == V \cup {<<"end", 0>>}

LEMMA EndToken == ASSUME NEW V PROVE End \in Seq(WithEnd(V))
<1>1. <<"end", 0>> \in WithEnd(V) BY DEF WithEnd
<1> QED BY <1>1 DEF End

(* compress_solid_lane *)
LEMMA Compressed ==
    ASSUME NEW V, <<"end", 0>> \notin V, NEW u \in Seq(V)
    PROVE  Closed(CompressedTokens(u), u, WithEnd(V))
           /\ (u # <<>> => Len(CompressedTokens(u)) > 1)
<1> DEFINE n == Len(u)
           K == (n + 1) \div 2
           W == WithEnd(V)
           runs == [k \in 1 .. K |-> SubSeq(u, 2 * k - 1, IF 2 * k <= n THEN 2 * k ELSE n)]
           p == CompressedTokens(u)
<1>1. n \in Nat /\ n + 1 = n + 2 - 1 /\ 2 \in Nat \ {0} OBVIOUS
<1>2. Cuts(K, 2, n)
  <2>1. K = (n + 2 - 1) \div 2 BY <1>1
  <2> HIDE DEF K, n
  <2> QED BY <1>1, <2>1, CutsMade
<1>3. K \in Nat /\ (K = 0) = (n = 0) BY <1>2 DEF Cuts
<1>4. p = Append(runs, End) BY DEF CompressedTokens
<1>5. ASSUME NEW k \in 1 .. K
      PROVE  runs[k] = Piece(u, k, 2) /\ runs[k] \in Seq(V) /\ Len(runs[k]) \in 1 .. 2
  <2>1. Cut(k - 1, 2, n) = (k - 1) * 2 BY <1>2 DEF Cuts
  <2>2. (k - 1) * 2 + 1 = 2 * k - 1 BY <1>3
  <2>3. Cut(k, 2, n) = IF 2 * k <= n THEN 2 * k ELSE n BY <1>1, <1>3 DEF Cut
  <2>4. runs[k] = Piece(u, k, 2) BY <2>1, <2>2, <2>3 DEF Piece
  <2>5. Piece(u, k, 2) \in Seq(V) /\ Len(Piece(u, k, 2)) \in 1 .. 2 BY <1>1, <1>2, PieceOf
  <2> QED BY <2>4, <2>5
<1>6. IsRun(runs, K) /\ V \subseteq W BY DEF IsRun, WithEnd
<1> HIDE DEF runs, K, n, W
<1>7. \A k \in 1 .. K : runs[k] \in Seq(W) /\ runs[k] # End
  <2> SUFFICES ASSUME NEW k \in 1 .. K PROVE runs[k] \in Seq(W) /\ runs[k] # End OBVIOUS
  <2>1. runs[k] \in Seq(V) /\ Len(runs[k]) \in 1 .. 2 BY <1>5
  <2>2. runs[k][1] \in V BY <2>1
  <2>3. End[1] = <<"end", 0>> BY DEF End
  <2>4. runs[k] # End BY <2>2, <2>3
  <2>5. Seq(V) \subseteq Seq(W) BY <1>6
  <2> QED BY <2>1, <2>4, <2>5
<1>8. runs \in Seq(Seq(W)) /\ Len(runs) = K
  <2>1. [k \in 1 .. K |-> runs[k]] \in [1 .. K -> Seq(W)] BY <1>7
  <2> QED BY <1>3, <1>6, <2>1 DEF IsRun
<1>9. End \in Seq(W) BY EndToken DEF W
<1>10. /\ p \in Seq(Seq(W)) /\ Len(p) = K + 1 /\ p[K + 1] = End
       /\ \A k \in 1 .. K : p[k] = runs[k]
  BY <1>3, <1>4, <1>8, <1>9
<1> HIDE DEF p
<1>11. SubSeq(p, 1, K) = runs
  <2>1. 0 \in 0 .. Len(p) /\ K \in 0 .. Len(p) /\ 0 + 1 = 1 /\ K - 0 = K BY <1>3, <1>10
  <2>2. /\ SubSeq(p, 0 + 1, K) \in Seq(Seq(W)) /\ Len(SubSeq(p, 0 + 1, K)) = K - 0
        /\ \A i \in 1 .. K - 0 : SubSeq(p, 0 + 1, K)[i] = p[0 + i]
    BY <1>10, <2>1, Slice
  <2>3. \A i \in 1 .. K : SubSeq(p, 1, K)[i] = runs[i] BY <1>3, <1>10, <2>1, <2>2
  <2>4. SubSeq(p, 1, K) \in Seq(Seq(W)) /\ Len(SubSeq(p, 1, K)) = K BY <2>1, <2>2
  <2> QED BY <1>8, <2>3, <2>4, SeqEqual
<1>12. Concat(Prefix(runs, K)) = u
  <2>1. \A k \in 1 .. K : runs[k] = Piece(u, k, 2) BY <1>5
  <2>2. Cuts(K, 2, Len(u)) BY <1>2 DEF n
  <2> QED BY <1>1, <2>1, <2>2, PiecesJoin
<1>13. Concat(runs) = u BY <1>6, <1>12, WholePrefix
<1>14. Closed(p, u, W)
  <2>1. Len(p) - 1 = K /\ Len(p) # 0 BY <1>3, <1>10
  <2> QED BY <1>7, <1>10, <1>11, <1>13, <2>1 DEF Closed
<1>15. u # <<>> => Len(p) > 1
  <2>1. u # <<>> => n # 0 BY DEF n
  <2> QED BY <1>3, <1>10, <2>1
<1> QED BY <1>14, <1>15 DEF p, W

(* What the K frames of a lane say of themselves, and that they hold u.      *)
FramesHold(fs, K, u, codec, lane, start) ==
    /\ K \in Nat /\ IsRun(fs, K) /\ (K = 0) = (u = <<>>)
    /\ \A k \in 1 .. K :
          /\ fs[k].sealed /\ fs[k].index = start + k - 1 /\ fs[k].lane = lane
          /\ fs[k].final = (k = K)
          /\ PayloadSizeGood(fs[k], k = K) /\ StreamEnds(fs[k], codec, k = K)
    /\ Concat([k \in 1 .. K |-> FrameUnits(fs[k], codec)]) = u

(* Frame by frame, a raw payload.                                            *)
LEMMA RawPieces ==
    ASSUME NEW W, NEW p \in Seq(Seq(W)), NEW w \in Nat \ {0}, NEW K, Cuts(K, w, Len(p))
    PROVE  Concat([k \in 1 .. K |-> Concat(Piece(p, k, w))]) = Concat(p)
<1> DEFINE s == [k \in 1 .. K |-> Concat(Piece(p, k, w))]
           c == [k \in 0 .. K |-> Cut(k, w, Len(p))]
<1>1. K \in Nat BY DEF Cuts
<1>2. \A k \in 0 .. K : c[k] = Cut(k, w, Len(p)) OBVIOUS
<1>3. \A k \in 1 .. K : k \in 0 .. K /\ k - 1 \in 0 .. K BY <1>1
<1>4. \A k \in 1 .. K : s[k] = Concat(Piece(p, k, w)) OBVIOUS
<1>5. IsRun(s, K) BY DEF IsRun
<1> HIDE DEF c, s
<1>6. \A k \in 0 .. K : c[k] \in 0 .. Len(p) BY <1>2 DEF Cuts
<1>7. c[0] = 0 /\ c[K] = Len(p) BY <1>1, <1>2 DEF Cuts
<1>8. \A k \in 1 .. K : c[k - 1] <= c[k]
  <2> SUFFICES ASSUME NEW k \in 1 .. K PROVE c[k - 1] <= c[k] OBVIOUS
  <2>1. c[k - 1] < c[k] BY <1>2, <1>3 DEF Cuts
  <2>2. c[k - 1] \in 0 .. Len(p) /\ c[k] \in 0 .. Len(p) BY <1>3, <1>6
  <2> QED BY <2>1, <2>2
<1>9. \A k \in 1 .. K : s[k] = Concat(SubSeq(p, c[k - 1] + 1, c[k])) BY <1>2, <1>3, <1>4 DEF Piece
<1>10. CutAt(c, K, Len(p)) BY <1>1, <1>6, <1>7, <1>8 DEF CutAt
<1>11. Concat(Prefix(s, K)) = Concat(p) BY <1>9, <1>10, PartsJoin
<1>12. Concat(s) = Concat(p) BY <1>5, <1>11, WholePrefix
<1> QED BY <1>12 DEF s

(* Frame by frame, a stream with its end: only the last frame has it.        *)
LEMMA ClosedPieces ==
    ASSUME NEW W, NEW p, NEW u, Closed(p, u, W), NEW w \in Nat \ {0}, NEW K, Cuts(K, w, Len(p))
    PROVE  /\ \A k \in 1 .. K : /\ HasEnd(Piece(p, k, w)) = (k = K)
                                /\ ~UnusedData(Piece(p, k, w))
           /\ Concat([k \in 1 .. K |-> Concat(UpToEnd(Piece(p, k, w)))]) = u
<1> DEFINE n == Len(p)
           q == SubSeq(p, 1, n - 1)
           s == [k \in 1 .. K |-> Concat(UpToEnd(Piece(p, k, w)))]
           c == [k \in 0 .. K |-> IF k = K THEN n - 1 ELSE Cut(k, w, n)]
<1>1. /\ p \in Seq(Seq(W)) /\ n \in Nat /\ n # 0 /\ p[n] = End
      /\ \A k \in 1 .. n - 1 : p[k] # End
      /\ Concat(q) = u
  BY DEF Closed
<1>2. K \in Nat /\ K # 0 BY <1>1 DEF Cuts
<1>3. q \in Seq(Seq(W)) /\ Len(q) = n - 1
  <2>1. 0 \in 0 .. n /\ n - 1 \in 0 .. n /\ 0 + 1 = 1 /\ (n - 1) - 0 = n - 1 BY <1>1
  <2>2. SubSeq(p, 0 + 1, n - 1) \in Seq(Seq(W)) /\ Len(SubSeq(p, 0 + 1, n - 1)) = (n - 1) - 0
    BY <1>1, <2>1, Slice
  <2> QED BY <2>1, <2>2
<1>4. \A k \in 1 .. K : k \in 0 .. K /\ k - 1 \in 0 .. K /\ k - 1 # K BY <1>2
<1>5. \A k \in 0 .. K : c[k] = IF k = K THEN n - 1 ELSE Cut(k, w, n) OBVIOUS
<1>6. IsRun(s, K) BY DEF IsRun
<1>7. \A k \in 1 .. K : s[k] = Concat(UpToEnd(Piece(p, k, w))) OBVIOUS
<1> HIDE DEF c, s
<1>8. ASSUME NEW k \in 1 .. K
      PROVE  /\ c[k - 1] = Cut(k - 1, w, n) /\ c[k - 1] \in 0 .. n - 1 /\ c[k] \in c[k - 1] .. n - 1
             /\ UpToEnd(Piece(p, k, w)) = SubSeq(q, c[k - 1] + 1, c[k])
             /\ HasEnd(Piece(p, k, w)) = (k = K)
             /\ ~UnusedData(Piece(p, k, w))
  <2> DEFINE a == Cut(k - 1, w, n)
             b == Cut(k, w, n)
             f == Piece(p, k, w)
  <2>1. a \in 0 .. n /\ b \in 0 .. n /\ a < b /\ (k # K => b < n) /\ (k = K => b = n)
    BY <1>4 DEF Cuts
  <2>2. /\ f \in Seq(Seq(W)) /\ Len(f) = b - a
        /\ \A i \in 1 .. b - a : f[i] = p[a + i]
    <3>1. /\ Piece(p, k, w) \in Seq(Seq(W))
          /\ Len(Piece(p, k, w)) = Cut(k, w, Len(p)) - Cut(k - 1, w, Len(p))
          /\ \A i \in 1 .. Len(Piece(p, k, w)) :
                Piece(p, k, w)[i] = p[Cut(k - 1, w, Len(p)) + i]
      BY <1>1, PieceOf
    <3> QED BY <3>1
  <2>3. f = SubSeq(p, a + 1, b) BY DEF Piece
  <2>4. c[k - 1] = a BY <1>4, <1>5
  <2> HIDE DEF f, a, b
  <2>5. CASE k # K
    <3>1. c[k] = b BY <1>4, <1>5, <2>5 DEF b
    <3>2. \A i \in 1 .. Len(f) : f[i] # End
      <4> SUFFICES ASSUME NEW i \in 1 .. Len(f) PROVE f[i] # End OBVIOUS
      <4>1. i \in 1 .. b - a BY <2>2
      <4>2. a + i \in 1 .. n - 1 BY <1>1, <2>1, <2>5, <4>1
      <4> HIDE DEF n, q
      <4> QED BY <1>1, <2>2, <4>1, <4>2
    <3>3. UpToEnd(f) = f /\ ~HasEnd(f) /\ ~UnusedData(f) BY <2>2, <3>2, NoEnd
    <3>4. f = SubSeq(q, a + 1, b)
      <4> DEFINE z == 0
                 y == n - 1
      <4>1. /\ z \in 0 .. Len(p) /\ y \in z .. Len(p) /\ a \in 0 .. y - z /\ b \in a .. y - z
        BY <1>1, <2>1, <2>5
      <4> HIDE DEF z, y, n
      <4>2. SubSeq(SubSeq(p, z + 1, y), a + 1, b) = SubSeq(p, (z + a) + 1, z + b)
        BY <1>1, <4>1, SliceTwice
      <4>3. z + 1 = 1 /\ z + a = a /\ z + b = b BY <2>1 DEF z
      <4> QED BY <2>3, <4>2, <4>3 DEF y
    <3>5. a \in 0 .. n - 1 /\ b \in a .. n - 1 BY <1>1, <2>1, <2>5
    <3>6. HasEnd(f) = (k = K) BY <2>5, <3>3 DEF HasEnd
    <3>7. UpToEnd(f) = SubSeq(q, c[k - 1] + 1, c[k]) BY <2>4, <3>1, <3>3, <3>4
    <3>8. c[k - 1] \in 0 .. n - 1 /\ c[k] \in c[k - 1] .. n - 1 BY <2>4, <3>1, <3>5
    <3> QED BY <2>4, <3>3, <3>6, <3>7, <3>8 DEF f, a
  <2>6. CASE k = K
    <3>1. c[k] = n - 1 /\ b = n BY <1>4, <1>5, <2>1, <2>6
    <3>2. a \in 0 .. n - 1 /\ n - 1 \in a .. n - 1 BY <1>1, <2>1, <3>1
    <3>3. Len(f) = n - a /\ Len(f) # 0 /\ Len(f) - 1 = (n - 1) - a BY <1>1, <2>1, <2>2, <3>1
    <3>4. f[Len(f)] = End
      <4>1. Len(f) \in 1 .. b - a /\ a + Len(f) = n BY <2>1, <2>2, <3>1, <3>3
      <4> QED BY <1>1, <2>2, <4>1
    <3>5. \A i \in 1 .. Len(f) - 1 : f[i] # End
      <4> SUFFICES ASSUME NEW i \in 1 .. Len(f) - 1 PROVE f[i] # End OBVIOUS
      <4>1. i \in 1 .. b - a /\ a + i \in 1 .. n - 1 BY <1>1, <2>1, <2>2, <3>3
      <4> HIDE DEF n, q
      <4> QED BY <1>1, <2>2, <4>1
    <3>6. UpToEnd(f) = SubSeq(f, 1, Len(f) - 1) /\ HasEnd(f) /\ ~UnusedData(f)
      BY <2>2, <3>3, <3>4, <3>5, LastEnd
    <3>7. SubSeq(f, 1, Len(f) - 1) = SubSeq(q, a + 1, n - 1)
      <4> DEFINE z == 0
                 y == n - 1
                 d == (n - 1) - a
      <4>1. /\ z \in 0 .. Len(p) /\ y \in z .. Len(p) /\ a \in 0 .. y - z /\ y \in a .. y - z
            /\ a \in 0 .. Len(p) /\ b \in a .. Len(p) /\ z \in 0 .. b - a /\ d \in z .. b - a
        BY <1>1, <2>1, <3>1, <3>2
      <4>2. z + 1 = 1 /\ z + a = a /\ z + y = y /\ a + z = a /\ a + d = y /\ Len(f) - 1 = d
        BY <1>1, <2>1, <3>3
      <4> HIDE DEF z, y, d, n
      <4>3. SubSeq(SubSeq(p, z + 1, y), a + 1, y) = SubSeq(p, (z + a) + 1, z + y)
        BY <1>1, <4>1, SliceTwice
      <4>4. SubSeq(SubSeq(p, a + 1, b), z + 1, d) = SubSeq(p, (a + z) + 1, a + d)
        BY <1>1, <4>1, SliceTwice
      <4>5. SubSeq(f, 1, Len(f) - 1) = SubSeq(p, a + 1, y) BY <2>3, <4>2, <4>4
      <4>6. SubSeq(SubSeq(p, 1, y), a + 1, y) = SubSeq(p, a + 1, y) BY <4>2, <4>3
      <4> QED BY <4>5, <4>6 DEF y
    <3> QED BY <2>4, <2>6, <3>1, <3>2, <3>6, <3>7 DEF f, a
  <2> QED BY <2>5, <2>6
<1>9. \A k \in 0 .. K : c[k] \in 0 .. Len(q)
  <2> SUFFICES ASSUME NEW k \in 0 .. K PROVE c[k] \in 0 .. Len(q) OBVIOUS
  <2>1. CASE k = K
    <3>1. n - 1 \in 0 .. n - 1 BY <1>1
    <3> QED BY <1>3, <1>5, <2>1, <3>1
  <2>2. CASE k # K
    <3>1. k + 1 \in 1 .. K /\ (k + 1) - 1 = k BY <1>2, <2>2
    <3>2. c[(k + 1) - 1] \in 0 .. n - 1 BY <1>8, <3>1
    <3> QED BY <1>3, <3>1, <3>2
  <2> QED BY <2>1, <2>2
<1>10. c[0] = 0
  <2>1. 0 \in 0 .. K /\ 0 # K BY <1>2
  <2> QED BY <1>5, <2>1 DEF Cuts
<1>11. c[K] = Len(q)
  <2>1. K \in 0 .. K BY <1>2
  <2> QED BY <1>3, <1>5, <2>1
<1>12. \A k \in 1 .. K : c[k - 1] <= c[k]
  <2> SUFFICES ASSUME NEW k \in 1 .. K PROVE c[k - 1] <= c[k] OBVIOUS
  <2>1. c[k - 1] \in 0 .. n - 1 /\ c[k] \in c[k - 1] .. n - 1 BY <1>8
  <2> QED BY <1>1, <2>1
<1>13. \A k \in 1 .. K : s[k] = Concat(SubSeq(q, c[k - 1] + 1, c[k])) BY <1>7, <1>8
<1>14. Concat(Prefix(s, K)) = Concat(q)
  <2>1. CutAt(c, K, Len(q)) BY <1>2, <1>9, <1>10, <1>11, <1>12 DEF CutAt
  <2> HIDE DEF q
  <2> QED BY <1>3, <1>13, <2>1, PartsJoin
<1>15. Concat(s) = u BY <1>1, <1>6, <1>14, WholePrefix
<1> QED BY <1>8, <1>15 DEF s

(* compress_solid_lane and write_precompressed_solid_lane_frames: the frames *)
(* of a lane hold its units, whichever codec was chosen.                     *)
LEMMA LaneCut ==
    ASSUME NEW V, <<"end", 0>> \notin V, NEW u \in Seq(V), NEW codec, NEW lane, NEW start \in Nat,
           NEW p, p = LanePayload(u, codec)
    PROVE  /\ FramesHold(LaneFrames(p, lane, start), FrameTotal(Len(p)), u, codec, lane, start)
           /\ FrameTotal(Len(p)) \in Nat
<1> DEFINE w == FramePayload
           n == Len(p)
           K == FrameTotal(n)
           fs == LaneFrames(p, lane, start)
<1>1. w \in Nat \ {0} BY LaneAssumption
<1>2. Len(u) \in Nat /\ DOMAIN u = 1 .. Len(u) /\ (u = <<>>) = (Len(u) = 0) OBVIOUS
<1>3. /\ u = <<>> => p = <<>>
      /\ u # <<>> /\ codec = "raw" => p = RawTokens(u)
      /\ u # <<>> /\ codec # "raw" => Closed(p, u, WithEnd(V))
  <2>1. Closed(CompressedTokens(u), u, WithEnd(V)) BY Compressed
  <2> QED BY <2>1 DEF LanePayload
<1>4. ASSUME u # <<>>, codec = "raw"
      PROVE  p \in Seq(Seq(V)) /\ n = Len(u) /\ Concat(p) = u
  <2>1. p = [k \in 1 .. Len(u) |-> <<u[k]>>] BY <1>2, <1>3, <1>4 DEF RawTokens
  <2>2. \A k \in 1 .. Len(u) : <<u[k]>> \in Seq(V)
    <3> SUFFICES ASSUME NEW k \in 1 .. Len(u) PROVE <<u[k]>> \in Seq(V) OBVIOUS
    <3>1. u[k] \in V OBVIOUS
    <3> QED BY <3>1
  <2>3. p \in [1 .. Len(u) -> Seq(V)] BY <2>1, <2>2
  <2>4. IsRun(u, Len(u)) BY <1>2 DEF IsRun
  <2>5. Concat([k \in 1 .. Len(u) |-> <<u[k]>>]) = u BY <1>2, <2>4, ConcatOfSingles
  <2> QED BY <1>2, <2>1, <2>3, <2>5
<1>5. \E T : p \in Seq(T) /\ (n = 0) = (u = <<>>)
  <2>1. CASE u = <<>>
    <3>1. p \in Seq(V) /\ n = 0 BY <1>3, <2>1
    <3> QED BY <2>1, <3>1
  <2>2. CASE u # <<>> /\ codec = "raw" BY <1>2, <1>4, <2>2
  <2>3. CASE u # <<>> /\ codec # "raw"
    <3>1. p \in Seq(Seq(WithEnd(V))) /\ n # 0 BY <1>3, <2>3 DEF Closed
    <3> QED BY <2>3, <3>1
  <2> QED BY <2>1, <2>2, <2>3
<1>6. PICK T : p \in Seq(T) /\ (n = 0) = (u = <<>>) BY <1>5
<1>7. n \in Nat BY <1>6
<1>8. Cuts(K, w, n)
  <2>1. K = (n + w - 1) \div w BY DEF FrameTotal
  <2> HIDE DEF K, n, w
  <2> QED BY <1>1, <1>7, <2>1, CutsMade
<1>9. K \in Nat /\ (K = 0) = (u = <<>>) BY <1>6, <1>8 DEF Cuts
<1>10. fs = [k \in 1 .. K |->
               [sealed |-> TRUE, index |-> start + k - 1, lane |-> lane, final |-> k = K,
                payload |-> SubSeq(p, (k - 1) * w + 1, IF k * w < n THEN k * w ELSE n)]]
  BY DEF LaneFrames
<1> HIDE DEF w, n, K, fs
<1>11. ASSUME NEW k \in 1 .. K
       PROVE  /\ fs[k].sealed = TRUE /\ fs[k].index = start + k - 1 /\ fs[k].lane = lane
              /\ fs[k].final = (k = K) /\ fs[k].payload = Piece(p, k, w)
  <2>1. Cut(k - 1, w, n) = (k - 1) * w BY <1>8 DEF Cuts
  <2>2. Piece(p, k, w) = SubSeq(p, (k - 1) * w + 1, IF k * w < n THEN k * w ELSE n)
    BY <2>1 DEF Piece, Cut, n
  <2> QED BY <1>10, <2>2
<1>12. IsRun(fs, K)
  <2> DEFINE one(k) == [sealed |-> TRUE, index |-> start + k - 1, lane |-> lane, final |-> k = K,
                        payload |-> SubSeq(p, (k - 1) * w + 1, IF k * w < n THEN k * w ELSE n)]
  <2>1. fs = [k \in 1 .. K |-> one(k)] BY <1>10
  <2> HIDE DEF one
  <2> QED BY <2>1 DEF IsRun
<1>13. ASSUME NEW k \in 1 .. K PROVE PayloadSizeGood(fs[k], k = K)
  <2>1. Cuts(K, w, Len(p)) BY <1>8 DEF n
  <2>2. Len(Piece(p, k, w)) \in 1 .. w /\ (k # K => Len(Piece(p, k, w)) = w)
    BY <1>1, <1>6, <2>1, PieceOf
  <2>3. Len(fs[k].payload) <= w /\ (k # K => Len(fs[k].payload) = w)
    <3>1. fs[k].payload = Piece(p, k, w) BY <1>11
    <3>2. Len(Piece(p, k, w)) <= w BY <1>1, <2>2
    <3> QED BY <2>2, <3>1, <3>2
  <2> QED BY <2>3 DEF PayloadSizeGood, w
<1>14. /\ \A k \in 1 .. K : StreamEnds(fs[k], codec, k = K)
       /\ Concat([k \in 1 .. K |-> FrameUnits(fs[k], codec)]) = u
  <2>1. CASE u = <<>>
    <3>1. K = 0 BY <1>9, <2>1
    <3> DEFINE s == [k \in 1 .. K |-> FrameUnits(fs[k], codec)]
    <3>2. IsRun(s, 0) BY <3>1 DEF IsRun
    <3> HIDE DEF s
    <3>3. Prefix(s, 0) = s BY <3>2, WholePrefix
    <3>4. \A i \in 1 .. 0 : s[i] \in Seq(V) OBVIOUS
    <3>5. Concats(s, 0, V) BY <3>4, ConcatsUp
    <3>6. Concat(s) = <<>> BY <3>3, <3>5 DEF Concats
    <3> QED BY <2>1, <3>1, <3>6 DEF s
  <2>2. CASE u # <<>> /\ codec = "raw"
    <3>1. p \in Seq(Seq(V)) /\ Concat(p) = u /\ Cuts(K, w, Len(p)) BY <1>4, <1>8, <2>2 DEF n
    <3>2. Concat([k \in 1 .. K |-> Concat(Piece(p, k, w))]) = u BY <1>1, <3>1, RawPieces
    <3>3. \A k \in 1 .. K : FrameUnits(fs[k], codec) = Concat(Piece(p, k, w))
      BY <1>11, <2>2 DEF FrameUnits
    <3>4. [k \in 1 .. K |-> FrameUnits(fs[k], codec)] = [k \in 1 .. K |-> Concat(Piece(p, k, w))]
      BY <3>3
    <3>5. \A k \in 1 .. K : StreamEnds(fs[k], codec, k = K) BY <2>2 DEF StreamEnds
    <3> QED BY <3>2, <3>4, <3>5
  <2>3. CASE u # <<>> /\ codec # "raw"
    <3>1. Closed(p, u, WithEnd(V)) /\ Cuts(K, w, Len(p)) BY <1>3, <1>8, <2>3 DEF n
    <3>2. /\ \A k \in 1 .. K : /\ HasEnd(Piece(p, k, w)) = (k = K)
                               /\ ~UnusedData(Piece(p, k, w))
          /\ Concat([k \in 1 .. K |-> Concat(UpToEnd(Piece(p, k, w)))]) = u
      BY <1>1, <3>1, ClosedPieces
    <3>3. \A k \in 1 .. K : FrameUnits(fs[k], codec) = Concat(UpToEnd(Piece(p, k, w)))
      BY <1>11, <2>3 DEF FrameUnits
    <3>4. [k \in 1 .. K |-> FrameUnits(fs[k], codec)]
             = [k \in 1 .. K |-> Concat(UpToEnd(Piece(p, k, w)))]
      BY <3>3
    <3>5. ASSUME NEW k \in 1 .. K PROVE StreamEnds(fs[k], codec, k = K)
      <4>1. HasEnd(fs[k].payload) = (k = K) /\ ~UnusedData(fs[k].payload) BY <1>11, <3>2
      <4> QED BY <4>1 DEF StreamEnds
    <3> QED BY <3>2, <3>4, <3>5
  <2> QED BY <2>1, <2>2, <2>3
<1>15. FramesHold(fs, K, u, codec, lane, start) BY <1>9, <1>11, <1>12, <1>13, <1>14 DEF FramesHold
<1> QED BY <1>9, <1>15 DEF K, fs, n

-----------------------------------------------------------------------------
(* The unique chunks of a table of chunks of size 1, and their lanes.        *)

UnitTable(m) == m.chunks \in Seq(UnitRecord)
LaneUnit == (DOMAIN LaneOf) \X {1}

(* There are as many unique records as the table has unique chunks.          *)
LEMMA UniqueListed ==
    ASSUME NEW m, UnitTable(m)
    PROVE  /\ UniqueRecords(m) \in Seq(UnitRecord)
           /\ Len(UniqueRecords(m)) = Cardinality(Unique(m.chunks))
<1> DEFINE L == Len(m.chunks)
           cs == m.chunks
           unique == Unique(cs)
           s == [i \in 1 .. L |-> IF i \in unique THEN <<cs[i]>> ELSE <<>>]
           R(n) == Concat(Prefix(s, n))
           Upto(n) == {i \in unique : i <= n}
           S == {n \in 0 .. L : IsFiniteSet(Upto(n)) /\ Len(R(n)) = Cardinality(Upto(n))}
<1>1. /\ L \in Nat /\ DOMAIN cs = 1 .. L /\ \A i \in 1 .. L : cs[i] \in UnitRecord
  BY DEF UnitTable
<1>2. unique \subseteq 1 .. L BY <1>1 DEF Unique
<1>3. \A i \in 1 .. L : s[i] = IF i \in unique THEN <<cs[i]>> ELSE <<>> OBVIOUS
<1>4. IsRun(s, L) BY DEF IsRun
<1>5. UniqueRecords(m) = Concat(s) BY <1>1 DEF UniqueRecords
<1> HIDE DEF s, L, cs, unique
<1>2a. \A i \in unique : i \in Nat /\ 1 <= i /\ i <= L BY <1>1, <1>2
<1>6. \A i \in 1 .. L : s[i] \in Seq(UnitRecord)
  <2> SUFFICES ASSUME NEW i \in 1 .. L PROVE s[i] \in Seq(UnitRecord) OBVIOUS
  <2>1. <<cs[i]>> \in Seq(UnitRecord) /\ <<>> \in Seq(UnitRecord)
    <3>1. cs[i] \in UnitRecord BY <1>1
    <3> QED BY <3>1
  <2> QED BY <1>3, <2>1
<1>7. Concats(s, L, UnitRecord) BY <1>1, <1>6, ConcatsUp
<1>8. 0 \in S
  <2>1. R(0) = <<>> BY <1>7 DEF Concats
  <2>2. Upto(0) = {} BY <1>2a
  <2>3. IsFiniteSet({}) /\ Cardinality({}) = 0 BY FS_EmptySet
  <2> HIDE DEF R, Upto
  <2>4. Len(R(0)) = 0 BY <2>1
  <2>5. IsFiniteSet(Upto(0)) /\ Len(R(0)) = Cardinality(Upto(0)) BY <2>2, <2>3, <2>4
  <2> QED BY <1>1, <2>5
<1>9. ASSUME NEW n \in 0 .. L - 1, n \in S PROVE n + 1 \in S
  <2>1. n + 1 \in 1 .. L /\ (n + 1) - 1 = n /\ n \in 0 .. L /\ n + 1 \in 0 .. L BY <1>1
  <2>2. R(n + 1) = R(n) \o s[n + 1] /\ R(n) \in Seq(UnitRecord) BY <1>7, <2>1 DEF Concats
  <2>3. IsFiniteSet(Upto(n)) /\ Len(R(n)) = Cardinality(Upto(n)) BY <1>9
  <2>4. CASE n + 1 \in unique
    <3>1. Upto(n + 1) = Upto(n) \cup {n + 1} /\ n + 1 \notin Upto(n) BY <1>2a, <2>1, <2>4
    <3>2. s[n + 1] = <<cs[n + 1]>> /\ cs[n + 1] \in UnitRecord BY <1>1, <1>3, <2>1, <2>4
    <3> HIDE DEF R, Upto
    <3>3. Len(R(n + 1)) = Len(R(n)) + 1 BY <2>2, <3>2
    <3>4. IsFiniteSet(Upto(n) \cup {n + 1})
          /\ Cardinality(Upto(n) \cup {n + 1}) = Cardinality(Upto(n)) + 1
      BY <2>3, <3>1, FS_AddElement
    <3> QED BY <2>1, <2>3, <3>1, <3>3, <3>4
  <2>5. CASE n + 1 \notin unique
    <3>1. Upto(n + 1) = Upto(n) BY <1>2a, <2>1, <2>5
    <3>2. s[n + 1] = <<>> BY <1>3, <2>1, <2>5
    <3> HIDE DEF R, Upto
    <3>3. R(n + 1) = R(n) BY <2>2, <3>2
    <3> QED BY <2>1, <2>3, <3>1, <3>3
  <2> QED BY <2>4, <2>5
<1>10. 0 .. L \subseteq S
  <2> HIDE DEF S
  <2> QED BY <1>1, <1>8, <1>9, UpFromZero
<1>11. L \in 0 .. L /\ Prefix(s, L) = s BY <1>1, <1>4, WholePrefix
<1>12. Concat(s) \in Seq(UnitRecord) BY <1>7, <1>11 DEF Concats
<1>13. Upto(L) = unique BY <1>2a
<1>14. Len(Concat(s)) = Cardinality(unique)
  <2>1. Len(R(L)) = Cardinality(Upto(L)) BY <1>10, <1>11
  <2> QED BY <1>11, <1>13, <2>1
<1> QED BY <1>5, <1>12, <1>14 DEF unique, cs

(* The lane and the size of every unique chunk.                              *)
LEMMA AssignmentsListed ==
    ASSUME NEW m, UnitTable(m)
    PROVE  LET n == Len(UniqueRecords(m)) IN
           /\ n \in Nat
           /\ Assignments(m) = [k \in 1 .. n |-> LaneOf[UniqueRecords(m)[k].digest]]
           /\ SizesOf(m) = [k \in 1 .. n |-> 1]
           /\ \A k \in 1 .. n : Assignments(m)[k] \in Lanes
<1> DEFINE r == UniqueRecords(m)
           n == Len(r)
<1>1. r \in Seq(UnitRecord) BY UniqueListed
<1>2. n \in Nat /\ DOMAIN r = 1 .. n /\ \A k \in 1 .. n : r[k] \in UnitRecord BY <1>1
<1> HIDE DEF r
<1>3. \A k \in 1 .. n : LaneOf[r[k].digest] \in Lanes /\ r[k].size = 1
  BY <1>2, LaneAssumption DEF UnitRecord, Lanes
<1>4. Assignments(m) = Concat([k \in 1 .. n |-> <<LaneOf[r[k].digest]>>])
  BY <1>2 DEF Assignments, r
<1>5. SizesOf(m) = Concat([k \in 1 .. n |-> <<r[k].size>>]) BY <1>2 DEF SizesOf, r
<1> HIDE DEF n
<1> DEFINE a == [k \in 1 .. n |-> LaneOf[r[k].digest]]
           z == [k \in 1 .. n |-> 1]
<1>6. IsRun(a, n) /\ IsRun(z, n) BY DEF IsRun
<1>7. \A k \in 1 .. n : a[k] = LaneOf[r[k].digest] /\ z[k] = r[k].size BY <1>3
<1> HIDE DEF a, z
<1>8. Concat([k \in 1 .. n |-> <<a[k]>>]) = a BY <1>2, <1>6, ConcatOfSingles
<1>9. Concat([k \in 1 .. n |-> <<z[k]>>]) = z BY <1>2, <1>6, ConcatOfSingles
<1>10. /\ [k \in 1 .. n |-> <<a[k]>>] = [k \in 1 .. n |-> <<LaneOf[r[k].digest]>>]
       /\ [k \in 1 .. n |-> <<z[k]>>] = [k \in 1 .. n |-> <<r[k].size>>]
  BY <1>7
<1>11. Assignments(m) = a /\ SizesOf(m) = z BY <1>4, <1>5, <1>8, <1>9, <1>10
<1>12. \A k \in 1 .. n : a[k] \in Lanes BY <1>3, <1>7
<1> QED BY <1>2, <1>11, <1>12 DEF a, z, n, r

(* What n terms join to is as long as the terms together.                    *)
LengthsAdd(s, z, N) ==
    \A n \in 0 .. N : Len(Concat(Prefix(s, n))) = Sum(Prefix(z, n)) /\ Sum(Prefix(z, n)) \in Nat

LEMMA LengthsSum ==
    ASSUME NEW N \in Nat, NEW T, NEW s, \A i \in 1 .. N : s[i] \in Seq(T),
           NEW z, \A i \in 1 .. N : z[i] = Len(s[i])
    PROVE  LengthsAdd(s, z, N)
<1> DEFINE B(n) == Concat(Prefix(s, n))
           Z(n) == Sum(Prefix(z, n))
           S == {n \in 0 .. N : Len(B(n)) = Z(n) /\ Z(n) \in Nat}
<1>1. \A i \in 1 .. N : z[i] \in Nat
  <2> SUFFICES ASSUME NEW i \in 1 .. N PROVE z[i] \in Nat OBVIOUS
  <2>1. s[i] \in Seq(T) OBVIOUS
  <2>2. Len(s[i]) \in Nat BY <2>1
  <2> QED BY <2>2
<1>2. Sums(z, N) BY <1>1, SumsUp
<1>3. Concats(s, N, T) BY ConcatsUp
<1>4. /\ B(0) = <<>> /\ \A n \in 0 .. N : B(n) \in Seq(T)
      /\ \A n \in 1 .. N : B(n) = B(n - 1) \o s[n]
  BY <1>3 DEF Concats
<1>5. Z(0) = 0 /\ \A n \in 1 .. N : Z(n) = Z(n - 1) + z[n] BY <1>2 DEF Sums
<1> HIDE DEF B, Z
<1>6. 0 \in S BY <1>4, <1>5
<1>7. ASSUME NEW n \in 0 .. N - 1, n \in S PROVE n + 1 \in S
  <2>1. n + 1 \in 1 .. N /\ (n + 1) - 1 = n /\ n \in 0 .. N /\ n + 1 \in 0 .. N OBVIOUS
  <2>2. B(n + 1) = B(n) \o s[n + 1] /\ Z(n + 1) = Z(n) + z[n + 1] BY <1>4, <1>5, <2>1
  <2>3. B(n) \in Seq(T) /\ s[n + 1] \in Seq(T) BY <1>4, <2>1
  <2>4. Len(B(n) \o s[n + 1]) = Len(B(n)) + Len(s[n + 1]) BY <2>3
  <2>5. Len(B(n)) = Z(n) /\ Z(n) \in Nat /\ z[n + 1] = Len(s[n + 1]) /\ z[n + 1] \in Nat
    BY <1>1, <1>7, <2>1
  <2>6. Len(B(n + 1)) = Z(n + 1) /\ Z(n + 1) \in Nat BY <2>2, <2>4, <2>5
  <2> QED BY <2>1, <2>6
<1>8. 0 .. N \subseteq S
  <2> HIDE DEF S
  <2> QED BY <1>6, <1>7, UpFromZero
<1> QED BY <1>8 DEF B, Z, LengthsAdd

-----------------------------------------------------------------------------
(* The three lanes of a table of chunks of one unit.                         *)

(* What chunk k puts into a lane, and how much.                              *)
Share(m, lane) ==
    [k \in 1 .. Len(UniqueRecords(m)) |->
        IF Assignments(m)[k] = lane THEN << <<UniqueRecords(m)[k].digest, 1>> >> ELSE <<>>]
ShareSize(m, lane) ==
    [k \in 1 .. Len(UniqueRecords(m)) |-> IF Assignments(m)[k] = lane THEN 1 ELSE 0]

SharesOf(m, lane) ==
    /\ LaneUnits(m, Assignments(m), lane) = Concat(Share(m, lane))
    /\ \A k \in 1 .. Len(UniqueRecords(m)) :
          /\ Share(m, lane)[k] \in Seq(LaneUnit)
          /\ Len(Share(m, lane)[k]) = ShareSize(m, lane)[k]
    /\ LaneUnits(m, Assignments(m), lane) \in Seq(LaneUnit)
    /\ Len(LaneUnits(m, Assignments(m), lane)) = Sum(ShareSize(m, lane))
    /\ \A n \in 0 .. Len(UniqueRecords(m)) :
          Len(Concat(Prefix(Share(m, lane), n))) = Sum(Prefix(ShareSize(m, lane), n))

LEMMA LaneShares == ASSUME NEW m, UnitTable(m), NEW lane PROVE SharesOf(m, lane)
<1> DEFINE r == UniqueRecords(m)
           n == Len(r)
           A == Assignments(m)
           s == Share(m, lane)
           z == ShareSize(m, lane)
<1>1. r \in Seq(UnitRecord) BY UniqueListed
<1>2. n \in Nat /\ DOMAIN r = 1 .. n BY <1>1
<1>3. \A k \in 1 .. n : r[k] \in UnitRecord BY <1>1
<1>4. /\ \A k \in 1 .. n : s[k] = IF A[k] = lane THEN << <<r[k].digest, 1>> >> ELSE <<>>
      /\ \A k \in 1 .. n : z[k] = IF A[k] = lane THEN 1 ELSE 0
      /\ IsRun(s, n) /\ IsRun(z, n)
  BY DEF Share, ShareSize, IsRun
<1> HIDE DEF r, n, A, s, z
<1>5. \A k \in 1 .. n : Units(r[k].digest, r[k].size) = << <<r[k].digest, 1>> >>
  <2> SUFFICES ASSUME NEW k \in 1 .. n
               PROVE  Units(r[k].digest, r[k].size) = << <<r[k].digest, 1>> >>
    OBVIOUS
  <2>1. r[k].size = 1 BY <1>3 DEF UnitRecord
  <2>2. Units(r[k].digest, 1) = [j \in 1 .. 1 |-> <<r[k].digest, j>>] BY DEF Units
  <2>3. [j \in 1 .. 1 |-> <<r[k].digest, j>>] = << <<r[k].digest, 1>> >> OBVIOUS
  <2> QED BY <2>1, <2>2, <2>3
<1>6. LaneUnits(m, A, lane) = Concat(s)
  <2>1. LaneUnits(m, A, lane)
          = Concat([k \in 1 .. n |-> IF A[k] = lane THEN Units(r[k].digest, r[k].size) ELSE <<>>])
    BY <1>2 DEF LaneUnits, r
  <2>2. [k \in 1 .. n |-> IF A[k] = lane THEN Units(r[k].digest, r[k].size) ELSE <<>>] = s
    <3>1. \A k \in 1 .. n : s[k] = IF A[k] = lane THEN Units(r[k].digest, r[k].size) ELSE <<>>
      BY <1>4, <1>5
    <3> QED BY <1>4, <3>1 DEF IsRun
  <2> QED BY <2>1, <2>2
<1>7. ASSUME NEW k \in 1 .. n PROVE s[k] \in Seq(LaneUnit) /\ Len(s[k]) = z[k]
  <2>1. <<r[k].digest, 1>> \in LaneUnit BY <1>3 DEF UnitRecord, LaneUnit
  <2>2. << <<r[k].digest, 1>> >> \in Seq(LaneUnit) /\ Len(<< <<r[k].digest, 1>> >>) = 1
    <3> DEFINE x == <<r[k].digest, 1>>
    <3> HIDE DEF x
    <3>1. x \in LaneUnit BY <2>1 DEF x
    <3>2. <<x>> \in Seq(LaneUnit) /\ Len(<<x>>) = 1 BY <3>1
    <3> QED BY <3>2 DEF x
  <2>3. <<>> \in Seq(LaneUnit) /\ Len(<<>>) = 0 OBVIOUS
  <2> QED BY <1>4, <2>2, <2>3
<1>8. \A j \in 0 .. n : Len(Concat(Prefix(s, j))) = Sum(Prefix(z, j))
  <2>1. \A k \in 1 .. n : s[k] \in Seq(LaneUnit) BY <1>7
  <2>2. \A k \in 1 .. n : z[k] = Len(s[k]) BY <1>7
  <2>3. LengthsAdd(s, z, n) BY <1>2, <2>1, <2>2, LengthsSum
  <2> QED BY <2>3 DEF LengthsAdd
<1>9. n \in 0 .. n /\ Prefix(s, n) = s /\ Prefix(z, n) = z BY <1>2, <1>4, WholePrefix
<1>10. Concat(s) \in Seq(LaneUnit)
  <2>1. \A k \in 1 .. n : s[k] \in Seq(LaneUnit) BY <1>7
  <2>2. Concats(s, n, LaneUnit) BY <1>2, <2>1, ConcatsUp
  <2> QED BY <1>9, <2>2 DEF Concats
<1>11. Len(Concat(s)) = Sum(z) BY <1>8, <1>9
<1> QED BY <1>6, <1>7, <1>8, <1>10, <1>11 DEF s, z, n, r, A, SharesOf

(* The chunks that the lanes (content) give back are those of the table.     *)
AllFound(m, content) ==
    \A k \in DOMAIN UniqueRecords(m) :
        ChunkIn(content, Assignments(m), SizesOf(m), k)
            = Units(UniqueRecords(m)[k].digest, UniqueRecords(m)[k].size)

(* read_unique_chunk: each chunk is found where the sizes of the chunks      *)
(* before it in its lane say.                                                *)
LEMMA ChunksFound ==
    ASSUME NEW m, UnitTable(m), NEW content,
           \A l \in Lanes : content[l] = LaneUnits(m, Assignments(m), l)
    PROVE  AllFound(m, content)
<1> DEFINE r == UniqueRecords(m)
           n == Len(r)
           A == Assignments(m)
           Z == SizesOf(m)
<1>1. /\ n \in Nat /\ Z = [k \in 1 .. n |-> 1] /\ \A k \in 1 .. n : A[k] \in Lanes
  BY AssignmentsListed
<1>2. r \in Seq(UnitRecord) BY UniqueListed
<1>3. DOMAIN r = 1 .. n /\ \A k \in 1 .. n : r[k] \in UnitRecord BY <1>2
<1> HIDE DEF r, n, A, Z
<1>4. ASSUME NEW k \in 1 .. n
      PROVE  ChunkIn(content, A, Z, k) = Units(r[k].digest, r[k].size)
  <2> DEFINE l == A[k]
             s == Share(m, l)
             z == ShareSize(m, l)
             u == LaneUnits(m, A, l)
             at == LaneOffset(A, Z, k)
  <2>1. /\ u = Concat(s)
        /\ \A j \in 1 .. n : s[j] \in Seq(LaneUnit) /\ Len(s[j]) = z[j]
        /\ \A j \in 0 .. n : Len(Concat(Prefix(s, j))) = Sum(Prefix(z, j))
    <3>1. SharesOf(m, l) BY LaneShares
    <3> QED BY <3>1 DEF SharesOf, n, r, A
  <2>2. /\ \A j \in 1 .. n : s[j] = IF A[j] = l THEN << <<r[j].digest, 1>> >> ELSE <<>>
        /\ \A j \in 1 .. n : z[j] = IF A[j] = l THEN 1 ELSE 0
        /\ IsRun(s, n) /\ IsRun(z, n)
    BY DEF Share, ShareSize, IsRun, n, r, A
  <2>3. at = Sum(Prefix(z, k - 1))
    <3>1. at = Sum([j \in 1 .. k - 1 |-> IF A[j] = A[k] THEN Z[j] ELSE 0]) BY DEF LaneOffset
    <3>2. \A j \in 1 .. k - 1 : z[j] = IF A[j] = A[k] THEN Z[j] ELSE 0 BY <1>1, <2>2
    <3>3. [j \in 1 .. k - 1 |-> IF A[j] = A[k] THEN Z[j] ELSE 0] = Prefix(z, k - 1)
      BY <3>2 DEF Prefix
    <3> QED BY <3>1, <3>3
  <2>4. k - 1 \in 0 .. n BY <1>1
  <2>5. Len(Concat(Prefix(s, k - 1))) = at BY <2>1, <2>3, <2>4
  <2> HIDE DEF s, z, u, at
  <2>6. /\ at \in Nat /\ at + Len(s[k]) <= Len(Concat(Prefix(s, n)))
        /\ Concat(Prefix(s, n)) \in Seq(LaneUnit)
        /\ \A x \in 1 .. Len(s[k]) : Concat(Prefix(s, n))[at + x] = s[k][x]
    <3>1. \A j \in 1 .. n : s[j] \in Seq(LaneUnit) BY <2>1
    <3>2. TermFound(s, n, LaneUnit, k) BY <1>1, <3>1, TermIn
    <3> QED BY <2>5, <3>2 DEF TermFound
  <2>7. Concat(Prefix(s, n)) = u BY <2>1, <2>2, WholePrefix
  <2> DEFINE v == <<r[k].digest, 1>>
  <2>8. s[k] = <<v>> BY <2>2
  <2> HIDE DEF v
  <2>9. Len(<<v>>) = 1 /\ <<v>>[1] = v OBVIOUS
  <2>10. at + 1 <= Len(u) /\ u \in Seq(LaneUnit) /\ u[at + 1] = v
    BY <2>6, <2>7, <2>8, <2>9
  <2>11. content[A[k]] = u /\ Z[k] = 1
    <3>1. A[k] \in Lanes BY <1>1
    <3> QED BY <1>1, <3>1 DEF u, l, A
  <2>12. ChunkIn(content, A, Z, k) = SubSeq(u, at + 1, at + 1) BY <2>11 DEF ChunkIn, at
  <2>13. SubSeq(u, at + 1, at + 1) = <<v>>
    <3>1. at \in 0 .. Len(u) /\ at + 1 \in at .. Len(u) /\ (at + 1) - at = 1
      <4>1. Len(u) \in Nat BY <2>10
      <4> QED BY <2>6, <2>10, <4>1
    <3> DEFINE b == at + 1
    <3>2. at \in 0 .. Len(u) /\ b \in at .. Len(u) /\ b - at = 1 /\ b = at + 1 BY <3>1
    <3> HIDE DEF b
    <3>3. /\ SubSeq(u, at + 1, b) \in Seq(LaneUnit) /\ Len(SubSeq(u, at + 1, b)) = b - at
          /\ \A i \in 1 .. b - at : SubSeq(u, at + 1, b)[i] = u[at + i]
      BY <2>10, <3>2, Slice
    <3> DEFINE w == SubSeq(u, at + 1, b)
    <3>4. w \in Seq(LaneUnit) /\ Len(w) = 1 /\ w[1] = v BY <2>10, <3>2, <3>3
    <3> HIDE DEF w
    <3>5. w = <<v>> BY <3>4
    <3> QED BY <3>2, <3>5 DEF w
  <2>14. Units(r[k].digest, r[k].size) = <<v>>
    <3>1. r[k].size = 1 BY <1>3 DEF UnitRecord
    <3>2. Units(r[k].digest, 1) = [j \in 1 .. 1 |-> <<r[k].digest, j>>] BY DEF Units
    <3>3. [j \in 1 .. 1 |-> <<r[k].digest, j>>] = << <<r[k].digest, 1>> >> OBVIOUS
    <3> QED BY <3>1, <3>2, <3>3 DEF v
  <2> QED BY <2>12, <2>13, <2>14
<1> QED BY <1>3, <1>4 DEF AllFound, r, A, Z

(* The units of a lane are no ends of streams.                               *)
LEMMA UnitsEnd == <<"end", 0>> \notin LaneUnit
  BY DEF LaneUnit

(* decode_solid_chunks gives back what encode_solid_chunks was given.        *)
LEMMA SolidPacked ==
    ASSUME NEW m, UnitTable(m)
    PROVE  /\ DecodeSolid(SolidPayload(m), SizesOf(m))
           /\ \A k \in DOMAIN UniqueRecords(m) :
                 SolidChunk(SolidPayload(m), SizesOf(m), k)
                     = Units(UniqueRecords(m)[k].digest, UniqueRecords(m)[k].size)
<1> DEFINE r == UniqueRecords(m)
           n == Len(r)
           A == Assignments(m)
           Z == SizesOf(m)
           p == SolidPayload(m)
           Lane(l) == LaneUnits(m, A, l)
           content == [l \in Lanes |-> DecompressedLane(p.lanes[l].payload)]
<1>1. /\ n \in Nat /\ Z = [k \in 1 .. n |-> 1] /\ \A k \in 1 .. n : A[k] \in Lanes
      /\ A = [k \in 1 .. n |-> LaneOf[r[k].digest]]
  BY AssignmentsListed
<1>2. r \in Seq(UnitRecord) BY UniqueListed
<1>3. \A k \in 1 .. n : r[k].size = 1
  <2>1. \A k \in 1 .. n : r[k] \in UnitRecord BY <1>2
  <2> QED BY <2>1 DEF UnitRecord
<1>4. /\ p.descriptors = [k \in DOMAIN A |-> [lane |-> A[k], size |-> r[k].size]]
      /\ \A l \in Lanes : /\ p.lanes[l].raw = Len(Lane(l))
                          /\ p.lanes[l].payload = IF Lane(l) = <<>> THEN <<>> ELSE CompressedTokens(Lane(l))
  BY DEF SolidPayload
<1>5. \A l : SharesOf(m, l) BY LaneShares
<1>6. \A l : Lane(l) \in Seq(LaneUnit) /\ Len(Lane(l)) = Sum(ShareSize(m, l)) BY <1>5 DEF SharesOf
<1>7. DOMAIN A = 1 .. n /\ DOMAIN Z = 1 .. n /\ \A k \in 1 .. n : Z[k] = 1 BY <1>1
<1>8. Len(Z) = n
  <2>1. Z \in [1 .. n -> Nat] BY <1>1
  <2> HIDE DEF Z, n
  <2> QED BY <1>1, <2>1
<1>9. \A l : ShareSize(m, l) = [k \in 1 .. n |-> IF A[k] = l THEN 1 ELSE 0] BY DEF ShareSize
<1> HIDE DEF r, n, A, Z, p, Lane
<1>10. \A k \in 1 .. n : p.descriptors[k].lane = A[k] /\ p.descriptors[k].size = 1
  BY <1>3, <1>4, <1>7
<1>11. Len(p.descriptors) = n
  <2> DEFINE T == {p.descriptors[k] : k \in 1 .. n}
  <2>1. p.descriptors \in [1 .. n -> T] BY <1>4, <1>7
  <2> HIDE DEF T
  <2> QED BY <1>1, <2>1
<1>12. \A l \in Lanes : (p.lanes[l].raw = 0) = (Lane(l) = <<>>)
  <2> SUFFICES ASSUME NEW l \in Lanes PROVE (p.lanes[l].raw = 0) = (Lane(l) = <<>>) OBVIOUS
  <2>1. Lane(l) \in Seq(LaneUnit) /\ p.lanes[l].raw = Len(Lane(l)) BY <1>4, <1>6
  <2> QED BY <2>1
<1>13. ASSUME NEW l \in Lanes, Lane(l) # <<>>
       PROVE  /\ HasEnd(p.lanes[l].payload) /\ ~UnusedData(p.lanes[l].payload)
              /\ DecompressedLane(p.lanes[l].payload) = Lane(l)
  <2> DEFINE q == p.lanes[l].payload
             W == WithEnd(LaneUnit)
  <2>1. q = CompressedTokens(Lane(l)) BY <1>4, <1>13
  <2>2. Lane(l) \in Seq(LaneUnit) BY <1>6
  <2> HIDE DEF q
  <2>3. Closed(q, Lane(l), W) BY <2>1, <2>2, Compressed, UnitsEnd
  <2> HIDE DEF W
  <2>4. /\ q \in Seq(Seq(W)) /\ Len(q) # 0 /\ q[Len(q)] = End
        /\ \A k \in 1 .. Len(q) - 1 : q[k] # End
        /\ Concat(SubSeq(q, 1, Len(q) - 1)) = Lane(l)
    BY <2>3 DEF Closed
  <2>5. UpToEnd(q) = SubSeq(q, 1, Len(q) - 1) /\ HasEnd(q) /\ ~UnusedData(q) BY <2>4, LastEnd
  <2> QED BY <2>4, <2>5 DEF DecompressedLane, q
<1>14. ASSUME NEW l \in Lanes PROVE DecompressedLane(p.lanes[l].payload) = Lane(l)
  <2>1. CASE Lane(l) = <<>>
    <3>1. p.lanes[l].payload = <<>> BY <1>4, <2>1
    <3>2. <<>> \in Seq(LaneUnit) /\ \A k \in 1 .. Len(<<>>) : <<>>[k] # End OBVIOUS
    <3>3. UpToEnd(<<>>) = <<>> BY <3>2, NoEnd
    <3> DEFINE e == <<>>
    <3>4. \A k \in 1 .. 0 : e[k] \in Seq(LaneUnit) OBVIOUS
    <3>5. Concats(e, 0, LaneUnit) BY <3>4, ConcatsUp
    <3>6. IsRun(e, 0) BY DEF IsRun
    <3>7. Concat(e) = <<>> BY <3>5, <3>6, WholePrefix DEF Concats
    <3> QED BY <2>1, <3>1, <3>3, <3>7 DEF DecompressedLane
  <2> QED BY <1>13, <2>1
<1>15. ASSUME NEW l \in Lanes
       PROVE  p.lanes[l].raw = Sum([k \in DOMAIN Z |-> IF p.descriptors[k].lane = l THEN Z[k] ELSE 0])
  <2>1. [k \in DOMAIN Z |-> IF p.descriptors[k].lane = l THEN Z[k] ELSE 0]
          = [k \in 1 .. n |-> IF A[k] = l THEN 1 ELSE 0]
    BY <1>7, <1>10
  <2>2. p.lanes[l].raw = Sum([k \in 1 .. n |-> IF A[k] = l THEN 1 ELSE 0])
    <3>1. p.lanes[l].raw = Len(Lane(l)) BY <1>4
    <3>2. Len(Lane(l)) = Sum(ShareSize(m, l)) BY <1>6
    <3>3. ShareSize(m, l) = [k \in 1 .. n |-> IF A[k] = l THEN 1 ELSE 0] BY <1>9
    <3> QED BY <3>1, <3>2, <3>3
  <2> QED BY <2>1, <2>2
<1>16. DecodeSolid(p, Z)
  <2>1. \A k \in DOMAIN Z : p.descriptors[k].lane \in Lanes /\ p.descriptors[k].size = Z[k]
    BY <1>1, <1>7, <1>10
  <2>2. ASSUME NEW l \in Lanes
        PROVE  IF p.lanes[l].raw = 0 THEN p.lanes[l].payload = <<>>
               ELSE /\ HasEnd(p.lanes[l].payload) /\ ~UnusedData(p.lanes[l].payload)
                    /\ Len(DecompressedLane(p.lanes[l].payload)) = p.lanes[l].raw
    BY <1>4, <1>12, <1>13
  <2> QED BY <1>8, <1>11, <1>15, <2>1, <2>2 DEF DecodeSolid
<1>17. [j \in DOMAIN Z |-> p.descriptors[j].lane] = A
  <2>1. A = [k \in 1 .. n |-> A[k]] BY <1>1
  <2> QED BY <1>7, <1>10, <2>1
<1>18. \A l \in Lanes : content[l] = LaneUnits(m, Assignments(m), l) BY <1>14 DEF Lane, A
<1> HIDE DEF content
<1>19. AllFound(m, content) BY <1>18, ChunksFound
<1>20. \A k : SolidChunk(p, Z, k) = ChunkIn(content, A, Z, k) BY <1>17 DEF SolidChunk, content
<1>21. \A k \in DOMAIN r : ChunkIn(content, A, Z, k) = Units(r[k].digest, r[k].size)
  BY <1>19 DEF AllFound, r, A, Z
<1>22. \A k \in DOMAIN r : SolidChunk(p, Z, k) = Units(r[k].digest, r[k].size) BY <1>20, <1>21
<1> QED BY <1>16, <1>22 DEF p, Z, r

(* The digests of a scanned manifest are those of its chunks.                *)
LEMMA DigestsScanned ==
    ASSUME NEW m, ScanGood(m.entries, m.chunks, <<>>) PROVE DigestsMatch(m)
<1> DEFINE es == m.entries
<1>1. Rows(es, 0) /\ TableHolds(es, m.chunks, <<>>) BY DEF ScanGood
<1>2. es \in Seq(EntryRecord) /\ DOMAIN es = 1 .. Len(es) BY <1>1 DEF Rows
<1>3. ASSUME NEW i \in 1 .. Len(es), es[i].kind = "file"
      PROVE  [k \in 1 .. es[i].count |-> m.chunks[es[i].first + k].digest] = es[i].digest
  <2> DEFINE d == es[i].digest
             b == ChunksBefore(es, i)
  <2>1. RecordShape(es[i], 0 + b) BY <1>1 DEF Rows
  <2>2. d \in Seq(DOMAIN LaneOf) /\ es[i].count = Len(d) /\ es[i].first = 0 + b
    BY <1>3, <2>1 DEF RecordShape, DirEntry
  <2>3. b \in Nat
    <3>1. Len(es) \in Nat /\ i \in 1 .. Len(es) + 1 BY <1>2
    <3>2. \A j \in 1 .. Len(es) + 1 : ChunksBefore(es, j) \in Nat BY <1>2, BeforeNat
    <3> QED BY <3>1, <3>2
  <2>4. \A k \in 1 .. Len(d) : m.chunks[b + k].digest = d[k] BY <1>1, <1>3 DEF TableHolds
  <2> HIDE DEF b, d
  <2>5. es[i].first = b BY <2>2, <2>3
  <2>6. d = [k \in 1 .. Len(d) |-> d[k]] BY <2>2
  <2>7. [k \in 1 .. Len(d) |-> m.chunks[b + k].digest] = [k \in 1 .. Len(d) |-> d[k]] BY <2>4
  <2> QED BY <2>2, <2>5, <2>6, <2>7 DEF d
<1> QED BY <1>2, <1>3 DEF DigestsMatch

(* What MSR1 writes for a scanned manifest is whole.                         *)
LEMMA SolidStored ==
    ASSUME NEW a, NEW m, a.manifest = m, ScanGood(m.entries, m.chunks, <<>>), MaxChunk = 1,
           PathsCanonical(m), ShapeOK(m),
           a.unique = Cardinality(Unique(m.chunks)), a.frames = <<SolidPayload(m)>>
    PROVE  SolidWhole(a)
<1>1. UnitTable(m) BY DEF ScanGood, TableDirect, UnitTable
<1>2. TableParsed(m) BY ScanParsed
<1>3. ParseDedupManifest(m, a.unique + 1) BY <1>2 DEF ParseDedupManifest, TableParsed
<1>4. Len(a.frames) = 1 /\ a.frames[1] = SolidPayload(m) OBVIOUS
<1>5. DigestsMatch(m) BY DigestsScanned
<1>6. /\ DecodeSolid(SolidPayload(m), SizesOf(m))
      /\ \A k \in DOMAIN UniqueRecords(m) :
            SolidChunk(SolidPayload(m), SizesOf(m), k)
                = Units(UniqueRecords(m)[k].digest, UniqueRecords(m)[k].size)
  BY <1>1, SolidPacked
<1> QED BY <1>3, <1>4, <1>5, <1>6 DEF SolidWhole, ChunksRestored

-----------------------------------------------------------------------------
(* Four lane numbers to a byte, and back.                                    *)

LEMMA SumOfFour ==
    ASSUME NEW s, IsRun(s, 4), \A k \in 1 .. 4 : s[k] \in Nat
    PROVE  Sum(s) = s[1] + s[2] + s[3] + s[4]
<1> DEFINE P(k) == Sum(Prefix(s, k))
<1>1. Sums(s, 4) BY SumsUp
<1>2. P(0) = 0 /\ \A k \in 1 .. 4 : P(k) = P(k - 1) + s[k] BY <1>1 DEF Sums
<1>3. P(4) = Sum(s) BY WholePrefix
<1> HIDE DEF P
<1>4. P(1) = P(0) + s[1] /\ P(2) = P(1) + s[2] /\ P(3) = P(2) + s[3] /\ P(4) = P(3) + s[4]
  <2>1. P(1) = P(1 - 1) + s[1] /\ P(2) = P(2 - 1) + s[2] BY <1>2
  <2>2. P(3) = P(3 - 1) + s[3] /\ P(4) = P(4 - 1) + s[4] BY <1>2
  <2> QED BY <2>1, <2>2
<1> QED BY <1>2, <1>3, <1>4

(* The lane number at place j, none after the last.                          *)
Digit(lanes, j) == IF j \in DOMAIN lanes THEN lanes[j] ELSE 0

ByteHolds(lanes, b) ==
    LET d(k) == Digit(lanes, 4 * (b - 1) + k) IN
    /\ d(1) \in 0 .. 2 /\ d(2) \in 0 .. 2 /\ d(3) \in 0 .. 2 /\ d(4) \in 0 .. 2
    /\ ByteAt(lanes, b) = d(1) + 4 * d(2) + 16 * d(3) + 64 * d(4)

LEMMA ByteOf ==
    ASSUME NEW lanes \in Seq(Lanes), NEW b \in Nat \ {0} PROVE ByteHolds(lanes, b)
<1> DEFINE d(k) == Digit(lanes, 4 * (b - 1) + k)
           s == [k \in 1 .. 4 |-> IF 4 * (b - 1) + k \in DOMAIN lanes
                                  THEN lanes[4 * (b - 1) + k] * Place[k] ELSE 0]
<1>1. DOMAIN lanes = 1 .. Len(lanes) /\ \A j \in 1 .. Len(lanes) : lanes[j] \in 0 .. 2
  BY DEF Lanes
<1>2. \A k \in 1 .. 4 : d(k) \in 0 .. 2 BY <1>1 DEF Digit
<1>3. Place[1] = 1 /\ Place[2] = 4 /\ Place[3] = 16 /\ Place[4] = 64 BY DEF Place
<1>4. \A k \in 1 .. 4 : s[k] = d(k) * Place[k]
  <2> SUFFICES ASSUME NEW k \in 1 .. 4 PROVE s[k] = d(k) * Place[k] OBVIOUS
  <2>1. Place[k] \in Nat BY <1>3
  <2>2. 0 * Place[k] = 0 BY <2>1
  <2> QED BY <2>2 DEF Digit
<1>5. ByteAt(lanes, b) = Sum(s) BY DEF ByteAt
<1>6. IsRun(s, 4) BY DEF IsRun
<1> HIDE DEF s, d
<1>7. s[1] = d(1) /\ s[2] = 4 * d(2) /\ s[3] = 16 * d(3) /\ s[4] = 64 * d(4)
  <2>1. s[1] = d(1) * 1 /\ s[2] = d(2) * 4 /\ s[3] = d(3) * 16 /\ s[4] = d(4) * 64
    BY <1>3, <1>4
  <2>2. d(1) \in 0 .. 2 /\ d(2) \in 0 .. 2 /\ d(3) \in 0 .. 2 /\ d(4) \in 0 .. 2 BY <1>2
  <2> QED BY <2>1, <2>2
<1>8. \A k \in 1 .. 4 : s[k] \in Nat
  <2>1. d(1) \in 0 .. 2 /\ d(2) \in 0 .. 2 /\ d(3) \in 0 .. 2 /\ d(4) \in 0 .. 2 BY <1>2
  <2>2. s[1] \in Nat /\ s[2] \in Nat /\ s[3] \in Nat /\ s[4] \in Nat BY <1>7, <2>1
  <2> QED BY <2>2
<1>9. Sum(s) = s[1] + s[2] + s[3] + s[4] BY <1>6, <1>8, SumOfFour
<1>10. d(1) \in 0 .. 2 /\ d(2) \in 0 .. 2 /\ d(3) \in 0 .. 2 /\ d(4) \in 0 .. 2 BY <1>2
<1> QED BY <1>5, <1>7, <1>9, <1>10 DEF d, ByteHolds

HasDigits(y, a, b, c, e) ==
    /\ (y \div 1) % 4 = a /\ (y \div 4) % 4 = b /\ (y \div 16) % 4 = c /\ (y \div 64) % 4 = e
    /\ b = 0 /\ c = 0 /\ e = 0 => y \div 4 = 0
    /\ c = 0 /\ e = 0 => y \div 16 = 0
    /\ e = 0 => y \div 64 = 0

LEMMA Digits ==
    ASSUME NEW a \in 0 .. 2, NEW b \in 0 .. 2, NEW c \in 0 .. 2, NEW e \in 0 .. 2,
           NEW y, y = a + 4 * b + 16 * c + 64 * e
    PROVE  HasDigits(y, a, b, c, e)
<1>1. y \div 1 = y OBVIOUS
<1>2. y \div 4 = b + 4 * c + 16 * e OBVIOUS
<1>3. y \div 16 = c + 4 * e OBVIOUS
<1>4. y \div 64 = e OBVIOUS
<1>5. y % 4 = a OBVIOUS
<1>6. (b + 4 * c + 16 * e) % 4 = b OBVIOUS
<1>7. (c + 4 * e) % 4 = c OBVIOUS
<1>8. e % 4 = e OBVIOUS
<1> QED BY <1>1, <1>2, <1>3, <1>4, <1>5, <1>6, <1>7, <1>8 DEF HasDigits

(* _unpack_lanes gives back what _pack_lanes was given.                      *)
LEMMA PackedBack ==
    ASSUME NEW lanes \in Seq(Lanes), NEW md, md.packed = Packed(lanes)
    PROVE  Unpacked(md, Len(lanes)) = lanes /\ PackedOK(md, Len(lanes))
<1> DEFINE n == Len(lanes)
           B == (n + 3) \div 4
<1>1. n \in Nat /\ B \in Nat /\ DOMAIN lanes = 1 .. n OBVIOUS
<1>2. md.packed = [b \in 1 .. B |-> ByteAt(lanes, b)] BY DEF Packed
<1>3. Len(md.packed) = B
  <2> DEFINE T == {ByteAt(lanes, b) : b \in 1 .. B}
  <2>1. md.packed \in [1 .. B -> T] BY <1>2
  <2> HIDE DEF T, B
  <2> QED BY <1>1, <2>1
<1>4. ASSUME NEW k \in 1 .. n
      PROVE  (md.packed[(k + 3) \div 4] \div Place[((k - 1) % 4) + 1]) % 4 = lanes[k]
  <2> DEFINE b == (k + 3) \div 4
             j == ((k - 1) % 4) + 1
             d(i) == Digit(lanes, 4 * (b - 1) + i)
             y == ByteAt(lanes, b)
  <2>1. b \in 1 .. B /\ j \in 1 .. 4 /\ 4 * (b - 1) + j = k BY <1>1
  <2>2. md.packed[b] = y BY <1>2, <2>1
  <2>3. /\ d(1) \in 0 .. 2 /\ d(2) \in 0 .. 2 /\ d(3) \in 0 .. 2 /\ d(4) \in 0 .. 2
        /\ y = d(1) + 4 * d(2) + 16 * d(3) + 64 * d(4)
    <3>1. b \in Nat \ {0} BY <1>1, <2>1
    <3> HIDE DEF b
    <3>2. ByteHolds(lanes, b) BY <3>1, ByteOf
    <3> QED BY <3>2 DEF ByteHolds
  <2>4. d(j) = lanes[k] BY <1>1, <2>1 DEF Digit
  <2> HIDE DEF b, y, d
  <2>5. /\ (y \div 1) % 4 = d(1) /\ (y \div 4) % 4 = d(2)
        /\ (y \div 16) % 4 = d(3) /\ (y \div 64) % 4 = d(4)
    <3>1. HasDigits(y, d(1), d(2), d(3), d(4)) BY <2>3, Digits
    <3> QED BY <3>1 DEF HasDigits
  <2>6. Place[1] = 1 /\ Place[2] = 4 /\ Place[3] = 16 /\ Place[4] = 64 BY DEF Place
  <2> HIDE DEF j
  <2>7. (y \div Place[j]) % 4 = d(j)
    <3>1. CASE j = 1 BY <2>5, <2>6, <3>1
    <3>2. CASE j = 2 BY <2>5, <2>6, <3>2
    <3>3. CASE j = 3 BY <2>5, <2>6, <3>3
    <3>4. CASE j = 4 BY <2>5, <2>6, <3>4
    <3> QED BY <2>1, <3>1, <3>2, <3>3, <3>4
  <2> QED BY <2>2, <2>4, <2>7 DEF b, j
<1>5. Unpacked(md, n) = lanes
  <2>1. IsRun(lanes, n) BY <1>1 DEF IsRun
  <2>2. Concat([k \in 1 .. n |-> <<lanes[k]>>]) = lanes BY <1>1, <2>1, ConcatOfSingles
  <2>3. [k \in 1 .. n |-> <<lanes[k]>>]
          = [k \in 1 .. n |-> <<(md.packed[(k + 3) \div 4] \div Place[((k - 1) % 4) + 1]) % 4>>]
    BY <1>4
  <2> QED BY <2>2, <2>3 DEF Unpacked
<1>6. n % 4 # 0 => md.packed[Len(md.packed)] \div Place[(n % 4) + 1] = 0
  <2> SUFFICES ASSUME n % 4 # 0 PROVE md.packed[B] \div Place[(n % 4) + 1] = 0 BY <1>3
  <2> DEFINE y == ByteAt(lanes, B)
             d(i) == Digit(lanes, 4 * (B - 1) + i)
             j == n % 4
  <2> DEFINE q == n \div 4
  <2>0. q \in Nat /\ j \in 1 .. 3 /\ n = 4 * q + j
    <3>1. n \in Nat /\ n % 4 # 0 BY <1>1
    <3> HIDE DEF n
    <3>2. n % 4 \in 0 .. 3 /\ n \div 4 \in Nat /\ n = 4 * (n \div 4) + (n % 4) BY <3>1
    <3> QED BY <3>1, <3>2
  <2>1. B \in 1 .. B /\ j \in 1 .. 3 /\ 4 * (B - 1) + j = n
    <3> HIDE DEF q, j, n
    <3>1. (4 * q + j + 3) \div 4 = q + 1 BY <2>0
    <3>2. B = q + 1 BY <2>0, <3>1
    <3> QED BY <2>0, <3>2
  <2>2. md.packed[B] = y BY <1>2, <2>1
  <2>3. /\ d(1) \in 0 .. 2 /\ d(2) \in 0 .. 2 /\ d(3) \in 0 .. 2 /\ d(4) \in 0 .. 2
        /\ y = d(1) + 4 * d(2) + 16 * d(3) + 64 * d(4)
    <3>1. B \in Nat \ {0} BY <1>1, <2>1
    <3> HIDE DEF B
    <3>2. ByteHolds(lanes, B) BY <3>1, ByteOf
    <3> QED BY <3>2 DEF ByteHolds
  <2>4. \A i \in 1 .. 4 : i > j => d(i) = 0
    <3> SUFFICES ASSUME NEW i \in 1 .. 4, i > j PROVE d(i) = 0 OBVIOUS
    <3>1. 4 * (B - 1) + i > n BY <1>1, <2>1
    <3>2. 4 * (B - 1) + i \notin 1 .. n BY <1>1, <3>1
    <3> QED BY <1>1, <3>2 DEF Digit
  <2> HIDE DEF B, y, d, j
  <2>5. /\ d(2) = 0 /\ d(3) = 0 /\ d(4) = 0 => y \div 4 = 0
        /\ d(3) = 0 /\ d(4) = 0 => y \div 16 = 0
        /\ d(4) = 0 => y \div 64 = 0
    <3>1. HasDigits(y, d(1), d(2), d(3), d(4)) BY <2>3, Digits
    <3> QED BY <3>1 DEF HasDigits
  <2>6. Place[2] = 4 /\ Place[3] = 16 /\ Place[4] = 64 BY DEF Place
  <2>7. d(4) = 0 /\ (j < 3 => d(3) = 0) /\ (j < 2 => d(2) = 0) BY <2>1, <2>4
  <2>8. y \div Place[j + 1] = 0
    <3>1. CASE j = 1
      <4>1. j + 1 = 2 /\ y \div 4 = 0 BY <2>5, <2>7, <3>1
      <4> QED BY <2>6, <4>1
    <3>2. CASE j = 2
      <4>1. j + 1 = 3 /\ y \div 16 = 0 BY <2>5, <2>7, <3>2
      <4> QED BY <2>6, <4>1
    <3>3. CASE j = 3
      <4>1. j + 1 = 4 /\ y \div 64 = 0 BY <2>5, <2>7, <3>3
      <4> QED BY <2>6, <4>1
    <3> QED BY <2>1, <3>1, <3>2, <3>3
  <2> QED BY <2>2, <2>8 DEF j
<1>7. \A k \in 1 .. n : Unpacked(md, n)[k] \in Lanes BY <1>1, <1>5
<1> QED BY <1>3, <1>5, <1>6, <1>7 DEF PackedOK

-----------------------------------------------------------------------------
(* _compact_metadata, read back.                                             *)

(* What is read of the compact form of m is m.                               *)
ReadsBack(md, m) ==
    /\ ChunksRead(md) /\ ChunksCovered(md) /\ Expanded(md) = m
    /\ {i \in DOMAIN md.chunks : md.chunks[i].tag = 0} = Unique(m.chunks)

LEMMA CompactBack ==
    ASSUME NEW m \in MadeManifest, ScanGood(m.entries, m.chunks, <<>>), MaxChunk = 1,
           NEW lanes, NEW frameCounts, NEW codecs
    PROVE  ReadsBack(CompactMetadata(m, lanes, frameCounts, codecs), m)
<1> DEFINE md == CompactMetadata(m, lanes, frameCounts, codecs)
           es == m.entries
           cs == m.chunks
           N == Len(es)
           L == Len(cs)
<1>1. /\ md.kind = m.kind /\ md.root = m.root
      /\ md.entries = [i \in DOMAIN es |-> CompactEntry(es[i])]
      /\ md.chunks = [i \in DOMAIN cs |-> CompactChunk(cs, i)]
  BY DEF CompactMetadata
<1>2. /\ es \in Seq(EntryRecord) /\ cs \in Seq(UnitRecord)
      /\ m = [kind |-> m.kind, root |-> m.root, entries |-> es, chunks |-> cs]
  BY DEF MadeManifest
<1>3. Rows(es, 0) /\ TableDirect(cs) /\ TableHolds(es, cs, <<>>) BY DEF ScanGood
<1> HIDE DEF md
<1>4. N \in Nat /\ L \in Nat /\ DOMAIN es = 1 .. N /\ DOMAIN cs = 1 .. L BY <1>2
<1>5. \A i \in 1 .. L : cs[i] \in UnitRecord /\ RecordDirect(cs, i) BY <1>3 DEF TableDirect
<1>6. \A i \in 1 .. L : cs[i].size = 1 /\ cs[i].source \in Nat
                        /\ cs[i] = [digest |-> cs[i].digest, size |-> 1, source |-> cs[i].source]
  BY <1>5 DEF UnitRecord
<1>7. \A i \in 1 .. N : es[i] \in EntryRecord /\ RecordShape(es[i], ChunksBefore(es, i))
  <2> SUFFICES ASSUME NEW i \in 1 .. N
               PROVE  es[i] \in EntryRecord /\ RecordShape(es[i], ChunksBefore(es, i))
    OBVIOUS
  <2>1. RecordShape(es[i], 0 + ChunksBefore(es, i)) BY <1>3 DEF Rows
  <2>2. i \in 1 .. N + 1 BY <1>4
  <2>3. ChunksBefore(es, i) \in Nat BY <1>2, <2>2, BeforeNat
  <2>4. 0 + ChunksBefore(es, i) = ChunksBefore(es, i) BY <2>3
  <2> QED BY <1>2, <2>1, <2>4
<1>8. /\ Len(cs) = Taken(es) /\ Taken(es) \in Nat
      /\ \A i \in 1 .. N + 1 : ChunksBefore(es, i) \in Nat
  <2>1. Taken(es) \in Nat /\ \A i \in 1 .. N + 1 : ChunksBefore(es, i) \in Nat BY <1>2, BeforeNat
  <2>2. Len(cs) = Taken(es) + Len(<<>>) BY <1>3 DEF TableHolds
  <2>3. Len(<<>>) = 0 OBVIOUS
  <2> QED BY <2>1, <2>2, <2>3
<1> HIDE DEF es, cs, N, L
<1>9. \A i \in 1 .. L : md.chunks[i] = CompactChunk(cs, i) BY <1>1, <1>4
<1>10. ASSUME NEW i \in 1 .. L
       PROVE  /\ cs[i].source = i - 1 => /\ md.chunks[i].tag = 0 /\ md.chunks[i].size = 1
                                         /\ md.chunks[i].digest = cs[i].digest
              /\ cs[i].source # i - 1 => /\ md.chunks[i].tag = 1
                                         /\ md.chunks[i].source = cs[i].source
  <2>1. CASE cs[i].source = i - 1
    <3>1. CompactChunk(cs, i) = [tag |-> 0, size |-> cs[i].size, digest |-> cs[i].digest]
      BY <2>1 DEF CompactChunk
    <3>2. md.chunks[i] = [tag |-> 0, size |-> cs[i].size, digest |-> cs[i].digest]
      BY <1>9, <3>1
    <3>3. cs[i].size = 1 BY <1>6
    <3> QED BY <2>1, <3>2, <3>3
  <2>2. CASE cs[i].source # i - 1
    <3>1. CompactChunk(cs, i) = [tag |-> 1, source |-> cs[i].source] BY <2>2 DEF CompactChunk
    <3>2. md.chunks[i] = [tag |-> 1, source |-> cs[i].source] BY <1>9, <3>1
    <3> QED BY <2>2, <3>2
  <2> QED BY <2>1, <2>2
<1>11. ASSUME NEW i \in 1 .. L, cs[i].source # i - 1
       PROVE  LET j == cs[i].source + 1 IN
              /\ j \in 1 .. L /\ j < i /\ cs[j].source = j - 1 /\ cs[j].digest = cs[i].digest
  <2>1. /\ cs[i].source < i - 1 /\ cs[cs[i].source + 1].source = cs[i].source
        /\ cs[cs[i].source + 1].digest = cs[i].digest /\ cs[i].source \in Nat
    BY <1>5, <1>6, <1>11 DEF RecordDirect
  <2>2. cs[i].source + 1 \in 1 .. L /\ cs[i].source + 1 < i /\ (cs[i].source + 1) - 1 = cs[i].source
    BY <1>4, <2>1
  <2> QED BY <2>1, <2>2
<1>12. DOMAIN md.chunks = 1 .. L BY <1>1, <1>4
<1>13. ChunksRead(md)
  <2> SUFFICES ASSUME NEW i \in 1 .. L
               PROVE  \/ md.chunks[i].tag = 0 /\ md.chunks[i].size \in 1 .. MaxChunk
                      \/ /\ md.chunks[i].tag = 1 /\ md.chunks[i].source + 1 < i
                         /\ md.chunks[md.chunks[i].source + 1].tag = 0
    BY <1>12 DEF ChunksRead
  <2>1. CASE cs[i].source = i - 1
    <3>1. md.chunks[i].tag = 0 /\ md.chunks[i].size = 1 BY <1>10, <2>1
    <3> QED BY <3>1
  <2>2. CASE cs[i].source # i - 1
    <3> DEFINE j == cs[i].source + 1
    <3>1. j \in 1 .. L /\ j < i /\ cs[j].source = j - 1 BY <1>11, <2>2
    <3>2. md.chunks[i].tag = 1 /\ md.chunks[i].source + 1 = j BY <1>10, <2>2
    <3>3. md.chunks[j].tag = 0 BY <1>10, <3>1
    <3> QED BY <3>1, <3>2, <3>3
  <2> QED BY <2>1, <2>2
<1>14. ASSUME NEW i \in 1 .. L PROVE ChunkAt(md, i) = cs[i]
  <2>1. CASE cs[i].source = i - 1
    <3>1. md.chunks[i].tag = 0 /\ md.chunks[i].size = 1 /\ md.chunks[i].digest = cs[i].digest
      BY <1>10, <2>1
    <3>2. ChunkAt(md, i) = [digest |-> cs[i].digest, size |-> 1, source |-> i - 1]
      BY <3>1 DEF ChunkAt
    <3> QED BY <1>6, <2>1, <3>2
  <2>2. CASE cs[i].source # i - 1
    <3> DEFINE j == cs[i].source + 1
    <3>1. j \in 1 .. L /\ cs[j].source = j - 1 /\ cs[j].digest = cs[i].digest BY <1>11, <2>2
    <3>2. md.chunks[i].tag = 1 /\ md.chunks[i].source = cs[i].source BY <1>10, <2>2
    <3>3. md.chunks[j].size = 1 /\ md.chunks[j].digest = cs[i].digest BY <1>10, <3>1
    <3>4. ChunkAt(md, i) = [digest |-> md.chunks[j].digest, size |-> md.chunks[j].size,
                            source |-> cs[i].source]
      BY <3>2 DEF ChunkAt
    <3> QED BY <1>6, <3>3, <3>4
  <2> QED BY <2>1, <2>2
<1>15. Chunks(md) = cs
  <2>1. Chunks(md) = Concat([i \in 1 .. L |-> <<ChunkAt(md, i)>>]) BY <1>12 DEF Chunks
  <2>2. [i \in 1 .. L |-> <<ChunkAt(md, i)>>] = [i \in 1 .. L |-> <<cs[i]>>] BY <1>14
  <2>3. IsRun(cs, L) BY <1>2, <1>4 DEF IsRun
  <2>4. Concat([i \in 1 .. L |-> <<cs[i]>>]) = cs BY <1>4, <2>3, ConcatOfSingles
  <2> QED BY <2>1, <2>2, <2>4
<1>16. /\ DOMAIN md.entries = 1 .. N
       /\ \A i \in 1 .. N : /\ md.entries[i].kind = es[i].kind /\ md.entries[i].path = es[i].path
                            /\ md.entries[i].count = es[i].count
                            /\ md.entries[i].digest = es[i].digest
  BY <1>1, <1>4 DEF CompactEntry
<1>17. Len(md.entries) = N
  <2> DEFINE T == {md.entries[i] : i \in 1 .. N}
  <2>1. md.entries = [i \in 1 .. N |-> md.entries[i]] BY <1>1, <1>4, <1>16
  <2>2. md.entries \in [1 .. N -> T] BY <2>1
  <2> HIDE DEF T
  <2> QED BY <1>4, <2>2
<1>18. ASSUME NEW i \in 1 .. N + 1 PROVE FirstChunk(md, i) = ChunksBefore(es, i)
  <2>1. \A k \in 1 .. i - 1 : k \in 1 .. N BY <1>4
  <2>2. [k \in 1 .. i - 1 |-> IF md.entries[k].kind = "file" THEN md.entries[k].count ELSE 0]
          = [k \in 1 .. i - 1 |-> IF es[k].kind = "file" THEN es[k].count ELSE 0]
    BY <1>16, <2>1
  <2> QED BY <2>2 DEF FirstChunk, ChunksBefore
<1>19. ChunksCovered(md)
  <2>1. N + 1 \in 1 .. N + 1 BY <1>4
  <2>2. FirstChunk(md, N + 1) = Taken(es) BY <1>18, <2>1 DEF Taken, N
  <2>3. Len(md.chunks) = L
    <3> DEFINE T == {md.chunks[i] : i \in 1 .. L}
    <3>1. md.chunks = [i \in 1 .. L |-> md.chunks[i]] BY <1>1, <1>4
    <3>2. md.chunks \in [1 .. L -> T] BY <3>1
    <3> HIDE DEF T
    <3> QED BY <1>4, <3>2
  <2> QED BY <1>8, <1>17, <2>2, <2>3 DEF ChunksCovered, L
<1>20. ASSUME NEW i \in 1 .. N PROVE EntryAt(md, i) = es[i]
  <2> DEFINE e == es[i]
             b == ChunksBefore(es, i)
  <2>1. e \in EntryRecord /\ RecordShape(e, b) BY <1>7
  <2>2. FirstChunk(md, i) = b
    <3>1. i \in 1 .. N + 1 BY <1>4
    <3> QED BY <1>18, <3>1
  <2>3. CASE e.kind = "dir"
    <3>1. e = DirEntry(e.path) BY <2>1, <2>3 DEF RecordShape
    <3>2. EntryAt(md, i) = DirEntry(e.path) BY <1>16, <2>3 DEF EntryAt
    <3> QED BY <3>1, <3>2
  <2>4. CASE e.kind = "file"
    <3> DEFINE s == [k \in 1 .. e.count |-> ChunkAt(md, b + k).size]
    <3>1. /\ e.digest \in Seq(DOMAIN LaneOf) /\ e.first = b /\ e.count = Len(e.digest)
          /\ e.size = e.count
      BY <2>1, <2>4 DEF RecordShape, DirEntry
    <3>2. e.count \in Nat BY <3>1
    <3>3. \A k \in 1 .. e.count : s[k] = 1
      <4> SUFFICES ASSUME NEW k \in 1 .. e.count PROVE s[k] = 1 OBVIOUS
      <4>1. k \in 1 .. Len(es[i].digest) BY <3>1
      <4>2. b + k \in 1 .. Taken(es) BY <1>3, <2>4, <4>1, RangeBelow DEF N
      <4>3. b + k \in 1 .. L BY <1>8, <4>2 DEF L
      <4>4. ChunkAt(md, b + k) = cs[b + k] /\ cs[b + k].size = 1 BY <1>6, <1>14, <4>3
      <4> QED BY <4>4
    <3>4. IsRun(s, e.count) BY DEF IsRun
    <3> HIDE DEF s
    <3>5. Sum(s) = e.count BY <3>2, <3>3, <3>4, SumOfOnes
    <3>6. EntryAt(md, i) = FileEntry(e.path, Sum(s), b, e.count, e.digest)
      BY <1>16, <2>2, <2>4 DEF EntryAt, s
    <3>7. e = [kind |-> "file", path |-> e.path, size |-> e.count, first |-> b, count |-> e.count,
               digest |-> e.digest]
      BY <2>1, <2>4, <3>1 DEF EntryRecord
    <3> QED BY <3>5, <3>6, <3>7 DEF FileEntry
  <2> QED BY <2>1, <2>3, <2>4 DEF EntryRecord
<1>21. Expanded(md) = m
  <2>1. Concat([i \in 1 .. N |-> <<es[i]>>]) = es
    <3>1. IsRun(es, N) BY <1>2, <1>4 DEF IsRun
    <3> QED BY <1>4, <3>1, ConcatOfSingles
  <2>2. [i \in 1 .. N |-> <<EntryAt(md, i)>>] = [i \in 1 .. N |-> <<es[i]>>] BY <1>20
  <2>3. Expanded(md) = [kind |-> m.kind, root |-> m.root, chunks |-> cs, entries |-> es]
    BY <1>1, <1>15, <1>16, <2>1, <2>2 DEF Expanded
  <2> QED BY <1>2, <2>3
<1>22. {i \in DOMAIN md.chunks : md.chunks[i].tag = 0} = Unique(cs)
  <2>1. \A i \in 1 .. L : md.chunks[i].tag = 0 <=> cs[i].source = i - 1 BY <1>10
  <2> QED BY <1>4, <1>12, <2>1 DEF Unique
<1> QED BY <1>13, <1>19, <1>21, <1>22 DEF ReadsBack, md, cs

-----------------------------------------------------------------------------
(* The frames of MSR2, lane after lane.                                      *)

(* A run is a sequence as long as it says.                                   *)
LEMMA RunLength == ASSUME NEW n \in Nat, NEW s, IsRun(s, n) PROVE Len(s) = n /\ DOMAIN s = 1 .. n
<1> DEFINE T == {s[i] : i \in 1 .. n}
<1>1. s = [i \in 1 .. n |-> s[i]] BY DEF IsRun
<1>2. s \in [1 .. n -> T] BY <1>1
<1> HIDE DEF T
<1> QED BY <1>2

(* Two runs, one behind the other. *)
RunBehind(s, t, a, b) ==
    /\ IsRun(s \o t, a + b)
    /\ \A i \in 1 .. a : (s \o t)[i] = s[i]
    /\ \A i \in 1 .. b : (s \o t)[a + i] = t[i]

LEMMA RunsJoined ==
    ASSUME NEW a \in Nat, NEW b \in Nat, NEW s, IsRun(s, a), NEW t, IsRun(t, b)
    PROVE  RunBehind(s, t, a, b)
<1> DEFINE T == {s[i] : i \in 1 .. a} \cup {t[i] : i \in 1 .. b}
           g == s \o t
<1>1. s = [i \in 1 .. a |-> s[i]] /\ t = [i \in 1 .. b |-> t[i]] BY DEF IsRun
<1>2. s \in [1 .. a -> T] /\ t \in [1 .. b -> T]
  <2>1. (\A i \in 1 .. a : s[i] \in T) /\ (\A i \in 1 .. b : t[i] \in T) OBVIOUS
  <2> HIDE DEF T
  <2> QED BY <1>1, <2>1
<1> HIDE DEF T
<1>3. s \in Seq(T) /\ Len(s) = a BY <1>2
<1>4. t \in Seq(T) /\ Len(t) = b BY <1>2
<1>5. g \in Seq(T) /\ Len(g) = a + b BY <1>3, <1>4
<1>6. \A i \in 1 .. a : g[i] = s[i] BY <1>3, <1>4
<1>7. \A i \in 1 .. b : g[a + i] = t[i] BY <1>3, <1>4
<1> HIDE DEF g
<1>8. g = [i \in 1 .. a + b |-> g[i]] BY <1>5
<1> QED BY <1>6, <1>7, <1>8 DEF RunBehind, IsRun, g

(* How many frames the first n lanes have.                                   *)
LanesBefore(fc, n) ==
    IF n = 0 THEN 0 ELSE IF n = 1 THEN fc[0] ELSE IF n = 2 THEN fc[0] + fc[1]
    ELSE fc[0] + fc[1] + fc[2]

(* The frames of the first n lanes are written.                              *)
Laid(frames, n, fc, pay) ==
    /\ IsRun(frames, LanesBefore(fc, n))
    /\ \A l \in Lanes : l < n =>
          \A k \in 1 .. fc[l] :
             frames[LanesBefore(fc, l) + k] = LaneFrames(pay[l], l, LanesBefore(fc, l) + 1)[k]

FramesTotal(fc, pay) == \A l \in Lanes : fc[l] \in Nat /\ fc[l] = FrameTotal(Len(pay[l]))

LEMMA NothingLaid == ASSUME NEW fc, NEW pay PROVE Laid(<<>>, 0, fc, pay)
  BY DEF Laid, IsRun, LanesBefore, Lanes

(* A lane is written behind those before it.                                 *)
LEMMA LaneAdded ==
    ASSUME NEW fc, NEW pay, FramesTotal(fc, pay), NEW n \in Lanes, NEW frames,
           Laid(frames, n, fc, pay)
    PROVE  Laid(frames \o LaneFrames(pay[n], n, Len(frames) + 1), n + 1, fc, pay)
<1> DEFINE a == LanesBefore(fc, n)
           b == fc[n]
           t == LaneFrames(pay[n], n, a + 1)
           g == frames \o t
<1>1. \A l \in Lanes : fc[l] \in Nat /\ fc[l] = FrameTotal(Len(pay[l])) BY DEF FramesTotal
<1>2. fc[0] \in Nat /\ fc[1] \in Nat /\ fc[2] \in Nat BY <1>1 DEF Lanes
<1>3. a \in Nat /\ b \in Nat /\ LanesBefore(fc, n + 1) = a + b
  BY <1>2 DEF LanesBefore, Lanes
<1>4. IsRun(frames, a) BY DEF Laid
<1>5. Len(frames) = a BY <1>3, <1>4, RunLength
<1>6. IsRun(t, b)
  <2> DEFINE one(k) == [sealed |-> TRUE, index |-> a + 1 + k - 1, lane |-> n, final |-> k = b,
                        payload |-> SubSeq(pay[n], (k - 1) * FramePayload + 1,
                                           IF k * FramePayload < Len(pay[n]) THEN k * FramePayload
                                           ELSE Len(pay[n]))]
  <2>1. FrameTotal(Len(pay[n])) = b BY <1>1
  <2> HIDE DEF a, b
  <2>2. t = [k \in 1 .. b |-> one(k)] BY <2>1 DEF LaneFrames
  <2> HIDE DEF one, t
  <2> QED BY <2>2 DEF IsRun
<1> HIDE DEF a, b, t
<1>7. /\ IsRun(g, a + b)
      /\ \A i \in 1 .. a : g[i] = frames[i]
      /\ \A i \in 1 .. b : g[a + i] = t[i]
  <2>1. RunBehind(frames, t, a, b) BY <1>3, <1>4, <1>6, RunsJoined
  <2> QED BY <2>1 DEF RunBehind
<1> HIDE DEF g
<1>8. ASSUME NEW l \in Lanes, l < n + 1, NEW k \in 1 .. fc[l]
      PROVE  g[LanesBefore(fc, l) + k] = LaneFrames(pay[l], l, LanesBefore(fc, l) + 1)[k]
  <2>1. CASE l = n BY <1>7, <1>8, <2>1 DEF a, b, t
  <2>2. CASE l # n
    <3>1. l < n BY <1>8, <2>2 DEF Lanes
    <3>2. LanesBefore(fc, l) \in Nat /\ LanesBefore(fc, l) + fc[l] <= a
      BY <1>2, <3>1 DEF LanesBefore, Lanes, a
    <3>3. LanesBefore(fc, l) + k \in 1 .. a BY <1>1, <1>3, <3>2
    <3>4. frames[LanesBefore(fc, l) + k] = LaneFrames(pay[l], l, LanesBefore(fc, l) + 1)[k]
      BY <1>8, <3>1 DEF Laid
    <3> QED BY <1>7, <3>3, <3>4
  <2> QED BY <2>1, <2>2
<1> QED BY <1>3, <1>5, <1>7, <1>8 DEF Laid, g, t

(* Where the frames of each lane start, by the metadata.                     *)
LEMMA LaneStartsAt ==
    ASSUME NEW md, \A l \in Lanes : md.frameCounts[l] \in Nat, NEW n \in 0 .. 3
    PROVE  LaneStart(md, n) = LanesBefore(md.frameCounts, n)
<1> DEFINE fc == md.frameCounts
           s == [l \in 1 .. 3 |-> fc[l - 1]]
           P(k) == Sum(Prefix(s, k))
<1>1. fc[0] \in Nat /\ fc[1] \in Nat /\ fc[2] \in Nat BY DEF Lanes
<1>2. s[1] = fc[0] /\ s[2] = fc[1] /\ s[3] = fc[2] OBVIOUS
<1>3. \A k \in 1 .. 3 : s[k] \in Nat BY DEF Lanes
<1>4. LaneStart(md, n) = Sum([l \in 1 .. n |-> fc[l - 1]]) BY DEF LaneStart
<1>5. [l \in 1 .. n |-> fc[l - 1]] = Prefix(s, n) BY DEF Prefix
<1> HIDE DEF s, fc
<1>6. Sums(s, 3) BY <1>3, SumsUp
<1>7. P(0) = 0 /\ \A k \in 1 .. 3 : P(k) = P(k - 1) + s[k] BY <1>6 DEF Sums
<1> HIDE DEF P
<1>8. P(1) = P(1 - 1) + s[1] /\ P(2) = P(2 - 1) + s[2] /\ P(3) = P(3 - 1) + s[3] BY <1>7
<1>9. P(0) = 0 /\ P(1) = fc[0] /\ P(2) = fc[0] + fc[1] /\ P(3) = fc[0] + fc[1] + fc[2]
  BY <1>1, <1>2, <1>7, <1>8
<1>10. LaneStart(md, n) = P(n) BY <1>4, <1>5 DEF P
<1> QED BY <1>9, <1>10 DEF LanesBefore, fc

(* The frames of one lane of an MSR2 archive hold the units of that lane.    *)
LaneHeld(a, m, fc, codecs, l) ==
    /\ LaneRead(a, l) = LaneUnits(m, Assignments(m), l)
    /\ LaneGood(a, l)
    /\ (RawSize(m, Assignments(m), l) = 0) = (fc[l] = 0)
    /\ \A k \in 1 .. fc[l] : /\ a.frames[LanesBefore(fc, l) + k].sealed
                             /\ a.frames[LanesBefore(fc, l) + k].index = LanesBefore(fc, l) + k

LEMMA LaneReadBack ==
    ASSUME NEW a, NEW m, UnitTable(m), NEW fc, NEW pay, FramesTotal(fc, pay), NEW codecs,
           \A l \in Lanes : pay[l] = LanePayload(LaneUnits(m, Assignments(m), l), codecs[l]),
           ~IsLegacy(a.metadata), a.metadata.frameCounts = fc, a.metadata.codecs = codecs,
           Laid(a.frames, 3, fc, pay), NEW l \in Lanes
    PROVE  LaneHeld(a, m, fc, codecs, l)
<1> DEFINE md == a.metadata
           u == LaneUnits(m, Assignments(m), l)
           b == LanesBefore(fc, l)
           K == fc[l]
           fs == LaneFrames(pay[l], l, b + 1)
           codec == codecs[l]
<1>1. fc[0] \in Nat /\ fc[1] \in Nat /\ fc[2] \in Nat BY DEF FramesTotal, Lanes
<1>2. K \in Nat /\ K = FrameTotal(Len(pay[l])) BY DEF FramesTotal
<1>3. b \in Nat /\ b + 1 \in Nat BY <1>1 DEF LanesBefore, Lanes
<1>4. u \in Seq(LaneUnit)
  <2>1. SharesOf(m, l) BY LaneShares
  <2> QED BY <2>1 DEF SharesOf
<1>5. LaneStart(md, l) = b
  <2>1. \A j \in Lanes : md.frameCounts[j] \in Nat BY <1>1 DEF Lanes
  <2>2. l \in 0 .. 3 BY DEF Lanes
  <2>3. LaneStart(md, l) = LanesBefore(md.frameCounts, l) BY <2>1, <2>2, LaneStartsAt
  <2> QED BY <2>3
<1>6. \A k \in 1 .. K : a.frames[b + k] = fs[k]
  <2>1. l < 3 BY DEF Lanes
  <2> QED BY <2>1 DEF Laid
<1>7. md.frameCounts[l] = K /\ ReadCodecOf(md, l) = codec BY DEF ReadCodecOf
<1>8. pay[l] = LanePayload(u, codec) OBVIOUS
<1> HIDE DEF u, b, K, codec, md
<1>9. FramesHold(fs, FrameTotal(Len(pay[l])), u, codec, l, b + 1)
  BY <1>3, <1>4, <1>8, UnitsEnd, LaneCut
<1> HIDE DEF fs
<1>10. /\ (K = 0) = (u = <<>>)
       /\ \A k \in 1 .. K :
             /\ fs[k].sealed /\ fs[k].index = b + 1 + k - 1 /\ fs[k].lane = l
             /\ fs[k].final = (k = K)
             /\ PayloadSizeGood(fs[k], k = K) /\ StreamEnds(fs[k], codec, k = K)
       /\ Concat([k \in 1 .. K |-> FrameUnits(fs[k], codec)]) = u
  BY <1>2, <1>9 DEF FramesHold
<1>11. \A k \in 1 .. K : LaneFrame(a, l, k) = fs[k] BY <1>5, <1>6 DEF LaneFrame, md
<1>12. LaneRead(a, l) = u
  <2>1. LaneRead(a, l) = Concat([k \in 1 .. K |-> FrameUnits(LaneFrame(a, l, k), codec)])
    BY <1>7 DEF LaneRead, md
  <2>2. [k \in 1 .. K |-> FrameUnits(LaneFrame(a, l, k), codec)]
          = [k \in 1 .. K |-> FrameUnits(fs[k], codec)]
    BY <1>11
  <2> QED BY <1>10, <2>1, <2>2
<1>13. LaneGood(a, l)
  <2> SUFFICES ASSUME NEW k \in 1 .. K
               PROVE  /\ LaneFrame(a, l, k).lane = l /\ LaneFrame(a, l, k).final = (k = K)
                      /\ PayloadSizeGood(LaneFrame(a, l, k), k = K)
                      /\ StreamEnds(LaneFrame(a, l, k), codec, k = K)
    BY <1>7 DEF LaneGood, md
  <2>1. LaneFrame(a, l, k) = fs[k] BY <1>11
  <2> QED BY <1>10, <2>1
<1>14. (Len(u) = 0) = (K = 0) BY <1>4, <1>10
<1>15. ASSUME NEW k \in 1 .. K PROVE a.frames[b + k].sealed /\ a.frames[b + k].index = b + k
  <2>1. a.frames[b + k] = fs[k] BY <1>6
  <2>2. b + 1 + k - 1 = b + k BY <1>2, <1>3
  <2> QED BY <1>10, <2>1, <2>2
<1> QED BY <1>12, <1>13, <1>14, <1>15 DEF LaneHeld, RawSize, u, b, K

(* Every frame is one of a lane.                                             *)
LEMMA FrameOfLane ==
    ASSUME NEW fc, fc[0] \in Nat, fc[1] \in Nat, fc[2] \in Nat, NEW k \in 1 .. LanesBefore(fc, 3)
    PROVE  \E l \in Lanes : \E j \in 1 .. fc[l] : k = LanesBefore(fc, l) + j
<1>1. k \in Nat /\ 1 <= k /\ k <= fc[0] + fc[1] + fc[2] BY DEF LanesBefore
<1>2. 0 \in Lanes /\ 1 \in Lanes /\ 2 \in Lanes BY DEF Lanes
<1>3. CASE k <= fc[0]
  <2>1. k \in 1 .. fc[0] /\ k = LanesBefore(fc, 0) + k BY <1>1, <1>3 DEF LanesBefore
  <2> QED BY <1>2, <2>1
<1>4. CASE k > fc[0] /\ k <= fc[0] + fc[1]
  <2>1. k - fc[0] \in 1 .. fc[1] /\ k = LanesBefore(fc, 1) + (k - fc[0])
    BY <1>1, <1>4 DEF LanesBefore
  <2> QED BY <1>2, <2>1
<1>5. CASE k > fc[0] + fc[1]
  <2>1. k - (fc[0] + fc[1]) \in 1 .. fc[2] /\ k = LanesBefore(fc, 2) + (k - (fc[0] + fc[1]))
    BY <1>1, <1>5 DEF LanesBefore
  <2> QED BY <1>2, <2>1
<1> QED BY <1>1, <1>3, <1>4, <1>5

(* What MSR2 writes for a scanned manifest is whole.                         *)
LEMMA LanesStored ==
    ASSUME NEW a, NEW m \in MadeManifest, ScanGood(m.entries, m.chunks, <<>>), MaxChunk = 1,
           PathsCanonical(m), ShapeOK(m), a.unique = Cardinality(Unique(m.chunks)),
           NEW fc, NEW pay, FramesTotal(fc, pay), NEW codecs,
           \A l \in Lanes : /\ pay[l] = LanePayload(LaneUnits(m, Assignments(m), l), codecs[l])
                            /\ codecs[l] \in ValidCodecs[l] /\ fc[l] <= MaxLaneFrames,
           a.metadata = CompactMetadata(m, Assignments(m), fc, codecs),
           Laid(a.frames, 3, fc, pay)
    PROVE  LanesWhole(a) /\ Expanded(a.metadata) = m
<1> DEFINE md == a.metadata
           A == Assignments(m)
           content == [l \in Lanes |-> LaneRead(a, l)]
<1>1. UnitTable(m) BY DEF ScanGood, TableDirect, UnitTable
<1>2. UniqueRecords(m) \in Seq(UnitRecord) /\ Len(UniqueRecords(m)) = a.unique
  BY <1>1, UniqueListed
<1>3. a.unique \in Nat BY <1>2
<1>4. A \in Seq(Lanes) /\ Len(A) = a.unique
  <2>1. A = [k \in 1 .. a.unique |-> LaneOf[UniqueRecords(m)[k].digest]]
        /\ \A k \in 1 .. a.unique : A[k] \in Lanes
    BY <1>1, <1>2, AssignmentsListed
  <2> HIDE DEF A
  <2>2. A \in [1 .. a.unique -> Lanes] BY <2>1
  <2> QED BY <1>3, <2>2
<1>5. /\ ~IsLegacy(md) /\ md.frameCounts = fc /\ md.codecs = codecs /\ md.packed = Packed(A)
  BY DEF IsLegacy, CompactMetadata
<1>6. ReadsBack(md, m) BY CompactBack
<1> HIDE DEF md, A
<1>7. Unpacked(md, a.unique) = A /\ PackedOK(md, a.unique)
  <2>1. Unpacked(md, Len(A)) = A /\ PackedOK(md, Len(A)) BY <1>4, <1>5, PackedBack
  <2> QED BY <1>4, <2>1
<1>8. ReadManifestOf(md) = m /\ ReadLanesOf(md, a.unique) = A /\ Expanded(md) = m
  BY <1>5, <1>6, <1>7 DEF ReadManifestOf, ReadLanesOf, ReadsBack
<1>9. fc[0] \in Nat /\ fc[1] \in Nat /\ fc[2] \in Nat BY DEF FramesTotal, Lanes
<1>10. \A l \in Lanes : LaneHeld(a, m, fc, codecs, l)
  <2> SUFFICES ASSUME NEW l \in Lanes PROVE LaneHeld(a, m, fc, codecs, l) OBVIOUS
  <2>1. ~IsLegacy(a.metadata) /\ a.metadata.frameCounts = fc /\ a.metadata.codecs = codecs
    BY <1>5 DEF md
  <2> QED BY <1>1, <2>1, LaneReadBack
<1>11. ASSUME NEW l \in Lanes
       PROVE  /\ LaneRead(a, l) = LaneUnits(m, A, l) /\ LaneGood(a, l)
              /\ (RawSize(m, A, l) = 0) = (fc[l] = 0)
  BY <1>10 DEF LaneHeld, A
<1>12. ParseMetadata(md, a.unique)
  <2>1. /\ ChunksRead(md) /\ ChunksCovered(md)
        /\ Cardinality({i \in DOMAIN md.chunks : md.chunks[i].tag = 0}) = a.unique
    BY <1>6 DEF ReadsBack
  <2>2. TableParsed(m) BY ScanParsed
  <2>3. ParseDedupManifest(m, a.unique + 1) BY <2>2 DEF ParseDedupManifest, TableParsed
  <2>4. \A l \in Lanes : (RawSize(m, A, l) = 0) = (md.frameCounts[l] = 0) BY <1>5, <1>11
  <2>5. \A l \in Lanes : md.codecs[l] \in ValidCodecs[l] /\ md.frameCounts[l] <= MaxLaneFrames
    BY <1>5
  <2>6. \E n \in {Expanded(md)}, lanes \in {Unpacked(md, a.unique)} :
           /\ ParseDedupManifest(n, a.unique + 1)
           /\ \A l \in Lanes : (RawSize(n, lanes, l) = 0) = (md.frameCounts[l] = 0)
    BY <1>7, <1>8, <2>3, <2>4
  <2>7. ParseCompact(md, a.unique) BY <1>7, <2>1, <2>5, <2>6 DEF ParseCompact
  <2> QED BY <1>5, <2>7 DEF ParseMetadata
<1>13. IsRun(a.frames, LanesBefore(fc, 3)) /\ LanesBefore(fc, 3) \in Nat
  BY <1>9 DEF Laid, LanesBefore
<1>14. Len(a.frames) = LanesBefore(fc, 3) /\ DOMAIN a.frames = 1 .. LanesBefore(fc, 3)
  BY <1>13, RunLength
<1>15. Len(a.frames) = LaneStart(md, 3)
  <2>1. \A j \in Lanes : md.frameCounts[j] \in Nat BY <1>5, <1>9 DEF Lanes
  <2>2. LaneStart(md, 3) = LanesBefore(md.frameCounts, 3) BY <2>1, LaneStartsAt
  <2> QED BY <1>5, <1>14, <2>2
<1>16. ASSUME NEW k \in DOMAIN a.frames PROVE a.frames[k].sealed /\ a.frames[k].index = k
  <2>1. k \in 1 .. LanesBefore(fc, 3) BY <1>14
  <2>2. PICK l \in Lanes : \E j \in 1 .. fc[l] : k = LanesBefore(fc, l) + j
    BY <1>9, <2>1, FrameOfLane
  <2>3. PICK j \in 1 .. fc[l] : k = LanesBefore(fc, l) + j BY <2>2
  <2> QED BY <1>10, <2>3 DEF LaneHeld
<1>17. AllFound(m, content)
  <2>1. \A l \in Lanes : content[l] = LaneUnits(m, Assignments(m), l) BY <1>11 DEF A
  <2> HIDE DEF content
  <2> QED BY <1>1, <2>1, ChunksFound
<1>18. \A l \in Lanes : LaneGood(a, l) /\ Len(content[l]) = RawSize(m, A, l)
  BY <1>11 DEF RawSize
<1>19. DigestsMatch(m) BY DigestsScanned
<1> HIDE DEF content
<1>20. ChunksRestored(m, LAMBDA k : ChunkIn(content, A, SizesOf(m), k))
  BY <1>17 DEF AllFound, ChunksRestored, A
<1>21. LanesWhole(a) BY <1>8, <1>12, <1>15, <1>16, <1>18, <1>19, <1>20 DEF LanesWhole, content, md
<1> QED BY <1>8, <1>21 DEF md
=============================================================================

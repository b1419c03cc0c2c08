-------------------------- MODULE EndPointsLemmas ---------------------------
(***************************************************************************)
(* Lemmas about the policies of endpoints: the lists, the types, which     *)
(* policies are stored, which endpoints there are and whose policies they  *)
(* carry.  EndPointsProofs has the theorems.                               *)
(***************************************************************************)
EXTENDS EndPoints, TLAPS
-----------------------------------------------------------------------------
(* What the lemmas use of numbers and of finite sets.  EndPointsProofs shows     *)
(* that it holds; until then it is a hypothesis, so that the theorems of the     *)
(* library are not in the context of every step.                                 *)

\* A set of numbers that is not empty has a least one, and a list of the members of a
\* finite set, as long as there are members, has none of them twice.
Counting ==
  /\ \A T \in SUBSET Nat : T # {} => \E n \in T : \A m \in T : n <= m
  /\ \A S : IsFiniteSet(S) =>
       /\ Cardinality(S) \in Nat
       /\ \A ids \in Orders(S) : \A i, j \in 1 .. Cardinality(S) : ids[i] = ids[j] => i = j

LEMMA LeastNat ==
  ASSUME Counting, NEW T \in SUBSET Nat, T # {}
  PROVE  \E n \in T : \A m \in T : n <= m
BY Zenon DEF Counting

LEMMA OrderedOnce ==
  ASSUME Counting, NEW S, IsFiniteSet(S), NEW ids \in Orders(S)
  PROVE  Cardinality(S) \in Nat /\ \A i, j \in 1 .. Cardinality(S) : ids[i] = ids[j] => i = j
BY Zenon DEF Counting

\* A set with 0 and with the successors of its members has all numbers.
LEMMA SetInduction ==
  ASSUME Counting, NEW S, 0 \in S, \A n \in Nat : n \in S => n + 1 \in S
  PROVE  Nat \subseteq S
<1> SUFFICES ASSUME ~(Nat \subseteq S) PROVE FALSE
  OBVIOUS
<1>1. PICK n \in Nat \ S : \A m \in Nat \ S : n <= m
  BY LeastNat, Zenon
<1>2. n # 0 /\ n - 1 \in Nat
  BY <1>1
<1>3. n - 1 \in S
  BY <1>1, <1>2
<1> QED BY <1>1, <1>2, <1>3
-----------------------------------------------------------------------------
(* Lists. *)

LEMMA ToSetFacts ==
  ASSUME NEW A, NEW s \in Seq(A)
  PROVE  /\ ToSet(s) \subseteq A /\ \A x : x \in ToSet(s) <=> \E i \in 1 .. Len(s) : s[i] = x
         /\ DOMAIN s = 1 .. Len(s) /\ Len(s) \in Nat /\ \A i \in 1 .. Len(s) : s[i] \in A
BY DEF ToSet

LEMMA ListFacts ==
  ASSUME NEW A, NEW n \in Nat, NEW r \in [1 .. n -> A]
  PROVE  r \in Seq(A) /\ Len(r) = n /\ DOMAIN r = 1 .. n
OBVIOUS

LEMMA HeadFacts ==
  ASSUME NEW A, NEW s \in Seq(A), s # <<>>
  PROVE  /\ 1 \in DOMAIN s /\ Head(s) = s[1] /\ Head(s) \in A
         /\ Tail(s) \in Seq(A) /\ (Len(s) # 1 => Tail(s) # <<>>)
         /\ \A i \in DOMAIN s : i = 1 \/ (i - 1 \in DOMAIN Tail(s) /\ s[i] = Tail(s)[i - 1])
         /\ \A i \in DOMAIN Tail(s) : i + 1 \in DOMAIN s /\ Tail(s)[i] = s[i + 1]
         /\ Len(s) = 1 => DOMAIN s = {1}
<1>1. Len(s) \in Nat /\ Len(s) # 0 /\ DOMAIN s = 1 .. Len(s)
  OBVIOUS
<1>2. /\ Tail(s) \in Seq(A) /\ Len(Tail(s)) = Len(s) - 1 /\ DOMAIN Tail(s) = 1 .. Len(s) - 1
      /\ \A i \in 1 .. Len(s) - 1 : Tail(s)[i] = s[i + 1]
  OBVIOUS
<1>3. Head(s) = s[1] /\ s[1] \in A /\ 1 \in DOMAIN s
  BY <1>1
<1>4. Len(s) # 1 => Tail(s) # <<>>
  <2>1. Len(<<>>) = 0
    OBVIOUS
  <2>2. Len(s) # 1 => Len(Tail(s)) # 0
    BY <1>1, <1>2
  <2> HIDE <1>1, <1>2
  <2> QED BY <2>1, <2>2, Zenon
<1>5. \A i \in DOMAIN s : i = 1 \/ (i - 1 \in DOMAIN Tail(s) /\ s[i] = Tail(s)[i - 1])
  BY <1>1, <1>2
<1>6. \A i \in DOMAIN Tail(s) : i + 1 \in DOMAIN s /\ Tail(s)[i] = s[i + 1]
  BY <1>1, <1>2
<1>7. Len(s) = 1 => DOMAIN s = {1}
  BY <1>1
<1> QED BY <1>2, <1>3, <1>4, <1>5, <1>6, <1>7

LEMMA AppendFacts ==
  ASSUME NEW A, NEW s \in Seq(A), NEW x \in A
  PROVE  /\ Append(s, x) \in Seq(A) /\ Len(Append(s, x)) = Len(s) + 1
         /\ ToSet(Append(s, x)) = ToSet(s) \cup {x}
         /\ \A i \in 1 .. Len(s) + 1 : Append(s, x)[i] = IF i = Len(s) + 1 THEN x ELSE s[i]
<1>1. /\ Append(s, x) \in Seq(A) /\ Len(Append(s, x)) = Len(s) + 1
      /\ \A i \in 1 .. Len(s) + 1 : Append(s, x)[i] = IF i = Len(s) + 1 THEN x ELSE s[i]
  OBVIOUS
<1>2. ToSet(Append(s, x)) = ToSet(s) \cup {x}
  <2>1. \A y : y \in ToSet(Append(s, x)) <=> \E i \in 1 .. Len(s) + 1 : Append(s, x)[i] = y
    <3> DEFINE q == Append(s, x)
    <3>1. q \in Seq(A) /\ Len(q) = Len(s) + 1
      BY <1>1
    <3> HIDE DEF q
    <3>2. \A y : y \in ToSet(q) <=> \E i \in 1 .. Len(s) + 1 : q[i] = y
      BY <3>1, ToSetFacts
    <3> QED BY <3>2 DEF q
  <2>2. \A y : y \in ToSet(s) <=> \E i \in 1 .. Len(s) : s[i] = y
    BY ToSetFacts
  <2>3. Len(s) \in Nat /\ \A i \in 1 .. Len(s) + 1 : i = Len(s) + 1 \/ i \in 1 .. Len(s)
    OBVIOUS
  <2>4. \A i \in 1 .. Len(s) : i \in 1 .. Len(s) + 1 /\ i # Len(s) + 1
    OBVIOUS
  <2> QED BY <1>1, <2>1, <2>2, <2>3, <2>4
<1> QED BY <1>1, <1>2

LEMMA FirstFacts ==
  ASSUME Counting, NEW A, NEW s \in Seq(A), NEW S
  PROVE  LET i == FirstIn(s, S) IN
         /\ i = 0 <=> ToSet(s) \cap S = {}
         /\ i # 0 => i \in 1 .. Len(s) /\ s[i] \in S /\ \A j \in 1 .. Len(s) : s[j] \in S => i <= j
<1>1. CASE ToSet(s) \cap S = {}
  BY <1>1 DEF FirstIn
<1>2. CASE ToSet(s) \cap S # {}
  <2> DEFINE T == {i \in 1 .. Len(s) : s[i] \in S}
  <2>1. T \in SUBSET Nat /\ T # {}
    BY <1>2, ToSetFacts
  <2>2. PICK n \in T : \A m \in T : n <= m
    BY <2>1, LeastNat, Zenon
  <2>3. n \in DOMAIN s /\ s[n] \in S /\ \A j \in 1 .. n - 1 : s[j] \notin S
    BY <2>2, ToSetFacts
  <2> DEFINE i == FirstIn(s, S)
  <2>4. i \in DOMAIN s /\ s[i] \in S /\ \A j \in 1 .. i - 1 : s[j] \notin S
    BY <1>2, <2>3 DEF FirstIn
  <2>5. i \in 1 .. Len(s) /\ Len(s) \in Nat
    BY <2>4, ToSetFacts
  <2>6. \A j \in 1 .. Len(s) : s[j] \in S => i <= j
    <3> SUFFICES ASSUME NEW j \in 1 .. Len(s), s[j] \in S, j < i PROVE FALSE
      BY <2>5
    <3> QED BY <2>4, <2>5
  <2> QED BY <1>2, <2>4, <2>5, <2>6
<1> QED BY <1>1, <1>2

\* List r is what is left of list s when some elements are taken out.
Within(r, s) ==
  \E f \in [1 .. Len(r) -> 1 .. Len(s)] :
    /\ \A k, l \in 1 .. Len(r) : k < l => f[k] < f[l]
    /\ \A k \in 1 .. Len(r) : r[k] = s[f[k]]

\* At most one element of s is in S.
Once(s, S) == \A i, j \in DOMAIN s : s[i] \in S /\ s[j] \in S => i = j

LEMMA WithoutFacts ==
  ASSUME Counting, NEW A, NEW s \in Seq(A), NEW S
  PROVE  LET r == WithoutFirst(s, S) IN
         /\ r \in Seq(A) /\ Within(r, s)
         /\ Once(s, S) => ToSet(r) = ToSet(s) \ S
<1> DEFINE r == WithoutFirst(s, S)
<1> DEFINE i == FirstIn(s, S)
<1>0. Len(s) \in Nat /\ DOMAIN s = 1 .. Len(s) /\ \A j \in 1 .. Len(s) : s[j] \in A
  OBVIOUS
<1>1. CASE i = 0
  <2>1. r = s /\ ToSet(s) \cap S = {}
    BY <1>1, FirstFacts DEF WithoutFirst
  <2>2. Within(s, s)
    <3> DEFINE f == [k \in 1 .. Len(s) |-> k]
    <3>1. /\ f \in [1 .. Len(s) -> 1 .. Len(s)] /\ \A k, l \in 1 .. Len(s) : k < l => f[k] < f[l]
          /\ \A k \in 1 .. Len(s) : s[k] = s[f[k]]
      OBVIOUS
    <3> QED BY <3>1, Zenon DEF Within
  <2> QED BY <2>1, <2>2
<1>2. CASE i # 0
  <2>1. i \in 1 .. Len(s) /\ s[i] \in S
    BY <1>2, FirstFacts
  <2> DEFINE f == [k \in 1 .. Len(s) - 1 |-> IF k < i THEN k ELSE k + 1]
  <2>2. r = [k \in 1 .. Len(s) - 1 |-> IF k < i THEN s[k] ELSE s[k + 1]]
    BY <1>2 DEF WithoutFirst
  <2> HIDE DEF i, r
  <2>3. /\ f \in [1 .. Len(s) - 1 -> 1 .. Len(s)]
        /\ \A k, l \in 1 .. Len(s) - 1 : k < l => f[k] < f[l]
        /\ \A k \in 1 .. Len(s) - 1 : f[k] # i
    BY <1>0, <2>1
  <2>4. \A k \in 1 .. Len(s) - 1 : r[k] = s[f[k]] /\ r[k] \in A
    BY <1>0, <2>1, <2>2, <2>3
  <2>5. r \in Seq(A) /\ Len(r) = Len(s) - 1 /\ DOMAIN r = 1 .. Len(s) - 1
    <3>1. Len(s) - 1 \in Nat
      BY <1>0, <2>1
    <3>2. r \in [1 .. Len(s) - 1 -> A]
      BY <2>2, <2>4
    <3> QED BY <3>1, <3>2, ListFacts
  <2>6. Within(r, s)
    <3> HIDE DEF f
    <3> QED BY <2>3, <2>4, <2>5 DEF Within
  <2>7. ASSUME Once(s, S) PROVE ToSet(r) = ToSet(s) \ S
    <3>1. \A j \in 1 .. Len(s) : s[j] \in S <=> j = i
      BY <1>0, <2>1, <2>7 DEF Once
    <3>2. \A j \in 1 .. Len(s) : j # i => \E k \in 1 .. Len(s) - 1 : f[k] = j
      <4> SUFFICES ASSUME NEW j \in 1 .. Len(s), j # i PROVE \E k \in 1 .. Len(s) - 1 : f[k] = j
        OBVIOUS
      <4>1. CASE j < i
        BY <1>0, <2>1, <4>1, j \in 1 .. Len(s) - 1
      <4>2. CASE j > i
        BY <1>0, <2>1, <4>2, j - 1 \in 1 .. Len(s) - 1
      <4> QED BY <1>0, <2>1, <4>1, <4>2
    <3> HIDE DEF f
    <3>3. \A x : x \in ToSet(r) <=> \E k \in 1 .. Len(s) - 1 : s[f[k]] = x
      BY <2>4, <2>5 DEF ToSet
    <3>4. \A x : x \in ToSet(s) <=> \E j \in 1 .. Len(s) : s[j] = x
      BY <1>0 DEF ToSet
    <3>5. \A k \in 1 .. Len(s) - 1 : f[k] \in 1 .. Len(s) /\ f[k] # i
      BY <2>3, Zenon
    <3>6. ToSet(r) \subseteq ToSet(s) \ S
      BY <3>1, <3>3, <3>4, <3>5
    <3>7. ToSet(s) \ S \subseteq ToSet(r)
      BY <3>1, <3>2, <3>3, <3>4
    <3> QED BY <3>6, <3>7
  <2> QED BY <2>5, <2>6, <2>7 DEF r
<1> QED BY <1>1, <1>2

LEMMA WithFacts ==
  ASSUME Counting, NEW A, NEW s \in Seq(A), NEW S, NEW x \in A, ToSet(s) \cap S # {}
  PROVE  LET r == WithFirst(s, S, x)
             i == FirstIn(s, S)
         IN  /\ r \in Seq(A) /\ Len(r) = Len(s) /\ i \in 1 .. Len(s) /\ s[i] \in S
             /\ \A j \in 1 .. Len(s) : r[j] = IF j = i THEN x ELSE s[j]
             /\ \A j \in 1 .. Len(s) : s[j] \in S => i <= j
             /\ Once(s, S) => ToSet(r) = (ToSet(s) \ S) \cup {x}
<1> DEFINE r == WithFirst(s, S, x)
<1> DEFINE i == FirstIn(s, S)
<1>1. i \in 1 .. Len(s) /\ s[i] \in S /\ \A j \in 1 .. Len(s) : s[j] \in S => i <= j
  BY FirstFacts
<1>2. r = [s EXCEPT ![i] = x]
  BY DEF WithFirst
<1> HIDE DEF i, r
<1>3. r \in Seq(A) /\ Len(r) = Len(s) /\ \A j \in 1 .. Len(s) : r[j] = IF j = i THEN x ELSE s[j]
  BY <1>1, <1>2
<1>4. ASSUME Once(s, S) PROVE ToSet(r) = (ToSet(s) \ S) \cup {x}
  <2>1. \A j \in 1 .. Len(s) : s[j] \in S <=> j = i
    BY <1>1, <1>4 DEF Once
  <2>2. \A y : y \in ToSet(r) <=> \E j \in 1 .. Len(s) : r[j] = y
    BY <1>3, ToSetFacts
  <2>3. \A y : y \in ToSet(s) <=> \E j \in 1 .. Len(s) : s[j] = y
    BY ToSetFacts
  <2> QED BY <1>1, <1>3, <2>1, <2>2, <2>3
<1> QED BY <1>1, <1>3, <1>4 DEF i, r

LEMMA ConcatFacts ==
  ASSUME NEW A, NEW s \in Seq(A), NEW r \in Seq(A)
  PROVE  /\ s \o r \in Seq(A) /\ Len(s \o r) = Len(s) + Len(r) /\ ToSet(s \o r) = ToSet(s) \cup ToSet(r)
         /\ \A i \in 1 .. Len(s) : i \in 1 .. Len(s \o r) /\ (s \o r)[i] = s[i]
         /\ \A i \in 1 .. Len(r) : Len(s) + i \in 1 .. Len(s \o r) /\ (s \o r)[Len(s) + i] = r[i]
         /\ \A i \in 1 .. Len(s \o r) : i \in 1 .. Len(s) \/ \E j \in 1 .. Len(r) : i = Len(s) + j
<1> DEFINE q == s \o r
<1>1. /\ q \in Seq(A) /\ Len(q) = Len(s) + Len(r) /\ Len(s) \in Nat /\ Len(r) \in Nat
      /\ \A i \in 1 .. Len(s) + Len(r) : q[i] = IF i <= Len(s) THEN s[i] ELSE r[i - Len(s)]
  OBVIOUS
<1> HIDE DEF q
<1>2. \A i \in 1 .. Len(s) : i \in 1 .. Len(q) /\ q[i] = s[i]
  BY <1>1
<1>3. \A i \in 1 .. Len(r) : Len(s) + i \in 1 .. Len(q) /\ q[Len(s) + i] = r[i]
  <2> SUFFICES ASSUME NEW i \in 1 .. Len(r) PROVE Len(s) + i \in 1 .. Len(q) /\ q[Len(s) + i] = r[i]
    OBVIOUS
  <2>1. Len(s) + i \in 1 .. Len(s) + Len(r) /\ ~(Len(s) + i <= Len(s)) /\ Len(s) + i - Len(s) = i
    BY <1>1
  <2> QED BY <1>1, <2>1
<1>4. \A i \in 1 .. Len(q) : i \in 1 .. Len(s) \/ \E j \in 1 .. Len(r) : i = Len(s) + j
  <2> SUFFICES ASSUME NEW i \in 1 .. Len(q), i \notin 1 .. Len(s) PROVE \E j \in 1 .. Len(r) : i = Len(s) + j
    OBVIOUS
  <2>1. i - Len(s) \in 1 .. Len(r) /\ i = Len(s) + (i - Len(s))
    BY <1>1
  <2> QED BY <2>1, Zenon
<1>5. ToSet(q) = ToSet(s) \cup ToSet(r)
  <2>1. /\ \A x : x \in ToSet(q) <=> \E i \in 1 .. Len(q) : q[i] = x
        /\ \A x : x \in ToSet(s) <=> \E i \in 1 .. Len(s) : s[i] = x
        /\ \A x : x \in ToSet(r) <=> \E i \in 1 .. Len(r) : r[i] = x
    BY <1>1, ToSetFacts
  <2>2. ASSUME NEW x \in ToSet(q) PROVE x \in ToSet(s) \cup ToSet(r)
    <3>1. PICK i \in 1 .. Len(q) : q[i] = x
      BY <2>1
    <3>2. CASE i \in 1 .. Len(s)
      BY <1>2, <2>1, <3>1, <3>2
    <3>3. ASSUME NEW j \in 1 .. Len(r), i = Len(s) + j PROVE x \in ToSet(r)
      BY <1>3, <2>1, <3>1, <3>3
    <3> QED BY <1>4, <3>2, <3>3
  <2>3. ToSet(s) \cup ToSet(r) \subseteq ToSet(q)
    BY <1>2, <1>3, <2>1, Zenon
  <2> QED BY <2>2, <2>3
<1> QED BY <1>1, <1>2, <1>3, <1>4, <1>5 DEF q
-----------------------------------------------------------------------------
(* Kept: a stage of its recursion from the one before. *)

Stage(F, s, S, i) ==
  IF i = 0 THEN <<>> ELSE IF s[i] \in S THEN Append(F[i - 1], s[i]) ELSE F[i - 1]
Stages(F, s, S, n) == F = [i \in 0 .. n |-> Stage(F, s, S, i)]

LEMMA KeptDef ==
  ASSUME Counting, NEW A, NEW s \in Seq(A), NEW S
  PROVE  \E F : Stages(F, s, S, Len(s)) /\ Kept(s, S) = F[Len(s)]
<1> DEFINE G == {n \in Nat : \E F : Stages(F, s, S, n)}
<1>1. 0 \in G
  <2>1. Stages([i \in 0 .. 0 |-> <<>>], s, S, 0)
    BY DEF Stages, Stage
  <2> QED BY <2>1
<1>2. ASSUME NEW n \in Nat, n \in G PROVE n + 1 \in G
  <2>1. PICK F : Stages(F, s, S, n)
    BY <1>2
  <2> DEFINE x == Stage(F, s, S, n + 1)
             H == [i \in 0 .. n + 1 |-> IF i = n + 1 THEN x ELSE F[i]]
  <2>2. \A i \in 0 .. n + 1 : H[i] = IF i = n + 1 THEN x ELSE F[i]
    OBVIOUS
  <2>3. \A i \in 0 .. n : F[i] = Stage(F, s, S, i)
    BY <2>1 DEF Stages
  <2>4. \A i \in 1 .. n + 1 : H[i - 1] = F[i - 1]
    BY <2>2
  <2>5. \A i \in 0 .. n + 1 : Stage(H, s, S, i) = Stage(F, s, S, i)
    <3> HIDE DEF H
    <3> QED BY <2>4 DEF Stage
  <2>6. \A i \in 0 .. n + 1 : H[i] = Stage(H, s, S, i)
    <3> HIDE DEF H
    <3>1. \A i \in 0 .. n + 1 : i = n + 1 \/ i \in 0 .. n
      OBVIOUS
    <3> QED BY <2>2, <2>3, <2>5, <3>1
  <2>7. Stages(H, s, S, n + 1)
    BY <2>6 DEF Stages
  <2> QED BY <2>7
<1>3. Len(s) \in G
  <2> HIDE DEF G
  <2> QED BY <1>1, <1>2, SetInduction
<1>4. PICK F : Stages(F, s, S, Len(s))
  BY <1>3
<1> DEFINE Body(g) == [i \in 0 .. Len(s) |->
                         IF i = 0 THEN <<>> ELSE IF s[i] \in S THEN Append(g[i - 1], s[i]) ELSE g[i - 1]]
<1>5. Kept(s, S) = (CHOOSE g : g = Body(g))[Len(s)]
  BY DEF Kept
<1>6. (CHOOSE g : g = Body(g)) = Body(CHOOSE g : g = Body(g))
  <2>1. F = Body(F)
    BY <1>4, Zenon DEF Stages, Stage
  <2> QED BY <2>1, Zenon
<1>7. Stages(CHOOSE g : g = Body(g), s, S, Len(s))
  BY <1>6, Zenon DEF Stages, Stage
<1> QED BY <1>5, <1>7, Zenon

\* The elements of the first n places of s that are in S, in their order.
Picked(r, s, S, n) ==
  \E f \in [1 .. Len(r) -> 1 .. n] :
    /\ \A k, l \in 1 .. Len(r) : k < l => f[k] < f[l]
    /\ \A k \in 1 .. Len(r) : r[k] = s[f[k]] /\ s[f[k]] \in S
    /\ \A j \in 1 .. n : s[j] \in S => \E k \in 1 .. Len(r) : f[k] = j

LEMMA PickedNext ==
  ASSUME NEW A, NEW s \in Seq(A), NEW S, NEW n \in Nat, n + 1 <= Len(s), NEW r \in Seq(A), Picked(r, s, S, n)
  PROVE  /\ s[n + 1] \in S => Append(r, s[n + 1]) \in Seq(A) /\ Picked(Append(r, s[n + 1]), s, S, n + 1)
         /\ s[n + 1] \notin S => Picked(r, s, S, n + 1)
<1>1. PICK f \in [1 .. Len(r) -> 1 .. n] :
        /\ \A k, l \in 1 .. Len(r) : k < l => f[k] < f[l]
        /\ \A k \in 1 .. Len(r) : r[k] = s[f[k]] /\ s[f[k]] \in S
        /\ \A j \in 1 .. n : s[j] \in S => \E k \in 1 .. Len(r) : f[k] = j
  BY Zenon DEF Picked
<1>2. Len(r) \in Nat /\ s[n + 1] \in A /\ \A j \in 1 .. n + 1 : j = n + 1 \/ j \in 1 .. n
  OBVIOUS
<1>3. ASSUME s[n + 1] \notin S PROVE Picked(r, s, S, n + 1)
  <2>1. f \in [1 .. Len(r) -> 1 .. n + 1]
    BY <1>2
  <2>2. \A j \in 1 .. n + 1 : s[j] \in S => \E k \in 1 .. Len(r) : f[k] = j
    BY <1>1, <1>2, <1>3, Zenon
  <2> QED BY <1>1, <2>1, <2>2, Zenon DEF Picked
<1>4. ASSUME s[n + 1] \in S
      PROVE  Append(r, s[n + 1]) \in Seq(A) /\ Picked(Append(r, s[n + 1]), s, S, n + 1)
  <2> DEFINE m == Len(r) + 1
             q == Append(r, s[n + 1])
             g == [k \in 1 .. m |-> IF k = m THEN n + 1 ELSE f[k]]
  <2>1. q \in Seq(A) /\ Len(q) = m /\ \A k \in 1 .. m : q[k] = IF k = m THEN s[n + 1] ELSE r[k]
    BY <1>2, AppendFacts
  <2>2. \A k \in 1 .. m : k = m \/ k \in 1 .. Len(r)
    BY <1>2
  <2>3. \A k \in 1 .. m : g[k] = IF k = m THEN n + 1 ELSE f[k]
    OBVIOUS
  <2>4. g \in [1 .. m -> 1 .. n + 1]
    <3>1. \A k \in 1 .. Len(r) : f[k] \in 1 .. n + 1
      BY <1>2
    <3> QED BY <2>2, <3>1
  <2> HIDE DEF g, q
  <2>5. \A k, l \in 1 .. m : k < l => g[k] < g[l]
    <3> SUFFICES ASSUME NEW k \in 1 .. m, NEW l \in 1 .. m, k < l PROVE g[k] < g[l]
      OBVIOUS
    <3>1. k \in 1 .. Len(r) /\ g[k] = f[k] /\ f[k] \in 1 .. n
      BY <1>2, <2>3
    <3>2. CASE l = m
      BY <2>3, <3>1, <3>2
    <3>3. CASE l # m
      BY <1>1, <2>2, <2>3, <3>1, <3>3
    <3> QED BY <3>2, <3>3
  <2>6. \A k \in 1 .. m : q[k] = s[g[k]] /\ s[g[k]] \in S
    BY <1>1, <1>4, <2>1, <2>2, <2>3
  <2>7. \A j \in 1 .. n + 1 : s[j] \in S => \E k \in 1 .. m : g[k] = j
    <3> SUFFICES ASSUME NEW j \in 1 .. n + 1, s[j] \in S PROVE \E k \in 1 .. m : g[k] = j
      OBVIOUS
    <3>1. CASE j = n + 1
      BY <1>2, <2>3, <3>1, m \in 1 .. m
    <3>2. CASE j \in 1 .. n
      <4>1. PICK k \in 1 .. Len(r) : f[k] = j
        BY <1>1, <3>2, Zenon
      <4>2. k \in 1 .. m /\ k # m
        BY <1>2
      <4> QED BY <2>3, <4>1, <4>2
    <3> QED BY <1>2, <3>1, <3>2
  <2>8. Picked(q, s, S, n + 1)
    <3> HIDE DEF m
    <3> QED BY <2>1, <2>4, <2>5, <2>6, <2>7, Zenon DEF Picked
  <2> QED BY <2>1, <2>8 DEF q
<1> QED BY <1>3, <1>4

LEMMA KeptFacts ==
  ASSUME Counting, NEW A, NEW s \in Seq(A), NEW S
  PROVE  LET r == Kept(s, S) IN r \in Seq(A) /\ Within(r, s) /\ ToSet(r) = ToSet(s) \cap S
<1> DEFINE r == Kept(s, S)
<1>1. PICK F : Stages(F, s, S, Len(s)) /\ r = F[Len(s)]
  BY KeptDef
<1>2. \A i \in 0 .. Len(s) : F[i] = Stage(F, s, S, i)
  BY <1>1 DEF Stages
<1>3. Len(s) \in Nat
  OBVIOUS
<1> DEFINE G == {n \in Nat : n <= Len(s) => F[n] \in Seq(A) /\ Picked(F[n], s, S, n)}
<1>4. 0 \in G
  <2>1. F[0] = <<>> /\ Len(<<>>) = 0 /\ <<>> \in Seq(A)
    BY <1>2, <1>3 DEF Stage
  <2>2. Picked(<<>>, s, S, 0)
    <3> DEFINE f == [k \in 1 .. 0 |-> k]
    <3>1. f \in [1 .. 0 -> 1 .. 0] /\ \A k \in 1 .. 0 : FALSE
      OBVIOUS
    <3> HIDE DEF f
    <3>2. \E g \in [1 .. 0 -> 1 .. 0] : TRUE
      BY <3>1, Zenon
    <3> QED BY <2>1, <3>1, <3>2, Zenon DEF Picked
  <2> QED BY <2>1, <2>2, Zenon
<1>5. ASSUME NEW n \in Nat, n \in G PROVE n + 1 \in G
  <2> SUFFICES ASSUME n + 1 <= Len(s) PROVE F[n + 1] \in Seq(A) /\ Picked(F[n + 1], s, S, n + 1)
    OBVIOUS
  <2>1. F[n] \in Seq(A) /\ Picked(F[n], s, S, n)
    BY <1>3, <1>5
  <2>2. F[n + 1] = IF s[n + 1] \in S THEN Append(F[n], s[n + 1]) ELSE F[n]
    BY <1>2, <1>3, n + 1 \in 0 .. Len(s) DEF Stage
  <2> QED BY <2>1, <2>2, PickedNext
<1>6. r \in Seq(A) /\ Picked(r, s, S, Len(s))
  <2>1. Len(s) \in G
    <3> HIDE DEF G
    <3> QED BY <1>3, <1>4, <1>5, SetInduction
  <2> QED BY <1>1, <1>3, <2>1
<1> HIDE DEF r
<1>7. PICK f \in [1 .. Len(r) -> 1 .. Len(s)] :
        /\ \A k, l \in 1 .. Len(r) : k < l => f[k] < f[l]
        /\ \A k \in 1 .. Len(r) : r[k] = s[f[k]] /\ s[f[k]] \in S
        /\ \A j \in 1 .. Len(s) : s[j] \in S => \E k \in 1 .. Len(r) : f[k] = j
  BY <1>6 DEF Picked
<1>8. Within(r, s)
  BY <1>7 DEF Within
<1>9. ToSet(r) = ToSet(s) \cap S
  <2>1. \A x : x \in ToSet(r) <=> \E k \in 1 .. Len(r) : r[k] = x
    BY <1>6, ToSetFacts
  <2>2. \A x : x \in ToSet(s) <=> \E j \in 1 .. Len(s) : s[j] = x
    BY ToSetFacts
  <2>3. ToSet(r) \subseteq ToSet(s) \cap S
    <3>1. \A k \in 1 .. Len(r) : f[k] \in 1 .. Len(s)
      OBVIOUS
    <3> QED BY <1>7, <2>1, <2>2, <3>1
  <2>4. ToSet(s) \cap S \subseteq ToSet(r)
    BY <1>7, <2>1, <2>2
  <2> QED BY <2>3, <2>4
<1> QED BY <1>6, <1>8, <1>9 DEF r
-----------------------------------------------------------------------------
(* Types, and which handlers run together. *)

Acts == {"ADDED", "MODIFIED", "DELETED"}

PodRun ==
  /\ pod.pc # "idle" => pod.name \in PodNames
  /\ pod.pc \in {"lookup", "containers", "policies", "publish", "push"} =>
       \E v \in DOMAIN PodHistory[pod.name] : pod.version = PodHistory[pod.name][v]
  /\ pod.pc = "push" \/ (pod.pc \in {"containers", "policies", "publish"} /\ ~pod.added) => pod.endpoints # <<>>
  /\ pod.pc = "remove" => "podDelete" \in Events

PolicyRun(h, t) ==
  /\ h.pc # "idle" => h.object \in Policies /\ h.object.type = t /\ h.action \in Acts
  /\ h.pc = "length" => h.idx = 0
  /\ h.pc \in {"copy", "write", "log", "enforce"} => h.idx \in 1 .. h.length
  /\ h.pc \in {"write", "log", "enforce"} => h.endPoint \in EndPoint
  /\ h.pc = "enforce" => h.torn \in EndPoint

RuntimeRun ==
  /\ crt.pc # "idle" => crt.id \in ContainerIDs
  /\ crt.pc = "push" => crt.endPoint \in EndPoint

Running(h) ==
  \/ h = "pod" /\ pod.pc # "idle"
  \/ h = "runtime" /\ crt.pc # "idle"
  \/ h \in Types /\ policy[h].pc # "idle"

Turns == \A g, h \in Handlers : Running(g) /\ Running(h) /\ g # h => {g, h} \subseteq Overlap

Shape == TypeOK /\ PodRun /\ (\A t \in Types : PolicyRun(policy[t], t)) /\ RuntimeRun /\ Turns

LEMMA StartFacts ==
  ASSUME NEW h \in Handlers, MayStart(h)
  PROVE  ~panicked /\ ~Running(h) /\ \A g \in Handlers : Running(g) => {g, h} \subseteq Overlap
<1>1. \A g \in Handlers : Running(g) => g \in Busy
  BY DEF Running, Busy, Handlers, Types
<1> QED BY <1>1 DEF MayStart, Running, Busy, Handlers, Types

LEMMA TurnsStart ==
  ASSUME Turns, NEW h \in Handlers, MayStart(h), \A g \in Handlers : Running(g)' => Running(g) \/ g = h
  PROVE  Turns'
BY StartFacts DEF Turns

LEMMA TurnsStay ==
  ASSUME Turns, \A g \in Handlers : Running(g)' => Running(g)
  PROVE  Turns'
BY DEF Turns

\* The handlers' records.
LEMMA IdleFacts ==
  /\ PodIdle \in PodHandler /\ PolicyIdle \in PolicyHandler /\ RuntimeIdle \in RuntimeHandler
  /\ PodIdle.pc = "idle" /\ PolicyIdle.pc = "idle" /\ RuntimeIdle.pc = "idle"
  /\ \A t : PolicyRun(PolicyIdle, t)
BY DEF PodIdle, PodHandler, PolicyIdle, PolicyHandler, RuntimeIdle, RuntimeHandler, PolicyRun

LEMMA NextIndexFacts ==
  ASSUME NEW h \in PolicyHandler, NEW t, h.object \in Policies, h.object.type = t, h.action \in Acts,
         h.idx \in 0 .. h.length
  PROVE  /\ NextIndex(h) \in PolicyHandler /\ PolicyRun(NextIndex(h), t)
         /\ IF h.idx = h.length THEN NextIndex(h) = PolicyIdle
            ELSE /\ NextIndex(h).pc = "copy" /\ NextIndex(h).idx = h.idx + 1
                 /\ NextIndex(h).length = h.length /\ NextIndex(h).object = h.object
                 /\ NextIndex(h).action = h.action
<1>1. CASE h.idx = h.length
  BY <1>1, IdleFacts DEF NextIndex
<1>2. CASE h.idx # h.length
  <2> DEFINE r == [h EXCEPT !.pc = "copy", !.idx = h.idx + 1, !.endPoint = NoEndPoint, !.torn = NoEndPoint]
  <2>1. NextIndex(h) = r
    BY <1>2 DEF NextIndex
  <2>2. h.length \in Nat /\ h.idx \in Nat /\ h.idx + 1 \in 1 .. h.length
    BY <1>2 DEF PolicyHandler
  <2>3. /\ r.pc = "copy" /\ r.idx = h.idx + 1 /\ r.length = h.length
        /\ r.object = h.object /\ r.action = h.action
    BY DEF PolicyHandler
  <2>4. r \in PolicyHandler
    <3>1. h.idx + 1 \in Nat
      BY <2>2
    <3> QED BY <3>1, Zenon DEF PolicyHandler
  <2> HIDE DEF r
  <2> QED BY <1>2, <2>1, <2>2, <2>3, <2>4 DEF PolicyRun
<1> QED BY <1>1, <1>2

LEMMA VersionOf ==
  ASSUME NEW p \in PodNames, NEW v, \E k \in DOMAIN PodHistory[p] : v = PodHistory[p][k]
  PROVE  v \in Versions
BY DEF Versions

\* The lists a handler computes.
LEMMA UpdatedType ==
  ASSUME Counting, NEW action \in Acts, NEW p \in Policies, NEW e \in EndPoint
  PROVE  UpdatedPolicies(action, p, e) \in Seq(Policies)
<1> DEFINE old == e.SecurityPolicies
<1>1. old \in Seq(Policies)
  BY DEF EndPoint
<1>2. Append(old, p) \in Seq(Policies) /\ WithoutFirst(old, SameAs(p)) \in Seq(Policies)
  BY <1>1, AppendFacts, WithoutFacts
<1>3. HoldsPolicy(p, old) => WithFirst(old, SameAs(p), p) \in Seq(Policies)
  BY <1>1, WithFacts DEF HoldsPolicy
<1>4. AddedPolicy(p, e) \in Seq(Policies)
  BY <1>1, <1>2 DEF AddedPolicy
<1>5. ModifiedPolicy(p, e) \in Seq(Policies)
  BY <1>1, <1>2, <1>3, Zenon DEF ModifiedPolicy
<1>6. DeletedPolicy(p, e) \in Seq(Policies)
  BY <1>2 DEF DeletedPolicy
<1> QED BY <1>4, <1>5, <1>6, Zenon DEF UpdatedPolicies, Acts

LEMMA PodEndPointType ==
  ASSUME Counting, WellFormed, NEW p \in PodNames, NEW v \in Versions, NEW id \in DOMAIN v.containers,
         NEW ps \in Seq(Policies)
  PROVE  PodEndPoint(p, v, id, ps) \in EndPoint
<1>1. IdentitiesOf(p, v) \subseteq Identities /\ v.containers[id] \in ContainerNames /\ id \in ContainerIDs
  BY DEF Identities, ContainerNames, WellFormed
<1>2. PolicyEnabled(p, v) \in {"enabled", "audited", "disabled"}
  BY Zenon DEF PolicyEnabled
<1>3. Kept(ps, {q \in Policies : SelectsContainer(q, v.containers[id])}) \in Seq(Policies)
  BY KeptFacts
<1> QED BY <1>1, <1>2, <1>3 DEF PodEndPoint, EndPoint

LEMMA PoliciesOf ==
  ASSUME NEW e \in EndPoint
  PROVE  /\ e.EndPointName \in PodNames /\ e.ContainerID \in ContainerIDs
         /\ e.SecurityPolicies \in Seq(Policies) /\ ToSet(e.SecurityPolicies) \subseteq Policies
<1>1. e.EndPointName \in PodNames /\ e.ContainerID \in ContainerIDs /\ e.SecurityPolicies \in Seq(Policies)
  BY DEF EndPoint
<1> QED BY <1>1, ToSetFacts

LEMMA EnforcedType ==
  ASSUME TypeOK, NEW e \in EndPoint
  PROVE  Enforced(e) \in [ContainerIDs -> SUBSET Policies]
BY PoliciesOf DEF Enforced, TypeOK

\* The endpoints of a pod, in the order of their containers.
LEMMA PublishType ==
  ASSUME Counting, WellFormed, NEW p \in PodNames, NEW v \in Versions, NEW ps \in Seq(Policies),
         NEW ids \in Orders(DOMAIN v.containers)
  PROVE  LET new == [i \in DOMAIN ids |-> PodEndPoint(p, v, ids[i], ps)] IN
         /\ ids \in Seq(DOMAIN v.containers) /\ ToSet(ids) = DOMAIN v.containers
         /\ \A i, j \in DOMAIN ids : ids[i] = ids[j] => i = j
         /\ new \in Seq(EndPoint) /\ Len(new) = Len(ids) /\ (ids # <<>> => new # <<>>)
<1> DEFINE S == DOMAIN v.containers
           n == Cardinality(S)
           new == [i \in DOMAIN ids |-> PodEndPoint(p, v, ids[i], ps)]
<1>1. IsFiniteSet(S) /\ n \in Nat
  BY OrderedOnce DEF WellFormed
<1>2. ids \in [1 .. n -> S] /\ \A x \in S : \E i \in DOMAIN ids : ids[i] = x
  BY DEF Orders
<1>3. ids \in Seq(S) /\ Len(ids) = n /\ DOMAIN ids = 1 .. n
  <2> HIDE DEF n, S
  <2> QED BY <1>1, <1>2, ListFacts
<1>4. ToSet(ids) = S
  BY <1>2 DEF ToSet
<1>5. \A i, j \in DOMAIN ids : ids[i] = ids[j] => i = j
  BY <1>1, <1>3, OrderedOnce
<1>6. \A i \in DOMAIN ids : PodEndPoint(p, v, ids[i], ps) \in EndPoint
  BY <1>2, <1>3, PodEndPointType
<1>7. new \in Seq(EndPoint) /\ Len(new) = n
  <2>1. new \in [1 .. n -> EndPoint]
    BY <1>3, <1>6
  <2> HIDE DEF n, S, new
  <2> QED BY <1>1, <2>1, ListFacts
<1>8. ids # <<>> => new # <<>>
  <2> HIDE DEF n, S, new
  <2>1. ids # <<>> => n # 0
    BY <1>3
  <2> QED BY <1>7, <2>1
<1> QED BY <1>3, <1>4, <1>5, <1>7, <1>8

LEMMA ShapeInit == Init => Shape
<1> SUFFICES ASSUME Init PROVE Shape
  OBVIOUS
<1>1. TypeOK
  <2>1. SecurityPolicies \in Seq(Policies) /\ EndPoints \in Seq(EndPoint)
    BY DEF Init
  <2> QED BY <2>1, IdleFacts, Zenon DEF Init, TypeOK
<1>2. PodRun /\ RuntimeRun /\ \A t \in Types : policy[t] = PolicyIdle
  BY IdleFacts DEF Init, PodRun, RuntimeRun
<1>3. Turns
  BY <1>2, IdleFacts DEF Init, Turns, Running
<1> QED BY <1>1, <1>2, <1>3, IdleFacts DEF Shape

\* The pod informer.
LEMMA ShapePodStart ==
  ASSUME Shape, NEW p \in PodNames, WellFormed,
         PodAdded(p) \/ PodModified(p) \/ PodDeleted(p) \/ PodTombstone(p)
  PROVE  Shape'
<1>1. /\ UNCHANGED <<policyCache, runtime, Containers, SecurityPolicies, EndPoints, Logger, enforcer,
                      policy, crt, panicked>>
      /\ MayStart("pod") /\ "pod" \in Handlers
  BY Zenon DEF PodAdded, PodModified, PodDeleted, PodTombstone, handlers, Handlers
<1>2. podCache' \in [PodNames -> Nat] /\ K8sPods' \subseteq PodNames
  <2>1. /\ podCache[p] \in Nat /\ podCache \in [PodNames -> Nat] /\ K8sPods \subseteq PodNames
        /\ Len(PodHistory[p]) \in Nat /\ DOMAIN PodHistory[p] = 1 .. Len(PodHistory[p])
    BY DEF Shape, TypeOK, WellFormed
  <2>2. podCache' \in [PodNames -> Nat]
    <3>1. ASSUME PodAdded(p) PROVE podCache' \in [PodNames -> Nat]
      <4>1. PICK v \in DOMAIN PodHistory[p] : podCache' = [podCache EXCEPT ![p] = v]
        BY <3>1, Zenon DEF PodAdded
      <4>2. v \in Nat
        BY <2>1
      <4> QED BY <2>1, <4>1, <4>2
    <3>2. ASSUME PodModified(p) PROVE podCache' \in [PodNames -> Nat]
      <4>1. PICK v \in podCache[p] .. Len(PodHistory[p]) : podCache' = [podCache EXCEPT ![p] = v]
        BY <3>2, Zenon DEF PodModified
      <4>2. v \in Nat
        BY <2>1
      <4> QED BY <2>1, <4>1, <4>2
    <3>3. ASSUME PodDeleted(p) \/ PodTombstone(p) PROVE podCache' \in [PodNames -> Nat]
      BY <2>1, <3>3 DEF PodDeleted, PodTombstone
    <3> QED BY <3>1, <3>2, <3>3
  <2>3. K8sPods' \in {K8sPods, K8sPods \cup {p}, K8sPods \ {p}}
    BY Zenon DEF PodAdded, PodModified, PodDeleted, PodTombstone
  <2> QED BY <2>1, <2>2, <2>3
<1>3. /\ pod' \in PodHandler /\ pod'.pc \notin {"push", "policies", "publish"} /\ (pod'.pc = "containers" => pod'.added)
      /\ pod'.pc # "idle" => pod'.name \in PodNames
      /\ pod'.pc \in {"lookup", "containers", "policies", "publish", "push"} =>
           \E v \in DOMAIN PodHistory[pod'.name] : pod'.version = PodHistory[pod'.name][v]
      /\ pod'.pc = "remove" => "podDelete" \in Events
  <2>0. ~Running("pod") /\ pod \in PodHandler
    BY <1>1, StartFacts DEF Shape, TypeOK
  <2>1. CASE PodAdded(p)
    <3>1. PICK v \in DOMAIN PodHistory[p] :
            pod' = [PodIdle EXCEPT !.pc = IF p \in K8sPods THEN "lookup" ELSE "containers",
                                   !.name = p, !.version = PodHistory[p][v], !.added = p \notin K8sPods]
      BY <2>1, Zenon DEF PodAdded
    <3>2. PodHistory[p][v] \in Versions
      BY DEF Versions
    <3> QED BY <3>1, <3>2, IdleFacts, Zenon DEF PodIdle, PodHandler
  <2>2. CASE PodModified(p)
    <3>1. PICK v \in podCache[p] .. Len(PodHistory[p]) :
            pod' = [PodIdle EXCEPT !.pc = "lookup", !.name = p, !.version = PodHistory[p][v]]
      BY <2>2, Zenon DEF PodModified
    <3>2. v \in DOMAIN PodHistory[p]
      <4>1. podCache[p] \in Nat /\ podCache[p] # 0
        BY <2>2, Zenon DEF PodModified, Shape, TypeOK
      <4>2. Len(PodHistory[p]) \in Nat /\ DOMAIN PodHistory[p] = 1 .. Len(PodHistory[p])
        BY DEF WellFormed
      <4> QED BY <4>1, <4>2
    <3>3. PodHistory[p][v] \in Versions
      BY <3>2 DEF Versions
    <3> QED BY <3>1, <3>2, <3>3, IdleFacts, Zenon DEF PodIdle, PodHandler
  <2>3. CASE PodDeleted(p)
    BY <2>3, IdleFacts, Zenon DEF PodDeleted, PodIdle, PodHandler
  <2>4. CASE PodTombstone(p)
    BY <2>0, <2>4, Zenon DEF PodTombstone, handlers, Running
  <2> QED BY <2>1, <2>2, <2>3, <2>4
<1>4. TypeOK'
  BY <1>1, <1>2, <1>3 DEF Shape, TypeOK, enforcer
<1>5. Turns'
  BY <1>1, TurnsStart DEF Shape, Running
<1> QED BY <1>1, <1>3, <1>4, <1>5 DEF Shape, PodRun, RuntimeRun

LEMMA ShapePodStep ==
  ASSUME Counting, Shape, WellFormed,
         PodLookup \/ PodContainers \/ PodPolicies \/ PodPublish \/ PodReplace \/ PodPush \/ PodRemove
  PROVE  Shape'
<1>0. TypeOK /\ PodRun /\ pod \in PodHandler /\ EndPoints \in Seq(EndPoint)
  BY DEF Shape, TypeOK
<1>1. /\ UNCHANGED <<podCache, policyCache, runtime, SecurityPolicies, ContainerMap, policy, crt, panicked, K8sPods>>
      /\ pod.pc # "idle" /\ pod.name \in PodNames
  BY <1>0, Zenon DEF PodLookup, PodContainers, PodPolicies, PodPublish, PodReplace, PodPush, PodRemove, PodStep, cluster, PodRun
<1>2. pod.pc # "remove" => pod.version \in Versions
  BY <1>0, <1>1 DEF PodRun, Versions, PodHandler
<1> DEFINE Typed == /\ Containers' \in [ContainerIDs -> SUBSET {"pod", "runtime"}]
                    /\ EndPoints' \in Seq(EndPoint) /\ Logger' \in [PodNames -> SUBSET Policies]
                    /\ Rules' \in [ContainerIDs -> SUBSET Policies] /\ pod' \in PodHandler
           Run == /\ pod'.pc \in {"idle", "containers", "policies", "publish", "push"}
                  /\ pod'.pc # "idle" => pod'.name = pod.name /\ pod'.version = pod.version /\ pod.pc # "remove"
                  /\ pod'.pc = "push" \/ (pod'.pc # "idle" /\ ~pod'.added) => pod'.endpoints # <<>>
<1>3. ASSUME PodLookup PROVE Typed /\ Run
  <2> DEFINE i == FirstIn(EndPoints, OfPod)
  <2>1. i # 0 => EndPoints[i] \in EndPoint
    BY <1>0, FirstFacts
  <2>2. <<>> \in Seq(EndPoint) /\ (i # 0 => <<EndPoints[i]>> \in Seq(EndPoint))
    BY <2>1
  <2> HIDE DEF i
  <2>3. /\ pod' = [pod EXCEPT !.pc = "containers", !.added = (i = 0),
                            !.endpoints = IF i = 0 THEN <<>> ELSE <<EndPoints[i]>>]
        /\ UNCHANGED <<Containers, EndPoints, Logger, Rules>> /\ pod.pc = "lookup"
    BY <1>3 DEF PodLookup, PodStep, i
  <2>4. Typed
    BY <1>0, <2>2, <2>3, Zenon DEF TypeOK, PodHandler
  <2> QED BY <1>0, <2>3, <2>4, Zenon DEF PodHandler
<1>4. ASSUME PodContainers PROVE Typed /\ Run
  <2>1. /\ pod.pc = "containers" /\ pod' = [pod EXCEPT !.pc = "policies"] /\ UNCHANGED <<EndPoints, Logger, Rules>>
        /\ Containers' = [c \in ContainerIDs |-> IF c \in DOMAIN pod.version.containers
                                                 THEN Containers[c] \cup {"pod"} ELSE Containers[c]]
    BY <1>4 DEF PodContainers, PodStep
  <2>2. Typed
    BY <1>0, <2>1, Zenon DEF TypeOK, PodHandler
  <2> QED BY <1>0, <2>1, <2>2 DEF PodHandler, PodRun
<1>5. ASSUME PodPolicies PROVE Typed /\ Run
  <2>1. GetSecurityPolicies(pod.name, IdentitiesOf(pod.name, pod.version)) \in Seq(Policies)
    BY <1>0, KeptFacts DEF GetSecurityPolicies, TypeOK
  <2>2. /\ pod.pc = "policies" /\ UNCHANGED <<Containers, EndPoints, Logger, Rules>>
        /\ pod' = [pod EXCEPT !.pc = "publish",
                    !.policies = GetSecurityPolicies(pod.name, IdentitiesOf(pod.name, pod.version))]
    BY <1>5 DEF PodPolicies, PodStep
  <2>3. Typed
    BY <1>0, <2>1, <2>2, Zenon DEF TypeOK, PodHandler
  <2> QED BY <1>0, <2>2, <2>3 DEF PodHandler, PodRun
<1>6. ASSUME PodPublish PROVE Typed /\ Run
  <2>1. PICK ids \in Orders(DOMAIN pod.version.containers) :
          LET new == [i \in DOMAIN ids |-> PodEndPoint(pod.name, pod.version, ids[i], pod.policies)]
          IN  /\ EndPoints' = EndPoints \o new
              /\ pod' = IF ids = <<>> THEN PodIdle ELSE [pod EXCEPT !.pc = "push", !.endpoints = new]
    BY <1>6, Zenon DEF PodPublish
  <2> DEFINE new == [i \in DOMAIN ids |-> PodEndPoint(pod.name, pod.version, ids[i], pod.policies)]
  <2>2. pod.pc = "publish" /\ UNCHANGED <<Containers, Logger, Rules>> /\ pod.policies \in Seq(Policies)
    BY <1>0, <1>6, Zenon DEF PodPublish, PodStep, PodHandler
  <2>3. new \in Seq(EndPoint) /\ (ids # <<>> => new # <<>>)
    BY <1>1, <1>2, <2>2, PublishType
  <2>4. EndPoints' = EndPoints \o new /\ pod' = IF ids = <<>> THEN PodIdle ELSE [pod EXCEPT !.pc = "push", !.endpoints = new]
    BY <2>1
  <2> HIDE DEF new
  <2>5. EndPoints' \in Seq(EndPoint)
    BY <1>0, <2>3, <2>4
  <2>6. CASE ids = <<>>
    BY <1>0, <2>2, <2>4, <2>5, <2>6, IdleFacts DEF TypeOK
  <2>7. CASE ids # <<>>
    BY <1>0, <2>2, <2>3, <2>4, <2>5, <2>7, Zenon DEF TypeOK, PodHandler
  <2> QED BY <2>6, <2>7
<1>7. ASSUME PodReplace PROVE Typed /\ Run
  <2>1. /\ pod.pc = "publish" /\ UNCHANGED <<Containers, Logger, Rules, EndPoints>> /\ pod.policies \in Seq(Policies)
        /\ ~pod.added
    BY <1>0, <1>7, Zenon DEF PodReplace, PodStep, PodHandler
  <2>2. CASE pod' = [pod EXCEPT !.pc = "push"]
    BY <1>0, <2>1, <2>2, Zenon DEF TypeOK, PodHandler, PodRun
  <2>3. ASSUME NEW id \in DOMAIN pod.version.containers,
               pod' = [pod EXCEPT !.pc = "push", !.endpoints = <<PodEndPoint(pod.name, pod.version, id, pod.policies)>>]
        PROVE  Typed /\ Run
    <3> DEFINE e == PodEndPoint(pod.name, pod.version, id, pod.policies)
    <3>1. e \in EndPoint
      BY <1>1, <1>2, <2>1, PodEndPointType
    <3> HIDE DEF e
    <3>2. pod' = [pod EXCEPT !.pc = "push", !.endpoints = <<e>>] /\ <<e>> \in Seq(EndPoint) /\ <<e>> # <<>>
      BY <2>3, <3>1 DEF e
    <3> QED BY <1>0, <2>1, <3>2, Zenon DEF TypeOK, PodHandler
  <2> QED BY <1>7, <2>2, <2>3, Zenon DEF PodReplace
<1>8. ASSUME PodPush PROVE Typed /\ Run
  <2>1. /\ pod.pc = "push" /\ pod.endpoints # <<>> /\ pod.endpoints \in Seq(EndPoint)
        /\ UNCHANGED <<Containers, EndPoints>>
    BY <1>0, <1>8 DEF PodPush, PodStep, PodRun, PodHandler
  <2> DEFINE e == Head(pod.endpoints)
  <2>2. e \in EndPoint /\ Tail(pod.endpoints) \in Seq(EndPoint) /\ (Len(pod.endpoints) # 1 => Tail(pod.endpoints) # <<>>)
    BY <2>1, HeadFacts
  <2> HIDE DEF e
  <2>3. /\ Logger' = [Logger EXCEPT ![pod.name] = ToSet(e.SecurityPolicies)]
        /\ Rules' = IF Enforceable(e) THEN Enforced(e) ELSE Rules
        /\ pod' = IF Len(pod.endpoints) = 1 THEN PodIdle ELSE [pod EXCEPT !.endpoints = Tail(@)]
    BY <1>8 DEF PodPush, e
  <2>4. Logger' \in [PodNames -> SUBSET Policies] /\ Rules' \in [ContainerIDs -> SUBSET Policies]
    BY <1>0, <1>1, <2>2, <2>3, PoliciesOf, EnforcedType DEF TypeOK
  <2>5. CASE Len(pod.endpoints) = 1
    BY <1>0, <2>1, <2>3, <2>4, <2>5, IdleFacts DEF TypeOK
  <2>6. CASE Len(pod.endpoints) # 1
    BY <1>0, <2>1, <2>2, <2>3, <2>4, <2>6, Zenon DEF TypeOK, PodHandler
  <2> QED BY <2>5, <2>6
<1>9. ASSUME PodRemove PROVE Typed /\ Run
  <2>1. Kept(EndPoints, ToSet(EndPoints) \ OfPod) \in Seq(EndPoint)
    BY <1>0, KeptFacts
  <2> QED BY <1>0, <1>9, <2>1, IdleFacts DEF PodRemove, TypeOK
<1>10. Typed /\ Run
  BY <1>3, <1>4, <1>5, <1>6, <1>7, <1>8, <1>9, Zenon
<1>11. TypeOK'
  BY <1>0, <1>1, <1>10, Zenon DEF TypeOK
<1>12. PodRun'
  <2>1. Run
    BY <1>10
  <2>2. pod'.pc # "idle" => \E v \in DOMAIN PodHistory[pod.name] : pod.version = PodHistory[pod.name][v]
    BY <1>0, <1>1, <2>1 DEF PodRun, PodHandler
  <2> QED BY <1>1, <2>1, <2>2 DEF PodRun
<1>13. Turns'
  BY <1>1, TurnsStay DEF Shape, Running
<1> QED BY <1>1, <1>11, <1>12, <1>13 DEF Shape, RuntimeRun

\* The policy informers.
LEMMA StoredType ==
  ASSUME Counting, TypeOK, NEW action \in Acts, NEW p \in Policies
  PROVE  Stored(action, p) \in Seq(Policies)
<1>1. SecurityPolicies \in Seq(Policies)
  BY DEF TypeOK
<1>2. Append(SecurityPolicies, p) \in Seq(Policies) /\ WithoutFirst(SecurityPolicies, SameAs(p)) \in Seq(Policies)
  BY <1>1, AppendFacts, WithoutFacts
<1>3. HoldsPolicy(p, SecurityPolicies) => WithFirst(SecurityPolicies, SameAs(p), p) \in Seq(Policies)
  BY <1>1, WithFacts DEF HoldsPolicy
<1> QED BY <1>1, <1>2, <1>3, Zenon DEF Stored, Acts

\* What an event of a policy informer does.
LEMMA EventFacts ==
  ASSUME NEW p \in Policies, PolicyAdded(p) \/ PolicyModified(p) \/ PolicyDeleted(p)
  PROVE  \E action \in Acts :
           /\ MayStart(p.type) /\ policyCache' \subseteq policyCache \cup {p}
           /\ PolicyEvent(action, p, policyCache')
<1>1. CASE PolicyAdded(p)
  BY <1>1 DEF PolicyAdded, PolicyEvent, Acts
<1>2. CASE PolicyModified(p)
  BY <1>2 DEF PolicyModified, PolicyEvent, Acts
<1>3. CASE PolicyDeleted(p)
  BY <1>3 DEF PolicyDeleted, PolicyEvent, Acts
<1> QED BY <1>1, <1>2, <1>3

LEMMA ShapePolicyStart ==
  ASSUME Counting, Shape, WellFormed, NEW p \in Policies,
         PolicyAdded(p) \/ PolicyModified(p) \/ PolicyDeleted(p) \/ NamespaceListFails(p)
  PROVE  Shape'
<1>0. TypeOK /\ p.type \in Types /\ p.type \in Handlers
  BY DEF Shape, WellFormed, Handlers
<1>1. ASSUME NamespaceListFails(p) PROVE Shape'
  <2>1. /\ policyCache' \subseteq Policies
        /\ UNCHANGED <<podCache, runtime, K8sPods, Containers, SecurityPolicies, EndPoints, Logger,
                       ContainerMap, Rules, pod, policy, crt, panicked>>
    BY <1>0, <1>1 DEF NamespaceListFails, enforcer, handlers, TypeOK
  <2>2. TypeOK'
    BY <1>0, <2>1 DEF TypeOK
  <2>3. Turns'
    BY <2>1, TurnsStay, Zenon DEF Shape, Running
  <2> QED BY <2>1, <2>2, <2>3 DEF Shape, PodRun, RuntimeRun
<1>2. ASSUME PolicyAdded(p) \/ PolicyModified(p) \/ PolicyDeleted(p) PROVE Shape'
  <2>1. PICK action \in Acts : /\ MayStart(p.type) /\ policyCache' \subseteq policyCache \cup {p}
                               /\ PolicyEvent(action, p, policyCache')
    BY <1>2, EventFacts
  <2> DEFINE h == [PolicyIdle EXCEPT !.pc = "length", !.action = action, !.object = p]
  <2>2. /\ SecurityPolicies' = Stored(action, p) /\ policy' = [policy EXCEPT ![p.type] = h]
        /\ UNCHANGED <<podCache, runtime, K8sPods, Containers, EndPoints, Logger, ContainerMap, Rules, pod, crt, panicked>>
    BY <2>1 DEF PolicyEvent, enforcer
  <2>3. h \in PolicyHandler /\ PolicyRun(h, p.type)
    BY Zenon DEF PolicyIdle, PolicyHandler, Acts, PolicyRun
  <2> HIDE DEF h
  <2>4. SecurityPolicies' \in Seq(Policies) /\ policyCache' \subseteq Policies
    BY <1>0, <2>1, <2>2, StoredType DEF TypeOK
  <2>5. policy' \in [Types -> PolicyHandler] /\ \A t \in Types : policy'[t] = IF t = p.type THEN h ELSE policy[t]
    BY <1>0, <2>2, <2>3 DEF TypeOK
  <2>6. TypeOK'
    BY <1>0, <2>2, <2>4, <2>5 DEF TypeOK
  <2>7. Turns'
    BY <1>0, <2>1, <2>2, <2>5, TurnsStart DEF Shape, Running
  <2>8. \A t \in Types : PolicyRun(policy'[t], t)
    BY <2>3, <2>5, Zenon DEF Shape
  <2> QED BY <2>2, <2>6, <2>7, <2>8, Zenon DEF Shape, PodRun, RuntimeRun
<1> QED BY <1>1, <1>2

LEMMA RunIndex ==
  ASSUME NEW t, NEW h, PolicyRun(h, t), h.length \in Nat, h.pc \in {"copy", "write", "log", "enforce"}
  PROVE  h.idx \in 1 .. h.length /\ h.idx \in 0 .. h.length
<1>1. h.idx \in 1 .. h.length
  BY Zenon DEF PolicyRun
<1> QED BY <1>1

LEMMA ShapePolicyStep ==
  ASSUME Counting, Shape, NEW t \in Types,
         PolicyLength(t) \/ PolicyCopy(t) \/ PolicyWrite(t) \/ PolicyLog(t) \/ PolicyEnforce(t) \/ PolicyPanic(t)
  PROVE  Shape'
<1> DEFINE h == policy[t]
<1>0. /\ TypeOK /\ h \in PolicyHandler /\ PolicyRun(h, t) /\ EndPoints \in Seq(EndPoint) /\ Len(EndPoints) \in Nat
      /\ h.length \in Nat /\ h.idx \in Nat
  BY DEF Shape, TypeOK, PolicyHandler
<1>1. UNCHANGED <<podCache, policyCache, runtime, K8sPods, Containers, SecurityPolicies, ContainerMap, pod, crt>> /\ h.pc # "idle"
  BY DEF PolicyLength, PolicyCopy, PolicyWrite, PolicyLog, PolicyEnforce, PolicyPanic, PolicyStep, cluster
<1>2. h.object \in Policies /\ h.object.type = t /\ h.action \in Acts
  BY <1>0, <1>1, Zenon DEF PolicyRun
<1>3. h.pc \in {"copy", "write", "log", "enforce"} => h.idx \in 1 .. h.length /\ h.idx \in 0 .. h.length
  BY <1>0, RunIndex, Zenon
<1>4. InRange(t) /\ h.pc \in {"copy", "write", "log", "enforce"} =>
        h.idx \in DOMAIN EndPoints /\ EndPoints[h.idx] \in EndPoint
  <2>1. InRange(t) /\ h.pc \in {"copy", "write", "log", "enforce"} => h.idx \in 1 .. Len(EndPoints)
    BY <1>0, <1>3 DEF InRange
  <2> HIDE DEF h
  <2> QED BY <1>0, <2>1
<1> DEFINE Typed == /\ EndPoints' \in Seq(EndPoint) /\ Logger' \in [PodNames -> SUBSET Policies]
                    /\ Rules' \in [ContainerIDs -> SUBSET Policies] /\ panicked' \in BOOLEAN
           Run(n) == n \in PolicyHandler /\ PolicyRun(n, t) /\ policy' = [policy EXCEPT ![t] = n]
<1>5. ASSUME PolicyLength(t) PROVE Typed /\ \E n : Run(n)
  <2> DEFINE g == [h EXCEPT !.length = Len(EndPoints)]
  <2>1. /\ policy' = [policy EXCEPT ![t] = NextIndex(g)] /\ h.pc = "length"
        /\ UNCHANGED <<EndPoints, Logger, Rules, panicked>>
    BY <1>5 DEF PolicyLength, PolicyStep
  <2>2. g \in PolicyHandler /\ g.object = h.object /\ g.action = h.action /\ g.idx = h.idx /\ g.length = Len(EndPoints)
    BY <1>0 DEF PolicyHandler
  <2>3. g.idx \in 0 .. g.length
    BY <1>0, <1>1, <2>1, <2>2 DEF PolicyRun
  <2> HIDE DEF g
  <2>4. Run(NextIndex(g))
    BY <1>2, <2>1, <2>2, <2>3, NextIndexFacts, Zenon
  <2> QED BY <1>0, <2>1, <2>4, Zenon DEF TypeOK
<1>6. ASSUME PolicyCopy(t) PROVE Typed /\ \E n : Run(n)
  <2> DEFINE e == EndPoints[h.idx]
             u == UpdatedPolicies(h.action, h.object, e)
             g == [h EXCEPT !.pc = "write", !.endPoint = [e EXCEPT !.SecurityPolicies = u]]
  <2>1. /\ policy' = [policy EXCEPT ![t] = IF Concerns(h.object, e) THEN g ELSE NextIndex(h)]
        /\ h.pc = "copy" /\ InRange(t) /\ UNCHANGED <<EndPoints, Logger, Rules, panicked>>
    BY <1>6 DEF PolicyCopy, PolicyStep
  <2>2. e \in EndPoint /\ h.idx \in 1 .. h.length
    BY <1>3, <1>4, <2>1, Zenon
  <2>3. u \in Seq(Policies)
    BY <1>2, <2>2, UpdatedType
  <2> HIDE DEF u, e
  <2>4. [e EXCEPT !.SecurityPolicies = u] \in EndPoint
    BY <2>2, <2>3 DEF EndPoint
  <2>5. g \in PolicyHandler /\ PolicyRun(g, t)
    <3>1. g \in PolicyHandler
      BY <1>0, <2>4, Zenon DEF PolicyHandler
    <3>2. /\ g.pc = "write" /\ g.object = h.object /\ g.action = h.action /\ g.idx = h.idx /\ g.length = h.length
          /\ g.endPoint = [e EXCEPT !.SecurityPolicies = u]
      BY <1>0 DEF PolicyHandler
    <3> HIDE DEF g
    <3> QED BY <1>2, <2>2, <2>4, <3>1, <3>2 DEF PolicyRun
  <2>6. NextIndex(h) \in PolicyHandler /\ PolicyRun(NextIndex(h), t)
    BY <1>0, <1>2, <1>3, <2>1, NextIndexFacts
  <2> HIDE DEF g, h
  <2>7. Run(g) \/ Run(NextIndex(h))
    BY <2>1, <2>5, <2>6, Zenon
  <2> QED BY <1>0, <2>1, <2>7, Zenon DEF TypeOK
<1>7. ASSUME PolicyWrite(t) PROVE Typed /\ \E n : Run(n)
  <2> DEFINE g == [h EXCEPT !.pc = "log"]
  <2>1. /\ h.pc = "write" /\ InRange(t) /\ UNCHANGED <<Logger, Rules, panicked>>
        /\ EndPoints' = [EndPoints EXCEPT ![h.idx] = h.endPoint] /\ policy' = [policy EXCEPT ![t].pc = "log"]
    BY <1>7 DEF PolicyWrite, PolicyStep
  <2>2. policy' = [policy EXCEPT ![t] = g]
    BY <2>1
  <2>3. g \in PolicyHandler /\ PolicyRun(g, t)
    BY <1>0, <2>1 DEF PolicyHandler, PolicyRun
  <2>4. EndPoints' \in Seq(EndPoint)
    <3>1. h.idx \in DOMAIN EndPoints /\ h.endPoint \in EndPoint
      BY <1>0, <1>4, <2>1 DEF PolicyRun
    <3> HIDE DEF h
    <3> QED BY <1>0, <2>1, <3>1
  <2>5. Run(g)
    BY <2>2, <2>3
  <2> QED BY <1>0, <2>1, <2>4, <2>5, Zenon DEF TypeOK
<1>8. ASSUME PolicyLog(t) PROVE Typed /\ \E n : Run(n)
  <2> DEFINE e == EndPoints[h.idx]
             g == [h EXCEPT !.pc = "enforce", !.torn = e]
  <2>1. /\ h.pc = "log" /\ InRange(t) /\ UNCHANGED <<EndPoints, Rules, panicked>>
        /\ Logger' = [Logger EXCEPT ![h.endPoint.EndPointName] = ToSet(h.endPoint.SecurityPolicies)]
        /\ policy' = [policy EXCEPT ![t] = IF Enforceable(e) THEN g ELSE NextIndex(h)]
    BY <1>8 DEF PolicyLog, PolicyStep
  <2>2. e \in EndPoint /\ h.idx \in 1 .. h.length /\ h.endPoint \in EndPoint
    BY <1>0, <1>3, <1>4, <2>1 DEF PolicyRun
  <2> HIDE DEF e
  <2>3. g \in PolicyHandler /\ PolicyRun(g, t)
    <3>1. g \in PolicyHandler
      BY <1>0, <2>2, Zenon DEF PolicyHandler
    <3>2. /\ g.pc = "enforce" /\ g.object = h.object /\ g.action = h.action /\ g.idx = h.idx /\ g.length = h.length
          /\ g.endPoint = h.endPoint /\ g.torn = e
      BY <1>0 DEF PolicyHandler
    <3> HIDE DEF g
    <3> QED BY <1>2, <2>2, <3>1, <3>2, Zenon DEF PolicyRun
  <2>4. NextIndex(h) \in PolicyHandler /\ PolicyRun(NextIndex(h), t)
    BY <1>0, <1>2, <1>3, <2>1, NextIndexFacts
  <2>5. Logger' \in [PodNames -> SUBSET Policies]
    BY <1>0, <2>1, <2>2, PoliciesOf DEF TypeOK
  <2> HIDE DEF g, h
  <2>6. Run(g) \/ Run(NextIndex(h))
    BY <2>1, <2>3, <2>4, Zenon
  <2> QED BY <1>0, <2>1, <2>5, <2>6, Zenon DEF TypeOK
<1>9. ASSUME PolicyEnforce(t) PROVE Typed /\ \E n : Run(n)
  <2> DEFINE e == EndPoints[h.idx]
             x == [h.torn EXCEPT !.SecurityPolicies = e.SecurityPolicies]
  <2>1. /\ h.pc = "enforce" /\ InRange(t) /\ UNCHANGED <<EndPoints, Logger, panicked>>
        /\ Rules' = Enforced(x) /\ policy' = [policy EXCEPT ![t] = NextIndex(h)]
    BY <1>9 DEF PolicyEnforce, PolicyStep
  <2>2. e.SecurityPolicies \in Seq(Policies) /\ h.torn \in EndPoint
    BY <1>0, <1>4, <2>1, PoliciesOf DEF PolicyRun
  <2> HIDE DEF e
  <2>3. x \in EndPoint
    BY <2>2 DEF EndPoint
  <2> HIDE DEF x
  <2>4. Rules' \in [ContainerIDs -> SUBSET Policies]
    BY <1>0, <2>1, <2>3, EnforcedType
  <2>5. NextIndex(h) \in PolicyHandler /\ PolicyRun(NextIndex(h), t)
    BY <1>0, <1>2, <1>3, <2>1, NextIndexFacts, Zenon
  <2>6. Run(NextIndex(h))
    BY <2>1, <2>5
  <2> QED BY <1>0, <2>1, <2>4, <2>6, Zenon DEF TypeOK
<1>10. ASSUME PolicyPanic(t) PROVE Typed /\ \E n : Run(n)
  <2>1. UNCHANGED <<policy, EndPoints, Logger, Rules>> /\ panicked' = TRUE
    BY <1>10 DEF PolicyPanic
  <2>2. Run(h)
    BY <1>0, <2>1 DEF TypeOK
  <2> QED BY <1>0, <2>1, <2>2, Zenon DEF TypeOK
<1>11. PICK n : Run(n)
  BY <1>5, <1>6, <1>7, <1>8, <1>9, <1>10
<1>12. Typed
  BY <1>5, <1>6, <1>7, <1>8, <1>9, <1>10
<1>13. policy' \in [Types -> PolicyHandler] /\ \A u \in Types : policy'[u] = IF u = t THEN n ELSE policy[u]
  BY <1>0, <1>11 DEF TypeOK
<1>14. TypeOK'
  BY <1>0, <1>1, <1>12, <1>13 DEF TypeOK
<1>15. \A u \in Types : PolicyRun(policy'[u], u)
  BY <1>11, <1>13, Zenon DEF Shape
<1>16. Turns'
  BY <1>1, <1>13, TurnsStay, Zenon DEF Shape, Running
<1> QED BY <1>1, <1>14, <1>15, <1>16, Zenon DEF Shape, PodRun, RuntimeRun

LEMMA ShapeRestart == Shape /\ Restart => Shape'
<1> SUFFICES ASSUME Shape, Restart PROVE Shape'
  OBVIOUS
<1>1. <<>> \in Seq(Policies) /\ <<>> \in Seq(EndPoint)
  OBVIOUS
<1>2. runtime' \in [ContainerIDs -> {"new", "running", "gone"}]
  BY DEF Restart, Shape, TypeOK
<1>3. TypeOK'
  BY <1>1, <1>2, IdleFacts, Zenon DEF Restart, TypeOK
<1>4. PodRun' /\ RuntimeRun' /\ \A t \in Types : policy'[t] = PolicyIdle
  BY IdleFacts DEF Restart, PodRun, RuntimeRun
<1>5. Turns'
  BY <1>4, IdleFacts, Zenon DEF Restart, Turns, Running
<1> QED BY <1>3, <1>4, <1>5, IdleFacts DEF Shape

\* The container runtime.
LEMMA ShapeRuntimeStart ==
  ASSUME Shape, NEW c \in ContainerIDs, ContainerStart(c) \/ ContainerDestroy(c)
  PROVE  Shape'
<1>0. TypeOK /\ "runtime" \in Handlers /\ crt \in RuntimeHandler
  BY DEF Shape, TypeOK, Handlers
<1>1. /\ UNCHANGED <<podCache, policyCache, K8sPods, SecurityPolicies, EndPoints, Logger, ContainerMap, Rules,
                      pod, policy, panicked>>
      /\ MayStart("runtime")
  BY DEF ContainerStart, ContainerDestroy, enforcer
<1>2. /\ runtime' \in [ContainerIDs -> {"new", "running", "gone"}]
      /\ Containers' \in [ContainerIDs -> SUBSET {"pod", "runtime"}]
  <2>1. CASE ContainerStart(c)
    <3>1. runtime' = [runtime EXCEPT ![c] = "running"] /\ Containers' = [Containers EXCEPT ![c] = @ \cup {"runtime"}]
      BY <2>1 DEF ContainerStart
    <3> QED BY <1>0, <3>1 DEF TypeOK
  <2>2. CASE ContainerDestroy(c)
    <3>1. runtime' = [runtime EXCEPT ![c] = "gone"] /\ Containers' = [Containers EXCEPT ![c] = {}]
      BY <2>2 DEF ContainerDestroy
    <3> QED BY <1>0, <3>1 DEF TypeOK
  <2> QED BY <2>1, <2>2
<1>3. crt' \in RuntimeHandler /\ crt'.pc # "push" /\ (crt'.pc # "idle" => crt'.id \in ContainerIDs)
  <2>1. CASE ContainerStart(c)
    BY <2>1, Zenon DEF ContainerStart, RuntimeIdle, RuntimeHandler
  <2>2. CASE ContainerDestroy(c)
    <3>1. crt.pc = "idle"
      BY <1>0, <1>1, StartFacts DEF Running
    <3>2. CASE crt' = crt
      BY <1>0, <3>1, <3>2
    <3>3. CASE crt' = [RuntimeIdle EXCEPT !.pc = "unregister", !.id = c]
      BY <3>3, Zenon DEF RuntimeIdle, RuntimeHandler
    <3> QED BY <2>2, <3>2, <3>3 DEF ContainerDestroy
  <2> QED BY <2>1, <2>2
<1>4. TypeOK'
  BY <1>0, <1>1, <1>2, <1>3 DEF TypeOK
<1>5. Turns'
  BY <1>0, <1>1, TurnsStart, Zenon DEF Shape, Running
<1> QED BY <1>1, <1>3, <1>4, <1>5 DEF Shape, PodRun, RuntimeRun

LEMMA ShapeRuntimeStep ==
  ASSUME Counting, Shape, ContainerLookup \/ ContainerRegister \/ ContainerPush \/ ContainerUnregister
  PROVE  Shape'
<1>0. TypeOK /\ RuntimeRun /\ crt \in RuntimeHandler /\ EndPoints \in Seq(EndPoint)
  BY DEF Shape, TypeOK
<1>1. /\ UNCHANGED <<podCache, policyCache, runtime, K8sPods, Containers, SecurityPolicies, EndPoints, pod, policy, panicked>>
      /\ crt.pc # "idle" /\ crt.id \in ContainerIDs
  BY <1>0 DEF ContainerLookup, ContainerRegister, ContainerPush, ContainerUnregister, RuntimeStep, cluster, RuntimeRun
<1> DEFINE Typed == /\ Logger' \in [PodNames -> SUBSET Policies] /\ ContainerMap' \subseteq ContainerIDs
                    /\ Rules' \in [ContainerIDs -> SUBSET Policies] /\ crt' \in RuntimeHandler
           Run == /\ crt'.pc # "idle" => crt'.id = crt.id
                  /\ crt'.pc = "push" => crt'.endPoint \in EndPoint
<1>2. ASSUME ContainerLookup PROVE Typed /\ Run
  <2> DEFINE i == FirstIn(EndPoints, {e \in ToSet(EndPoints) : e.ContainerID = crt.id})
             x == IF i = 0 \/ Shadowed THEN NoEndPoint ELSE EndPoints[i]
  <2>1. i # 0 => EndPoints[i] \in EndPoint
    BY <1>0, FirstFacts
  <2>2. x \in EndPoint \cup {NoEndPoint}
    BY <2>1
  <2>3. crt' = [crt EXCEPT !.pc = "register", !.endPoint = x] /\ UNCHANGED <<Logger, ContainerMap, Rules>>
    BY <1>2 DEF ContainerLookup, enforcer
  <2> HIDE DEF x
  <2> QED BY <1>0, <2>2, <2>3, Zenon DEF TypeOK, RuntimeHandler
<1>3. ASSUME ContainerRegister PROVE Typed /\ Run
  <2>1. /\ ContainerMap' = ContainerMap \cup {crt.id} /\ Rules' = [Rules EXCEPT ![crt.id] = {}] /\ UNCHANGED Logger
        /\ crt' = IF crt.endPoint = NoEndPoint THEN RuntimeIdle ELSE [crt EXCEPT !.pc = "push"]
    BY <1>3 DEF ContainerRegister
  <2>2. CASE crt.endPoint = NoEndPoint
    BY <1>0, <1>1, <2>1, <2>2, IdleFacts DEF TypeOK
  <2>3. CASE crt.endPoint # NoEndPoint
    BY <1>0, <1>1, <2>1, <2>3, Zenon DEF TypeOK, RuntimeHandler
  <2> QED BY <2>2, <2>3
<1>4. ASSUME ContainerPush PROVE Typed /\ Run
  <2>1. crt.endPoint \in EndPoint /\ crt' = RuntimeIdle /\ UNCHANGED ContainerMap
    BY <1>0, <1>4, Zenon DEF ContainerPush, RuntimeStep, RuntimeRun
  <2>2. Logger' \in [PodNames -> SUBSET Policies] /\ Rules' \in [ContainerIDs -> SUBSET Policies]
    <3>1. /\ \/ Logger' = Logger
             \/ Logger' = [Logger EXCEPT ![crt.endPoint.EndPointName] = ToSet(crt.endPoint.SecurityPolicies)]
          /\ Rules' \in {Rules, Enforced(crt.endPoint)}
      BY <1>4 DEF ContainerPush
    <3>2. crt.endPoint.EndPointName \in PodNames /\ ToSet(crt.endPoint.SecurityPolicies) \subseteq Policies
      BY <2>1, PoliciesOf, Zenon
    <3>3. Enforced(crt.endPoint) \in [ContainerIDs -> SUBSET Policies]
      BY <1>0, <2>1, EnforcedType, Zenon
    <3>4. Logger \in [PodNames -> SUBSET Policies] /\ Rules \in [ContainerIDs -> SUBSET Policies]
      BY <1>0, Zenon DEF TypeOK
    <3>5. Rules' \in [ContainerIDs -> SUBSET Policies]
      BY <3>1, <3>3, <3>4, Zenon
    <3> QED BY <3>1, <3>2, <3>4, <3>5
  <2> QED BY <1>0, <2>1, <2>2, IdleFacts, Zenon DEF TypeOK
<1>5. ASSUME ContainerUnregister PROVE Typed /\ Run
  BY <1>0, <1>1, <1>5, IdleFacts DEF ContainerUnregister, TypeOK
<1>6. Typed /\ Run
  BY <1>2, <1>3, <1>4, <1>5
<1>7. TypeOK'
  BY <1>0, <1>1, <1>6 DEF TypeOK
<1>8. Turns'
  BY <1>1, TurnsStay DEF Shape, Running
<1> QED BY <1>1, <1>6, <1>7, <1>8, Zenon DEF Shape, PodRun, RuntimeRun

LEMMA ShapeStutter == Shape /\ UNCHANGED vars => Shape'
<1> SUFFICES ASSUME Shape, UNCHANGED vars PROVE Shape'
  OBVIOUS
<1> USE DEF vars, cluster, enforcer, handlers
<1>1. TypeOK'
  BY DEF Shape, TypeOK
<1>2. PodRun' /\ RuntimeRun' /\ \A t \in Types : PolicyRun(policy'[t], t)
  BY Zenon DEF Shape, PodRun, RuntimeRun
<1>3. Turns'
  BY TurnsStay DEF Shape, Running
<1> QED BY <1>1, <1>2, <1>3 DEF Shape

LEMMA ShapeNext == Counting /\ WellFormed /\ Shape /\ [Next]_vars => Shape'
BY ShapePodStart, ShapePodStep, ShapePolicyStart, ShapePolicyStep, ShapeRestart, ShapeRuntimeStart, ShapeRuntimeStep,
   ShapeStutter DEF Next

\* Every variable keeps its type, and no two handlers run together but those that may overlap.
LEMMA ShapeAlways == ASSUME Counting, WellFormed PROVE Spec => []Shape
BY ShapeInit, ShapeNext, PTL DEF Spec
-----------------------------------------------------------------------------
(* The stored policies.  Only an event of a policy informer and a restart change them. *)

LEMMA StoreSteps ==
  ASSUME [Next]_vars
  PROVE  \/ UNCHANGED <<policyCache, SecurityPolicies>>
         \/ policyCache' = {} /\ SecurityPolicies' = <<>>
         \/ \E p \in Policies : NamespaceListFails(p)
         \/ \E p \in Policies : PolicyAdded(p) \/ PolicyModified(p) \/ PolicyDeleted(p)
<1>1. CASE \E p \in PodNames : PodAdded(p) \/ PodModified(p) \/ PodDeleted(p) \/ PodTombstone(p)
  BY <1>1, Zenon DEF PodAdded, PodModified, PodDeleted, PodTombstone
<1>2. CASE PodLookup \/ PodContainers \/ PodPolicies \/ PodPublish \/ PodReplace \/ PodPush \/ PodRemove
  BY <1>2, Zenon DEF PodLookup, PodContainers, PodPolicies, PodPublish, PodReplace, PodPush, PodRemove, PodStep, cluster
<1>3. CASE \E t \in Types : \/ PolicyLength(t) \/ PolicyCopy(t) \/ PolicyWrite(t) \/ PolicyLog(t)
                            \/ PolicyEnforce(t) \/ PolicyPanic(t)
  BY <1>3 DEF PolicyLength, PolicyCopy, PolicyWrite, PolicyLog, PolicyEnforce, PolicyPanic, PolicyStep, cluster
<1>4. CASE Restart
  BY <1>4 DEF Restart
<1>5. CASE \E c \in ContainerIDs : ContainerStart(c) \/ ContainerDestroy(c)
  BY <1>5 DEF ContainerStart, ContainerDestroy
<1>6. CASE ContainerLookup \/ ContainerRegister \/ ContainerPush \/ ContainerUnregister
  BY <1>6 DEF ContainerLookup, ContainerRegister, ContainerPush, ContainerUnregister, RuntimeStep, cluster
<1>7. CASE UNCHANGED vars
  BY <1>7 DEF vars, cluster
<1> QED BY <1>1, <1>2, <1>3, <1>4, <1>5, <1>6, <1>7 DEF Next

\* A policy of which no other version may come later in the list.  A cluster policy matches
\* every policy of its name, so it comes before the ones of a namespace or not at all.
Clash(p, q) ==
  \/ q.type = "CSP" /\ p.policyName = q.policyName
  \/ p.type = "KSP" /\ q.type = "KSP" /\ p.policyName = q.policyName /\ p.namespaceName = q.namespaceName

Ordered(s) == \A i, j \in 1 .. Len(s) : i < j => ~Clash(s[i], s[j])

LEMMA OrderedWithin ==
  ASSUME NEW r, NEW s, Ordered(s), Within(r, s)
  PROVE  Ordered(r)
BY DEF Ordered, Within

LEMMA OrderedStored ==
  ASSUME Counting, WellFormed, KindsApart, NEW s \in Seq(Policies), Ordered(s), NEW p \in Policies
  PROVE  /\ ~HoldsPolicy(p, s) => Ordered(Append(s, p))
         /\ HoldsPolicy(p, s) => Ordered(WithFirst(s, SameAs(p), p))
         /\ Ordered(WithoutFirst(s, SameAs(p)))
<1>0. Len(s) \in Nat /\ \A i \in 1 .. Len(s) : s[i] \in Policies /\ s[i] \in ToSet(s)
  BY ToSetFacts
<1>1. ASSUME ~HoldsPolicy(p, s) PROVE Ordered(Append(s, p))
  <2> DEFINE r == Append(s, p)
  <2>1. Len(r) = Len(s) + 1 /\ \A i \in 1 .. Len(s) + 1 : r[i] = IF i = Len(s) + 1 THEN p ELSE s[i]
    BY AppendFacts
  <2>2. \A i \in 1 .. Len(s) : ~Clash(s[i], p)
    BY <1>0, <1>1 DEF HoldsPolicy, SameAs, SamePolicy, Clash
  <2> HIDE DEF r
  <2>3. \A i, j \in 1 .. Len(r) : i < j => ~Clash(r[i], r[j])
    <3> SUFFICES ASSUME NEW i \in 1 .. Len(r), NEW j \in 1 .. Len(r), i < j PROVE ~Clash(r[i], r[j])
      OBVIOUS
    <3>1. i \in 1 .. Len(s) /\ r[i] = s[i] /\ (j = Len(s) + 1 \/ j \in 1 .. Len(s))
      BY <1>0, <2>1
    <3>2. CASE j = Len(s) + 1
      BY <1>0, <2>1, <2>2, <3>1, <3>2, Zenon
    <3>3. CASE j \in 1 .. Len(s) /\ j # Len(s) + 1
      <4>1. r[j] = s[j]
        BY <2>1, <3>3, Zenon
      <4> QED BY <3>1, <3>3, <4>1 DEF Ordered
    <3> QED BY <1>0, <3>1, <3>2, <3>3
  <2> QED BY <2>3 DEF Ordered, r
<1>2. ASSUME HoldsPolicy(p, s) PROVE Ordered(WithFirst(s, SameAs(p), p))
  <2> DEFINE r == WithFirst(s, SameAs(p), p)
             k == FirstIn(s, SameAs(p))
  <2>1. /\ Len(r) = Len(s) /\ k \in 1 .. Len(s) /\ s[k] \in SameAs(p)
        /\ \A j \in 1 .. Len(s) : r[j] = IF j = k THEN p ELSE s[j]
        /\ \A j \in 1 .. Len(s) : s[j] \in SameAs(p) => k <= j
    BY <1>2, WithFacts DEF HoldsPolicy
  <2> HIDE DEF r, k
  <2>2. ASSUME NEW j \in 1 .. Len(s), j < k PROVE ~Clash(s[j], p)
    <3>1. s[j] \notin SameAs(p) /\ s[j] \in Policies
      BY <1>0, <2>1, <2>2
    <3> QED BY <3>1, Zenon DEF SameAs, SamePolicy, Clash
  <2>3. ASSUME NEW j \in 1 .. Len(s), k < j PROVE ~Clash(p, s[j])
    <3>1. ~Clash(s[k], s[j])
      BY <2>1, <2>3, Zenon DEF Ordered
    <3>2. SamePolicy(p, s[k]) /\ s[k] \in Policies /\ s[k].type \in Types /\ p.type \in Types
      BY <1>0, <2>1 DEF SameAs, WellFormed
    <3>3. p.type = "KSP" => s[k].type = "KSP"
      BY <3>2 DEF SamePolicy, KindsApart, Types
    <3> QED BY <3>1, <3>2, <3>3 DEF SamePolicy, Clash
  <2>4. \A i, j \in 1 .. Len(r) : i < j => ~Clash(r[i], r[j])
    <3> SUFFICES ASSUME NEW i \in 1 .. Len(s), NEW j \in 1 .. Len(s), i < j PROVE ~Clash(r[i], r[j])
      BY <2>1
    <3>1. CASE i = k
      BY <1>0, <2>1, <2>3, <3>1
    <3>2. CASE j = k
      BY <1>0, <2>1, <2>2, <3>2
    <3>3. CASE i # k /\ j # k
      BY <2>1, <3>3 DEF Ordered
    <3> QED BY <3>1, <3>2, <3>3, Zenon
  <2> QED BY <2>4, Zenon DEF Ordered, r
<1>3. Ordered(WithoutFirst(s, SameAs(p)))
  BY WithoutFacts, OrderedWithin
<1> QED BY <1>1, <1>2, <1>3

LEMMA StoredCases ==
  ASSUME NEW p \in Policies, PolicyAdded(p) \/ PolicyModified(p) \/ PolicyDeleted(p)
  PROVE  \/ SecurityPolicies' = SecurityPolicies
         \/ ~HoldsPolicy(p, SecurityPolicies) /\ SecurityPolicies' = Append(SecurityPolicies, p)
         \/ HoldsPolicy(p, SecurityPolicies) /\ SecurityPolicies' = WithFirst(SecurityPolicies, SameAs(p), p)
         \/ SecurityPolicies' = WithoutFirst(SecurityPolicies, SameAs(p))
<1>1. \E action \in Acts : SecurityPolicies' = Stored(action, p)
  BY EventFacts, Zenon DEF PolicyEvent
<1> QED BY <1>1, Zenon DEF Stored, Acts

LEMMA OrderedAlways ==
  ASSUME Counting, WellFormed, KindsApart
  PROVE  Spec => [](Shape /\ Ordered(SecurityPolicies))
<1>1. Init => Ordered(SecurityPolicies)
  BY DEF Init, Ordered
<1>2. ASSUME Shape, Ordered(SecurityPolicies), [Next]_vars PROVE Ordered(SecurityPolicies)'
  <2>0. SecurityPolicies \in Seq(Policies)
    BY <1>2 DEF Shape, TypeOK
  <2>1. CASE UNCHANGED SecurityPolicies
    BY <1>2, <2>1 DEF Ordered
  <2>2. CASE SecurityPolicies' = <<>>
    BY <2>2 DEF Ordered
  <2>3. ASSUME NEW p \in Policies, PolicyAdded(p) \/ PolicyModified(p) \/ PolicyDeleted(p)
        PROVE  Ordered(SecurityPolicies')
    BY <1>2, <2>0, <2>3, StoredCases, OrderedStored, Zenon
  <2>4. CASE \E p \in Policies : NamespaceListFails(p)
    BY <2>1, <2>4 DEF NamespaceListFails
  <2>5. Ordered(SecurityPolicies)' <=> Ordered(SecurityPolicies')
    BY DEF Ordered
  <2> QED BY <1>2, <2>1, <2>2, <2>3, <2>4, <2>5, StoreSteps
<1> QED BY <1>1, <1>2, ShapeInit, ShapeNext, PTL DEF Spec

\* A policy stands for its name: the policies that SamePolicy takes for versions of one are.
LEMMA SameFacts ==
  ASSUME WellFormed, NamesApart, NEW p \in Policies
  PROVE  /\ \A q, r \in SameAs(p) : SamePolicy(q, r)
         /\ p \in SameAs(p) /\ SameAs(p) \subseteq Policies
         /\ \A S \in SUBSET Policies : S = policyCache => Delivered(p) = S \cap SameAs(p)
<1>1. \A q \in Policies : q \in SameAs(p) <=> q.type = p.type /\ q.policyName = p.policyName /\ q.namespaceName = p.namespaceName
  BY DEF SameAs, SamePolicy, NamesApart
<1>2. \A q, r \in SameAs(p) : SamePolicy(q, r)
  BY <1>1 DEF SameAs, SamePolicy
<1>3. \A S \in SUBSET Policies : S = policyCache => Delivered(p) = S \cap SameAs(p)
  BY <1>1, Zenon DEF Delivered, SameAs
<1> QED BY <1>1, <1>2, <1>3 DEF SameAs

\* The list has the members of a set, and no two versions of a policy.
Stores(s, S) == ToSet(s) = S /\ \A i, j \in 1 .. Len(s) : SamePolicy(s[i], s[j]) => i = j

LEMMA StoresNext ==
  ASSUME Counting, WellFormed, NamesApart, NEW p \in Policies, NEW s \in Seq(Policies), NEW S \in SUBSET Policies, Stores(s, S)
  PROVE  /\ S \cap SameAs(p) = {} => Stores(Append(s, p), S \cup {p})
         /\ S \cap SameAs(p) # {} => Stores(WithFirst(s, SameAs(p), p), (S \ SameAs(p)) \cup {p})
         /\ Stores(WithoutFirst(s, SameAs(p)), S \ SameAs(p))
         /\ p \in S => S \cap SameAs(p) = {p}
<1>0. /\ Len(s) \in Nat /\ DOMAIN s = 1 .. Len(s)
      /\ \A i \in 1 .. Len(s) : s[i] \in Policies /\ s[i] \in S
      /\ \A x \in S : \E i \in 1 .. Len(s) : s[i] = x
  BY ToSetFacts DEF Stores
<1>1. \A i, j \in 1 .. Len(s) : SamePolicy(s[i], s[j]) => i = j
  BY DEF Stores
<1>2. Once(s, SameAs(p))
  BY <1>0, <1>1, SameFacts DEF Once
<1>3. ASSUME S \cap SameAs(p) = {} PROVE Stores(Append(s, p), S \cup {p})
  <2> DEFINE r == Append(s, p)
  <2>1. /\ Len(r) = Len(s) + 1 /\ \A i \in 1 .. Len(s) + 1 : r[i] = IF i = Len(s) + 1 THEN p ELSE s[i]
        /\ ToSet(r) = ToSet(s) \cup {p}
    BY AppendFacts
  <2>2. \A i \in 1 .. Len(s) : ~SamePolicy(s[i], p) /\ ~SamePolicy(p, s[i])
    <3> SUFFICES ASSUME NEW i \in 1 .. Len(s) PROVE ~SamePolicy(s[i], p) /\ ~SamePolicy(p, s[i])
      OBVIOUS
    <3>1. s[i] \in Policies /\ ~SamePolicy(p, s[i])
      BY <1>0, <1>3, Zenon DEF SameAs
    <3>2. SamePolicy(s[i], p) => SamePolicy(p, s[i])
      BY <3>1 DEF NamesApart, SamePolicy
    <3> QED BY <3>1, <3>2, Zenon
  <2> HIDE DEF r
  <2>3. \A i, j \in 1 .. Len(r) : SamePolicy(r[i], r[j]) => i = j
    <3> SUFFICES ASSUME NEW i \in 1 .. Len(r), NEW j \in 1 .. Len(r), i # j PROVE ~SamePolicy(r[i], r[j])
      OBVIOUS
    <3>1. (i = Len(s) + 1 \/ i \in 1 .. Len(s)) /\ (j = Len(s) + 1 \/ j \in 1 .. Len(s))
      BY <1>0, <2>1
    <3>2. CASE i = Len(s) + 1
      BY <1>0, <2>1, <2>2, <3>1, <3>2
    <3>3. CASE j = Len(s) + 1
      BY <1>0, <2>1, <2>2, <3>1, <3>3
    <3>4. CASE i # Len(s) + 1 /\ j # Len(s) + 1
      BY <1>1, <2>1, <3>1, <3>4, Zenon
    <3> QED BY <3>2, <3>3, <3>4
  <2> QED BY <2>1, <2>3, Zenon DEF Stores, r
<1>4. ASSUME S \cap SameAs(p) # {} PROVE Stores(WithFirst(s, SameAs(p), p), (S \ SameAs(p)) \cup {p})
  <2> DEFINE r == WithFirst(s, SameAs(p), p)
             k == FirstIn(s, SameAs(p))
  <2>1. /\ Len(r) = Len(s) /\ k \in 1 .. Len(s) /\ s[k] \in SameAs(p)
        /\ \A j \in 1 .. Len(s) : r[j] = IF j = k THEN p ELSE s[j]
        /\ ToSet(r) = (ToSet(s) \ SameAs(p)) \cup {p}
    BY <1>2, <1>4, WithFacts DEF Stores
  <2> HIDE DEF r, k
  <2>2. \A j \in 1 .. Len(s) : j # k => ~SamePolicy(p, s[j]) /\ ~SamePolicy(s[j], p)
    <3> SUFFICES ASSUME NEW j \in 1 .. Len(s), j # k PROVE ~SamePolicy(p, s[j]) /\ ~SamePolicy(s[j], p)
      OBVIOUS
    <3>1. s[j] \in Policies /\ s[j] \notin SameAs(p)
      BY <1>0, <1>2, <2>1, Zenon DEF Once
    <3>2. SamePolicy(s[j], p) => SamePolicy(p, s[j])
      BY <3>1, Zenon DEF NamesApart, SamePolicy
    <3> QED BY <3>1, <3>2, Zenon DEF SameAs
  <2>3. \A i, j \in 1 .. Len(r) : SamePolicy(r[i], r[j]) => i = j
    BY <1>1, <2>1, <2>2
  <2> QED BY <2>1, <2>3, Zenon DEF Stores, r
<1>5. Stores(WithoutFirst(s, SameAs(p)), S \ SameAs(p))
  <2> DEFINE r == WithoutFirst(s, SameAs(p))
  <2>1. Within(r, s) /\ ToSet(r) = ToSet(s) \ SameAs(p)
    BY <1>2, WithoutFacts
  <2> HIDE DEF r
  <2>2. PICK f \in [1 .. Len(r) -> 1 .. Len(s)] :
          /\ \A k, l \in 1 .. Len(r) : k < l => f[k] < f[l]
          /\ \A k \in 1 .. Len(r) : r[k] = s[f[k]]
    BY <2>1 DEF Within
  <2>3. \A i, j \in 1 .. Len(r) : SamePolicy(r[i], r[j]) => i = j
    <3> SUFFICES ASSUME NEW i \in 1 .. Len(r), NEW j \in 1 .. Len(r), SamePolicy(r[i], r[j]) PROVE i = j
      OBVIOUS
    <3>1. f[i] = f[j] /\ f[i] \in 1 .. Len(s)
      BY <1>1, <2>2
    <3>2. ~(i < j) /\ ~(j < i)
      BY <1>0, <2>2, <3>1
    <3> QED BY <3>2
  <2> QED BY <2>1, <2>3 DEF Stores, r
<1>6. ASSUME p \in S PROVE S \cap SameAs(p) = {p}
  <2>1. \A x, y \in S : SamePolicy(x, y) => x = y
    BY <1>0, <1>1
  <2> QED BY <1>6, <2>1, SameFacts DEF SameAs
<1> QED BY <1>3, <1>4, <1>5, <1>6

LEMMA StoresAlways ==
  ASSUME Counting, WellFormed, NamesApart
  PROVE  Spec => [](Shape /\ Stores(SecurityPolicies, policyCache))
<1>1. Init => Stores(SecurityPolicies, policyCache)
  <2>1. Stores(<<>>, {})
    BY DEF Stores, ToSet
  <2> QED BY <2>1 DEF Init
<1>2. ASSUME Shape, Stores(SecurityPolicies, policyCache), [Next]_vars
      PROVE  Stores(SecurityPolicies', policyCache')
  <2>0. SecurityPolicies \in Seq(Policies) /\ policyCache \in SUBSET Policies
    BY <1>2 DEF Shape, TypeOK
  <2>1. CASE UNCHANGED <<policyCache, SecurityPolicies>>
    BY <1>2, <2>1
  <2>2. CASE policyCache' = {} /\ SecurityPolicies' = <<>>
    BY <2>2 DEF Stores, ToSet
  <2>3. ASSUME NEW p \in Policies, PolicyAdded(p) \/ PolicyModified(p) \/ PolicyDeleted(p)
        PROVE  Stores(SecurityPolicies', policyCache')
    <3>0. ToSet(SecurityPolicies) = policyCache /\ Delivered(p) = policyCache \cap SameAs(p)
      BY <1>2, <2>0, SameFacts DEF Stores
    <3>1. HoldsPolicy(p, SecurityPolicies) <=> Delivered(p) # {}
      BY <3>0 DEF HoldsPolicy
    <3>2. CASE PolicyAdded(p)
      <4>1. Delivered(p) = {} /\ policyCache' = policyCache \cup {p} /\ SecurityPolicies' = Stored("ADDED", p)
        BY <3>2 DEF PolicyAdded, PolicyEvent
      <4>2. SecurityPolicies' = Append(SecurityPolicies, p)
        BY <3>1, <4>1, Zenon DEF Stored
      <4>3. policyCache \cap SameAs(p) = {}
        BY <3>0, <4>1
      <4>4. Stores(Append(SecurityPolicies, p), policyCache \cup {p})
        BY <1>2, <2>0, <4>3, StoresNext, Zenon
      <4> QED BY <4>1, <4>2, <4>4, Zenon
    <3>3. CASE PolicyModified(p)
      <4>1. /\ Delivered(p) # {} /\ policyCache' = (policyCache \ Delivered(p)) \cup {p}
            /\ SecurityPolicies' = Stored("MODIFIED", p)
        BY <3>3 DEF PolicyModified, PolicyEvent
      <4>2. SecurityPolicies' = WithFirst(SecurityPolicies, SameAs(p), p)
        BY <3>1, <4>1, Zenon DEF Stored
      <4>3. policyCache' = (policyCache \ SameAs(p)) \cup {p}
        BY <3>0, <4>1
      <4>4. policyCache \cap SameAs(p) # {}
        BY <3>0, <4>1
      <4>5. Stores(WithFirst(SecurityPolicies, SameAs(p), p), (policyCache \ SameAs(p)) \cup {p})
        BY <1>2, <2>0, <4>4, StoresNext, Zenon
      <4> QED BY <4>2, <4>3, <4>5
    <3>4. CASE PolicyDeleted(p)
      <4>1. p \in policyCache /\ policyCache' = policyCache \ {p} /\ SecurityPolicies' = Stored("DELETED", p)
        BY <3>4 DEF PolicyDeleted, PolicyEvent
      <4>2. SecurityPolicies' = WithoutFirst(SecurityPolicies, SameAs(p))
        BY <4>1, Zenon DEF Stored
      <4>3. policyCache' = policyCache \ SameAs(p)
        BY <1>2, <2>0, <4>1, StoresNext, Zenon
      <4> QED BY <1>2, <2>0, <4>2, <4>3, StoresNext, Zenon
    <3> QED BY <2>3, <3>2, <3>3, <3>4
  <2>4. ~\E p \in Policies : NamespaceListFails(p)
    BY DEF NamespaceListFails, NamesApart
  <2> QED BY <1>2, <2>1, <2>2, <2>3, <2>4, StoreSteps
<1>3. Stores(SecurityPolicies, policyCache)' <=> Stores(SecurityPolicies', policyCache')
  BY Zenon DEF Stores
<1> QED BY <1>1, <1>2, <1>3, ShapeInit, ShapeNext, PTL DEF Spec

-----------------------------------------------------------------------------
(* Endpoints and the pods they are made of. *)

\* Endpoint e is what UpdateEndPointWithPod makes of version v of its pod.
Made(e, v) ==
  /\ e.ContainerID \in DOMAIN v.containers /\ e.ContainerName = v.containers[e.ContainerID]
  /\ e.Identities = IdentitiesOf(e.EndPointName, v)
  /\ e.PolicyEnabled = PolicyEnabled(e.EndPointName, v)

Fits(e) == \E k \in DOMAIN PodHistory[e.EndPointName] : Made(e, PodHistory[e.EndPointName][k])

\* The endpoints differ in their policies only.
Alike(e, f) ==
  /\ e.EndPointName = f.EndPointName /\ e.Identities = f.Identities /\ e.ContainerName = f.ContainerName
  /\ e.ContainerID = f.ContainerID /\ e.PolicyEnabled = f.PolicyEnabled

Have(s, p) == \E i \in 1 .. Len(s) : s[i].EndPointName = p

\* Each endpoint is made of a version of its pod, no two are of one container, and a pod
\* that has one has one for each of its containers.
Sound(s) ==
  /\ \A i \in 1 .. Len(s) : Fits(s[i])
  /\ \A i, j \in 1 .. Len(s) : s[i].ContainerID = s[j].ContainerID => i = j
  /\ \A p \in PodNames : Have(s, p) =>
       \A id \in Owned(p) : \E i \in 1 .. Len(s) : s[i].ContainerID = id /\ s[i].EndPointName = p

LEMMA VersionFacts ==
  ASSUME PodsSteady, NEW p \in PodNames, NEW j \in DOMAIN PodHistory[p], NEW k \in DOMAIN PodHistory[p]
  PROVE  LET v == PodHistory[p][j]
             w == PodHistory[p][k]
         IN  /\ IdentitiesOf(p, v) = IdentitiesOf(p, w) /\ PolicyEnabled(p, v) = PolicyEnabled(p, w)
             /\ DOMAIN v.containers \subseteq Owned(p)
             /\ \A id \in DOMAIN v.containers : id \in DOMAIN w.containers => v.containers[id] = w.containers[id]
             /\ DOMAIN v.containers # {} /\ DOMAIN w.containers # {} => DOMAIN v.containers = DOMAIN w.containers
<1> DEFINE v == PodHistory[p][j]
           w == PodHistory[p][k]
<1>1. /\ v.labels = w.labels /\ v.annotation = w.annotation
      /\ DOMAIN v.containers = {} \/ DOMAIN w.containers = {} \/ v.containers = w.containers
  BY Zenon DEF PodsSteady
<1>2. DOMAIN v.containers \subseteq Owned(p)
  BY DEF Owned
<1> HIDE DEF v, w
<1>3. IdentitiesOf(p, v) = IdentitiesOf(p, w)
  BY <1>1 DEF IdentitiesOf
<1>4. PolicyEnabled(p, v) = PolicyEnabled(p, w)
  BY <1>1, Zenon DEF PolicyEnabled
<1>5. /\ \A id \in DOMAIN v.containers : id \in DOMAIN w.containers => v.containers[id] = w.containers[id]
      /\ DOMAIN v.containers # {} /\ DOMAIN w.containers # {} => DOMAIN v.containers = DOMAIN w.containers
  BY <1>1, Zenon
<1> QED BY <1>2, <1>3, <1>4, <1>5 DEF v, w

LEMMA OwnedFacts ==
  ASSUME PodsSteady, NEW p \in PodNames, NEW k \in DOMAIN PodHistory[p], NEW x \in DOMAIN PodHistory[p][k].containers
  PROVE  Owned(p) = DOMAIN PodHistory[p][k].containers
<1>1. ASSUME NEW y \in Owned(p) PROVE y \in DOMAIN PodHistory[p][k].containers
  <2>1. PICK j \in DOMAIN PodHistory[p] : y \in DOMAIN PodHistory[p][j].containers
    BY <1>1, Zenon DEF Owned
  <2>2. DOMAIN PodHistory[p][j].containers = DOMAIN PodHistory[p][k].containers
    BY <2>1, VersionFacts
  <2> QED BY <2>1, <2>2
<1>2. DOMAIN PodHistory[p][k].containers \subseteq Owned(p)
  BY Zenon DEF Owned
<1> QED BY <1>1, <1>2

LEMMA FitsOwned ==
  ASSUME NEW e, Fits(e)
  PROVE  e.ContainerID \in Owned(e.EndPointName)
BY DEF Fits, Made, Owned

\* An endpoint is known by its container, but for its policies.
LEMMA FitsAlike ==
  ASSUME PodsSteady, NEW e \in EndPoint, NEW f \in EndPoint, Fits(e), Fits(f), e.ContainerID = f.ContainerID
  PROVE  Alike(e, f)
<1> DEFINE p == e.EndPointName
<1>1. p \in PodNames /\ f.EndPointName \in PodNames
  BY PoliciesOf
<1>2. f.EndPointName = p
  <2>1. e.ContainerID \in Owned(p) \cap Owned(f.EndPointName)
    BY FitsOwned, Zenon
  <2> QED BY <1>1, <2>1, Zenon DEF PodsSteady
<1>3. PICK j \in DOMAIN PodHistory[p] : Made(e, PodHistory[p][j])
  BY Zenon DEF Fits
<1>4. PICK k \in DOMAIN PodHistory[p] : Made(f, PodHistory[p][k])
  BY <1>2, Zenon DEF Fits
<1> HIDE DEF p
<1>5. Made(e, PodHistory[p][j]) /\ Made(f, PodHistory[p][k]) /\ e.EndPointName = p
  BY <1>3, <1>4 DEF p
<1>6. /\ IdentitiesOf(p, PodHistory[p][j]) = IdentitiesOf(p, PodHistory[p][k])
      /\ PolicyEnabled(p, PodHistory[p][j]) = PolicyEnabled(p, PodHistory[p][k])
      /\ \A id \in DOMAIN PodHistory[p][j].containers : id \in DOMAIN PodHistory[p][k].containers =>
           PodHistory[p][j].containers[id] = PodHistory[p][k].containers[id]
  BY <1>1, VersionFacts, Zenon DEF p
<1> QED BY <1>2, <1>5, <1>6, Zenon DEF Made, Alike

LEMMA AlikeFacts ==
  ASSUME NEW e, NEW f, Alike(e, f)
  PROVE  /\ Fits(e) <=> Fits(f)
         /\ Enforceable(e) <=> Enforceable(f)
BY Zenon DEF Alike, Fits, Made, Enforceable

\* Pod p has version v.
HasVersion(p, v) == \E k \in DOMAIN PodHistory[p] : v = PodHistory[p][k]

LEMMA PublishedFits ==
  ASSUME NEW p, NEW v, HasVersion(p, v), NEW ps, NEW id \in DOMAIN v.containers
  PROVE  Fits(PodEndPoint(p, v, id, ps))
<1> DEFINE e == PodEndPoint(p, v, id, ps)
<1>1. /\ e.EndPointName = p /\ e.ContainerID = id /\ e.ContainerName = v.containers[id]
      /\ e.Identities = IdentitiesOf(p, v) /\ e.PolicyEnabled = PolicyEnabled(p, v)
  BY DEF PodEndPoint
<1> HIDE DEF e
<1>2. Made(e, v)
  BY <1>1, Zenon DEF Made
<1>3. Fits(e)
  BY <1>1, <1>2, Zenon DEF Fits, HasVersion
<1> QED BY <1>1, <1>3, Zenon DEF e

LEMMA SoundPut ==
  ASSUME NEW s, NEW r, Sound(s), Len(r) = Len(s), \A i \in 1 .. Len(s) : Alike(r[i], s[i])
  PROVE  Sound(r) /\ \A p : Have(r, p) <=> Have(s, p)
<1>1. \A i \in 1 .. Len(s) : r[i].EndPointName = s[i].EndPointName /\ r[i].ContainerID = s[i].ContainerID
  BY DEF Alike
<1>2. \A i \in 1 .. Len(s) : Fits(r[i])
  BY AlikeFacts, Zenon DEF Sound
<1>3. \A p : Have(r, p) <=> Have(s, p)
  BY <1>1, Zenon DEF Have
<1> QED BY <1>1, <1>2, <1>3 DEF Sound

\* The endpoints of pod p, one for each of its containers.
Whole(n, p) ==
  /\ \A i \in 1 .. Len(n) : Fits(n[i]) /\ n[i].EndPointName = p
  /\ \A i, j \in 1 .. Len(n) : n[i].ContainerID = n[j].ContainerID => i = j
  /\ Len(n) # 0 => \A id \in Owned(p) : \E i \in 1 .. Len(n) : n[i].ContainerID = id

LEMMA SoundAppended ==
  ASSUME PodsSteady, NEW s \in Seq(EndPoint), NEW n \in Seq(EndPoint), NEW p \in PodNames, Sound(s), ~Have(s, p),
         Whole(n, p)
  PROVE  Sound(s \o n) /\ \A q : Have(s \o n, q) <=> Have(s, q) \/ (q = p /\ Len(n) # 0)
<1> DEFINE r == s \o n
<1>0. Len(s) \in Nat /\ Len(n) \in Nat /\ \A i \in 1 .. Len(s) : s[i] \in EndPoint
  OBVIOUS
<1>1. /\ \A i \in 1 .. Len(s) : i \in 1 .. Len(r) /\ r[i] = s[i]
      /\ \A i \in 1 .. Len(n) : Len(s) + i \in 1 .. Len(r) /\ r[Len(s) + i] = n[i]
      /\ \A i \in 1 .. Len(r) : i \in 1 .. Len(s) \/ \E j \in 1 .. Len(n) : i = Len(s) + j
  BY ConcatFacts
<1> USE DEF Whole
<1> HIDE DEF r
<1>2. \A i \in 1 .. Len(s) : s[i].EndPointName # p
  BY Zenon DEF Have
<1>3. \A i \in 1 .. Len(r) : Fits(r[i])
  <2> SUFFICES ASSUME NEW i \in 1 .. Len(r) PROVE Fits(r[i])
    BY Zenon
  <2>1. CASE i \in 1 .. Len(s)
    BY <1>1, <2>1, Zenon DEF Sound
  <2>2. ASSUME NEW j \in 1 .. Len(n), i = Len(s) + j PROVE Fits(r[i])
    BY <1>1, <2>2, Zenon
  <2> QED BY <1>1, <2>1, <2>2, Zenon
<1>4. \A q : Have(r, q) <=> Have(s, q) \/ (q = p /\ Len(n) # 0)
  <2>1. Len(n) # 0 => 1 \in 1 .. Len(n)
    BY <1>0
  <2>2. Len(n) = 0 => \A i \in 1 .. Len(n) : FALSE
    BY <1>0
  <2>3. ASSUME NEW q, Have(r, q) PROVE Have(s, q) \/ (q = p /\ Len(n) # 0)
    <3>1. PICK i \in 1 .. Len(r) : r[i].EndPointName = q
      BY <2>3, Zenon DEF Have
    <3>2. CASE i \in 1 .. Len(s)
      BY <1>1, <3>1, <3>2, Zenon DEF Have
    <3>3. ASSUME NEW j \in 1 .. Len(n), i = Len(s) + j PROVE q = p /\ Len(n) # 0
      BY <1>1, <2>2, <3>1, <3>3, Zenon
    <3> QED BY <1>1, <3>2, <3>3, Zenon
  <2>4. ASSUME NEW q, Have(s, q) PROVE Have(r, q)
    BY <1>1, <2>4 DEF Have
  <2>5. ASSUME Len(n) # 0 PROVE Have(r, p)
    <3>1. Len(s) + 1 \in 1 .. Len(r) /\ r[Len(s) + 1].EndPointName = p
      BY <1>1, <2>1, <2>5, Zenon
    <3> QED BY <3>1, Zenon DEF Have
  <2> QED BY <2>3, <2>4, <2>5
<1>5. \A i \in 1 .. Len(s) : \A j \in 1 .. Len(n) : s[i].ContainerID # n[j].ContainerID
  <2> SUFFICES ASSUME NEW i \in 1 .. Len(s), NEW j \in 1 .. Len(n), s[i].ContainerID = n[j].ContainerID PROVE FALSE
    OBVIOUS
  <2>1. s[i].ContainerID \in Owned(s[i].EndPointName) /\ n[j].ContainerID \in Owned(p)
    BY FitsOwned, Zenon DEF Sound
  <2>2. s[i].EndPointName \in PodNames /\ s[i].EndPointName # p
    BY <1>0, <1>2, PoliciesOf, Zenon
  <2> QED BY <2>1, <2>2, Zenon DEF PodsSteady
<1>6. \A i, j \in 1 .. Len(r) : r[i].ContainerID = r[j].ContainerID => i = j
  <2> SUFFICES ASSUME NEW i \in 1 .. Len(r), NEW j \in 1 .. Len(r), r[i].ContainerID = r[j].ContainerID PROVE i = j
    BY Zenon
  <2>1. CASE i \in 1 .. Len(s) /\ j \in 1 .. Len(s)
    BY <1>1, <2>1 DEF Sound
  <2>2. ASSUME NEW k \in 1 .. Len(n), i = Len(s) + k, NEW l \in 1 .. Len(n), j = Len(s) + l PROVE i = j
    <3>1. n[k].ContainerID = n[l].ContainerID
      BY <1>1, <2>2, Zenon
    <3> QED BY <2>2, <3>1
  <2>3. ASSUME NEW l \in 1 .. Len(n), j = Len(s) + l, i \in 1 .. Len(s) PROVE FALSE
    <3>1. r[i] = s[i] /\ r[j] = n[l]
      BY <1>1, <2>3, Zenon
    <3> QED BY <1>5, <2>3, <3>1
  <2>4. ASSUME NEW k \in 1 .. Len(n), i = Len(s) + k, j \in 1 .. Len(s) PROVE FALSE
    <3>1. r[i] = n[k] /\ r[j] = s[j]
      BY <1>1, <2>4, Zenon
    <3> QED BY <1>5, <2>4, <3>1
  <2> QED BY <1>1, <2>1, <2>2, <2>3, <2>4
<1>7. ASSUME NEW q \in PodNames, Have(r, q), NEW id \in Owned(q)
      PROVE  \E i \in 1 .. Len(r) : r[i].ContainerID = id /\ r[i].EndPointName = q
  <2>1. CASE Have(s, q)
    <3>1. PICK i \in 1 .. Len(s) : s[i].ContainerID = id /\ s[i].EndPointName = q
      BY <1>7, <2>1, Zenon DEF Sound
    <3> QED BY <1>1, <3>1, Zenon
  <2>2. CASE q = p /\ Len(n) # 0
    <3>1. PICK i \in 1 .. Len(n) : n[i].ContainerID = id /\ n[i].EndPointName = q
      BY <1>7, <2>2
    <3> QED BY <1>1, <3>1
  <2> QED BY <1>4, <1>7, <2>1, <2>2, Zenon
<1> QED BY <1>3, <1>4, <1>6, <1>7, Zenon DEF Sound, r

\* List r has elements of list s that are in S, each from a place of its own.
Places(r, s, S) ==
  \E f \in [1 .. Len(r) -> 1 .. Len(s)] :
    /\ \A k \in 1 .. Len(r) : r[k] = s[f[k]] /\ r[k] \in S
    /\ \A k, l \in 1 .. Len(r) : f[k] = f[l] => k = l

LEMMA KeptPlaces ==
  ASSUME Counting, NEW A, NEW s \in Seq(A), NEW S
  PROVE  Places(Kept(s, S), s, S)
<1> DEFINE r == Kept(s, S)
<1>1. r \in Seq(A) /\ Within(r, s) /\ ToSet(r) = ToSet(s) \cap S
  BY KeptFacts
<1> HIDE DEF r
<1>2. PICK f \in [1 .. Len(r) -> 1 .. Len(s)] :
        /\ \A k, l \in 1 .. Len(r) : k < l => f[k] < f[l]
        /\ \A k \in 1 .. Len(r) : r[k] = s[f[k]]
  BY <1>1 DEF Within
<1>3. \A k \in 1 .. Len(r) : r[k] \in S
  BY <1>1, ToSetFacts
<1>4. \A k, l \in 1 .. Len(r) : f[k] = f[l] => k = l
  <2> SUFFICES ASSUME NEW k \in 1 .. Len(r), NEW l \in 1 .. Len(r), f[k] = f[l] PROVE k = l
    OBVIOUS
  <2>1. ~(k < l) /\ ~(l < k)
    BY <1>2
  <2> QED BY <2>1
<1> QED BY <1>2, <1>3, <1>4, Zenon DEF Places, r

Others(s, p) == {e \in ToSet(s) : e.EndPointName # p}

LEMMA SoundKept ==
  ASSUME Counting, NEW s \in Seq(EndPoint), NEW p, Sound(s)
  PROVE  Sound(Kept(s, Others(s, p))) /\ \A q : Have(Kept(s, Others(s, p)), q) <=> Have(s, q) /\ q # p
<1> DEFINE S == Others(s, p)
<1> DEFINE r == Kept(s, S)
<1>1. PICK f \in [1 .. Len(r) -> 1 .. Len(s)] :
        /\ \A k \in 1 .. Len(r) : r[k] = s[f[k]] /\ r[k] \in S
        /\ \A k, l \in 1 .. Len(r) : f[k] = f[l] => k = l
  <2>1. Places(r, s, S)
    BY KeptPlaces
  <2> HIDE DEF r
  <2> QED BY <2>1, Zenon DEF Places
<1>2. r \in Seq(EndPoint) /\ ToSet(r) = ToSet(s) \cap S
  BY KeptFacts, Zenon
<1> HIDE DEF r
<1>3. \A k \in 1 .. Len(r) : f[k] \in 1 .. Len(s) /\ r[k] = s[f[k]] /\ r[k].EndPointName # p
  BY <1>1, Zenon DEF Others
<1>4. \A i \in 1 .. Len(s) : s[i].EndPointName # p => \E k \in 1 .. Len(r) : r[k] = s[i]
  <2> SUFFICES ASSUME NEW i \in 1 .. Len(s), s[i].EndPointName # p PROVE \E k \in 1 .. Len(r) : r[k] = s[i]
    BY Zenon
  <2>1. s[i] \in ToSet(s)
    BY ToSetFacts
  <2>2. s[i] \in ToSet(r)
    BY <1>2, <2>1 DEF Others
  <2> QED BY <1>2, <2>2, ToSetFacts, Zenon
<1>5. \A q : Have(r, q) <=> Have(s, q) /\ q # p
  <2>1. ASSUME NEW q, Have(r, q) PROVE Have(s, q) /\ q # p
    BY <1>3, <2>1, Zenon DEF Have
  <2>2. ASSUME NEW q, Have(s, q), q # p PROVE Have(r, q)
    BY <1>4, <2>2, Zenon DEF Have
  <2> QED BY <2>1, <2>2
<1>6. \A k \in 1 .. Len(r) : Fits(r[k])
  BY <1>3, Zenon DEF Sound
<1>7. ASSUME NEW k \in 1 .. Len(r), NEW l \in 1 .. Len(r), r[k].ContainerID = r[l].ContainerID PROVE k = l
  <2>1. s[f[k]].ContainerID = s[f[l]].ContainerID
    BY <1>3, <1>7, Zenon
  <2>2. f[k] = f[l]
    BY <1>3, <2>1, Zenon DEF Sound
  <2> QED BY <1>1, <2>2
<1>8. ASSUME NEW q \in PodNames, Have(r, q), NEW id \in Owned(q)
      PROVE  \E k \in 1 .. Len(r) : r[k].ContainerID = id /\ r[k].EndPointName = q
  <2>1. Have(s, q) /\ q # p
    BY <1>5, <1>8
  <2>2. PICK i \in 1 .. Len(s) : s[i].ContainerID = id /\ s[i].EndPointName = q
    BY <1>8, <2>1, Zenon DEF Sound
  <2> QED BY <1>4, <2>1, <2>2
<1> QED BY <1>5, <1>6, <1>7, <1>8 DEF Sound, r
-----------------------------------------------------------------------------
(* Which endpoints there are. *)

Seen ==
  /\ ~panicked /\ K8sPods = LivePods
  /\ \A p \in LivePods : podCache[p] \in DOMAIN PodHistory[p]

\* An endpoint goes when its pod does.
Current ==
  \A i \in 1 .. Len(EndPoints) :
    EndPoints[i].EndPointName \in LivePods \/ (pod.pc = "remove" /\ pod.name = EndPoints[i].EndPointName)

\* The handler that will publish the endpoints of pod p.
Publishing(p) ==
  pod.name = p /\ (pod.pc = "lookup" \/ (pod.pc \in {"containers", "policies", "publish"} /\ pod.added))

Covered == \A p \in LivePods : Reported(p) # {} => Have(EndPoints, p) \/ Publishing(p)

\* What the pod handler knows of its pod.
PodKnown ==
  /\ pod.pc \in {"lookup", "containers", "policies", "publish", "push"} =>
       pod.name \in LivePods /\ pod.version = Version(pod.name)
  /\ pod.pc = "remove" => pod.name \notin LivePods
  /\ pod.pc \in {"containers", "policies", "publish"} => (pod.added <=> ~Have(EndPoints, pod.name))

\* A policy handler goes through the endpoints there are.
Going(h) ==
  /\ h.pc \in {"copy", "write", "log", "enforce"} => h.length = Len(EndPoints)
  /\ h.pc = "write" => Alike(h.endPoint, EndPoints[h.idx])

Roster == Seen /\ Sound(EndPoints) /\ Current /\ Covered /\ PodKnown /\ \A t \in Types : Going(policy[t])

\* Handlers that do not overlap run alone.
LEMMA AloneFacts ==
  ASSUME Shape, InTurn
  PROVE  /\ pod.pc # "idle" => crt.pc = "idle" /\ \A t \in Types : policy[t].pc = "idle"
         /\ crt.pc # "idle" => pod.pc = "idle" /\ \A t \in Types : policy[t].pc = "idle"
         /\ \A t \in Types : policy[t].pc # "idle" =>
              pod.pc = "idle" /\ crt.pc = "idle" /\ \A u \in Types : u # t => policy[u].pc = "idle"
<1>1. \A g, h \in Handlers : Running(g) /\ Running(h) => g = h
  BY DEF Shape, Turns, InTurn
<1>2. /\ "pod" \in Handlers /\ "runtime" \in Handlers /\ Types \subseteq Handlers
      /\ "pod" \notin Types /\ "runtime" \notin Types
  BY Zenon DEF Handlers, Types
<1> QED BY <1>1, <1>2 DEF Running

LEMMA AllIdle ==
  ASSUME NEW h \in Handlers, MayStart(h), InTurn
  PROVE  pod.pc = "idle" /\ crt.pc = "idle" /\ \A t \in Types : policy[t].pc = "idle"
<1>1. \A g \in Handlers : ~Running(g)
  BY StartFacts DEF InTurn
<1>2. "pod" \in Handlers /\ "runtime" \in Handlers /\ Types \subseteq Handlers
  BY Zenon DEF Handlers
<1> QED BY <1>1, <1>2 DEF Running

LEMMA RosterInit == Init => Roster
<1> SUFFICES ASSUME Init PROVE Roster
  OBVIOUS
<1>1. LivePods = {} /\ pod.pc = "idle" /\ \A t \in Types : policy[t].pc = "idle"
  BY IdleFacts DEF Init, LivePods
<1>2. \A i \in 1 .. Len(EndPoints) : FALSE
  BY DEF Init
<1>3. Sound(EndPoints)
  BY <1>2, Zenon DEF Sound, Have
<1> QED BY <1>1, <1>2, <1>3, Zenon DEF Init, Roster, Seen, Current, Covered, PodKnown, Going

LEMMA RosterSame ==
  ASSUME Roster, UNCHANGED <<podCache, K8sPods, panicked, EndPoints, pod, policy>>
  PROVE  Roster'
<1>1. LivePods' = LivePods /\ \A p : Version(p)' = Version(p) /\ Reported(p)' = Reported(p)
  BY Zenon DEF LivePods, Version, Reported
<1>2. Sound(EndPoints)' /\ \A p : Have(EndPoints, p)' = Have(EndPoints, p)
  BY DEF Roster, Sound, Have
<1>3. Seen' /\ Current'
  BY <1>1, Zenon DEF Roster, Seen, Current
<1>4. Covered' /\ PodKnown'
  BY <1>1, <1>2, Zenon DEF Roster, Covered, PodKnown, Publishing
<1> QED BY <1>2, <1>3, <1>4, Zenon DEF Roster, Going

\* The pod informer.
LEMMA RosterPodStart ==
  ASSUME Shape, Roster, InTurn, WellFormed, NEW p \in PodNames,
         PodAdded(p) \/ PodModified(p) \/ PodDeleted(p) \/ PodTombstone(p)
  PROVE  Roster'
<1>0. /\ UNCHANGED <<EndPoints, policy, panicked>> /\ MayStart("pod") /\ "pod" \in Handlers
      /\ ~PodTombstone(p)
  BY Zenon DEF PodAdded, PodModified, PodDeleted, PodTombstone, Handlers, InTurn
<1>1. pod.pc = "idle" /\ \A t \in Types : policy[t].pc = "idle"
  BY <1>0, AllIdle
<1>2. /\ podCache \in [PodNames -> Nat] /\ Len(PodHistory[p]) \in Nat
      /\ DOMAIN PodHistory[p] = 1 .. Len(PodHistory[p])
  BY Zenon DEF Shape, TypeOK, WellFormed
<1>3. /\ \A i \in 1 .. Len(EndPoints) : EndPoints[i].EndPointName \in LivePods
      /\ \A q \in LivePods : Reported(q) # {} => Have(EndPoints, q)
  BY <1>1, Zenon DEF Roster, Current, Covered, Publishing
<1>4. Sound(EndPoints)' /\ \A q : Have(EndPoints, q)' <=> Have(EndPoints, q)
  BY <1>0 DEF Roster, Sound, Have
<1>5. \A t \in Types : Going(policy[t])'
  BY <1>0, <1>1, Zenon DEF Going
<1>6. ~panicked' /\ K8sPods = LivePods /\ LivePods = {q \in PodNames : podCache[q] # 0}
  BY <1>0 DEF Roster, Seen, LivePods
<1>7. ASSUME NEW v \in 1 .. Len(PodHistory[p]), podCache' = [podCache EXCEPT ![p] = v], K8sPods' = K8sPods \cup {p},
             pod'.name = p, pod'.version = PodHistory[p][v],
             pod'.pc = "lookup" \/ (pod'.pc = "containers" /\ pod'.added /\ p \notin LivePods)
      PROVE  Roster'
  <2>1. /\ podCache'[p] = v /\ v # 0 /\ v \in DOMAIN PodHistory[p]
        /\ \A q \in PodNames : q # p => podCache'[q] = podCache[q]
    BY <1>2, <1>7
  <2>2. LivePods' = LivePods \cup {p} /\ p \in LivePods'
    BY <1>6, <2>1, Zenon DEF LivePods
  <2>3. /\ Version(p)' = PodHistory[p][v]
        /\ \A q \in PodNames : q # p => Version(q)' = Version(q) /\ Reported(q)' = Reported(q)
    BY <2>1, Zenon DEF Version, Reported
  <2>4. Seen'
    BY <1>6, <1>7, <2>1, <2>2, Zenon DEF Roster, Seen, LivePods
  <2>5. Current'
    BY <1>0, <1>3, <2>2, Zenon DEF Current
  <2>6. Publishing(p)'
    BY <1>7, Zenon DEF Publishing
  <2>7. Covered'
    BY <1>3, <1>4, <2>2, <2>3, <2>6, Zenon DEF Covered, LivePods
  <2>8. p \notin LivePods => ~Have(EndPoints, p)'
    BY <1>3, <1>4, Zenon DEF Have
  <2>9. PodKnown'
    BY <1>7, <2>2, <2>3, <2>8, Zenon DEF PodKnown
  <2> QED BY <1>4, <1>5, <2>4, <2>5, <2>7, <2>9, Zenon DEF Roster
<1>8. ASSUME PodAdded(p) PROVE Roster'
  <2>1. PICK v \in DOMAIN PodHistory[p] :
          /\ podCache' = [podCache EXCEPT ![p] = v]
          /\ pod' = [PodIdle EXCEPT !.pc = IF p \in K8sPods THEN "lookup" ELSE "containers",
                                    !.name = p, !.version = PodHistory[p][v], !.added = p \notin K8sPods]
    BY <1>8, Zenon DEF PodAdded
  <2>2. podCache[p] = 0 /\ K8sPods' = K8sPods \cup {p}
    BY <1>8, Zenon DEF PodAdded
  <2>3. p \notin LivePods
    BY <2>2, Zenon DEF LivePods
  <2>4. pod'.pc = "containers" /\ pod'.name = p /\ pod'.version = PodHistory[p][v] /\ pod'.added
    BY <1>6, <2>1, <2>3, Zenon DEF PodIdle
  <2> QED BY <1>2, <1>7, <2>1, <2>2, <2>3, <2>4, Zenon
<1>9. ASSUME PodModified(p) PROVE Roster'
  <2>1. PICK v \in podCache[p] .. Len(PodHistory[p]) :
          /\ podCache' = [podCache EXCEPT ![p] = v]
          /\ pod' = [PodIdle EXCEPT !.pc = "lookup", !.name = p, !.version = PodHistory[p][v]]
    BY <1>9, Zenon DEF PodModified
  <2>2. podCache[p] # 0 /\ K8sPods' = K8sPods
    BY <1>9, Zenon DEF PodModified
  <2>3. v \in 1 .. Len(PodHistory[p])
    BY <1>2, <2>2
  <2>4. K8sPods' = K8sPods \cup {p}
    BY <1>6, <2>2
  <2>5. pod'.pc = "lookup" /\ pod'.name = p /\ pod'.version = PodHistory[p][v]
    BY <2>1, Zenon DEF PodIdle
  <2> QED BY <1>7, <2>1, <2>3, <2>4, <2>5, Zenon
<1>10. ASSUME PodDeleted(p) PROVE Roster'
  <2>1. podCache' = [podCache EXCEPT ![p] = 0] /\ K8sPods' = K8sPods \ {p} /\ pod'.pc = "remove" /\ pod'.name = p
    BY <1>10, Zenon DEF PodDeleted, PodIdle
  <2>2. podCache'[p] = 0 /\ \A q \in PodNames : q # p => podCache'[q] = podCache[q]
    BY <1>2, <2>1, Zenon
  <2>3. LivePods' = LivePods \ {p}
    BY <1>6, <2>2 DEF LivePods
  <2>4. \A q \in PodNames : q # p => Reported(q)' = Reported(q)
    BY <2>2, Zenon DEF Version, Reported
  <2>5. Seen'
    BY <1>6, <2>1, <2>2, <2>3, Zenon DEF Roster, Seen, LivePods
  <2>6. Current'
    BY <1>0, <1>3, <2>1, <2>3, Zenon DEF Current
  <2>7. Covered'
    BY <1>3, <1>4, <2>3, <2>4, Zenon DEF Covered, LivePods
  <2>8. PodKnown'
    BY <2>1, <2>3 DEF PodKnown
  <2> QED BY <1>4, <1>5, <2>5, <2>6, <2>7, <2>8 DEF Roster
<1> QED BY <1>0, <1>8, <1>9, <1>10

\* What a step of the pod handler leaves alone.
LEMMA PodStepFacts ==
  ASSUME Shape, Roster, InTurn, pod.pc # "idle",
         PodLookup \/ PodContainers \/ PodPolicies \/ PodPublish \/ PodReplace \/ PodPush \/ PodRemove
  PROVE  /\ UNCHANGED <<podCache, policyCache, runtime, SecurityPolicies, ContainerMap, policy, crt, panicked, K8sPods>>
         /\ crt.pc = "idle" /\ \A t \in Types : policy[t].pc = "idle"
         /\ LivePods' = LivePods /\ \A p : Version(p)' = Version(p) /\ Reported(p)' = Reported(p)
         /\ Seen' /\ \A t \in Types : Going(policy[t])'
<1>1. UNCHANGED <<podCache, policyCache, runtime, SecurityPolicies, ContainerMap, policy, crt, panicked, K8sPods>>
  BY Zenon DEF PodLookup, PodContainers, PodPolicies, PodPublish, PodReplace, PodPush, PodRemove, PodStep, cluster
<1>2. crt.pc = "idle" /\ \A t \in Types : policy[t].pc = "idle"
  BY AloneFacts, Zenon
<1>3. LivePods' = LivePods /\ \A p : Version(p)' = Version(p) /\ Reported(p)' = Reported(p)
  BY <1>1, Zenon DEF LivePods, Version, Reported
<1>4. Seen'
  BY <1>1, <1>3, Zenon DEF Roster, Seen
<1>5. \A t \in Types : Going(policy[t])'
  BY <1>1, <1>2, Zenon DEF Going
<1> QED BY <1>1, <1>2, <1>3, <1>4, <1>5, Zenon

\* The endpoints a pod handler adds.
LEMMA NewEndPoints ==
  ASSUME Counting, Shape, Roster, WellFormed, PodsSteady, pod.pc = "publish", NEW ids \in Orders(DOMAIN pod.version.containers)
  PROVE  LET new == [i \in DOMAIN ids |-> PodEndPoint(pod.name, pod.version, ids[i], pod.policies)] IN
         /\ new \in Seq(EndPoint) /\ Len(new) = Len(ids) /\ DOMAIN ids = 1 .. Len(ids) /\ Len(ids) \in Nat
         /\ \A i \in 1 .. Len(ids) :
              new[i] = PodEndPoint(pod.name, pod.version, ids[i], pod.policies) /\ ids[i] \in DOMAIN pod.version.containers
         /\ \A i \in 1 .. Len(ids) : Fits(new[i]) /\ new[i].EndPointName = pod.name /\ new[i].ContainerID = ids[i]
         /\ \A i, j \in 1 .. Len(ids) : ids[i] = ids[j] => i = j
         /\ Len(ids) # 0 => \A id \in Owned(pod.name) : \E i \in 1 .. Len(ids) : new[i].ContainerID = id
         /\ Len(ids) = 0 => DOMAIN pod.version.containers = {}
<1> DEFINE new == [i \in DOMAIN ids |-> PodEndPoint(pod.name, pod.version, ids[i], pod.policies)]
           p == pod.name
           v == pod.version
<1>0. ids \in Orders(DOMAIN v.containers)
  OBVIOUS
<1>1. PICK k \in DOMAIN PodHistory[p] : v = PodHistory[p][k]
  BY Zenon DEF Shape, PodRun
<1>2. p \in PodNames /\ v \in Versions /\ pod.policies \in Seq(Policies)
  <2>1. pod \in PodHandler /\ p \in PodNames
    BY Zenon DEF Shape, PodRun, TypeOK
  <2>2. v \in Versions
    BY <1>1, <2>1 DEF Versions
  <2> QED BY <2>1, <2>2 DEF PodHandler
<1>3. /\ ids \in Seq(DOMAIN v.containers) /\ ToSet(ids) = DOMAIN v.containers
      /\ \A i, j \in DOMAIN ids : ids[i] = ids[j] => i = j
      /\ new \in Seq(EndPoint) /\ Len(new) = Len(ids)
  <2> HIDE DEF p, v
  <2>1. LET made == [i \in DOMAIN ids |-> PodEndPoint(p, v, ids[i], pod.policies)] IN
        /\ ids \in Seq(DOMAIN v.containers) /\ ToSet(ids) = DOMAIN v.containers
        /\ \A i, j \in DOMAIN ids : ids[i] = ids[j] => i = j
        /\ made \in Seq(EndPoint) /\ Len(made) = Len(ids)
    BY <1>0, <1>2, PublishType, SMTT(15)
  <2> QED BY <2>1, Zenon DEF new, p, v
<1>4. DOMAIN ids = 1 .. Len(ids) /\ Len(ids) \in Nat /\ \A i \in 1 .. Len(ids) : ids[i] \in DOMAIN v.containers
  BY <1>3, ToSetFacts, Zenon
<1>5. \A i \in 1 .. Len(ids) : new[i] = PodEndPoint(p, v, ids[i], pod.policies)
  BY <1>4, Zenon
<1> HIDE DEF new, p, v
<1>6. \A i \in 1 .. Len(ids) : Fits(new[i]) /\ new[i].EndPointName = p /\ new[i].ContainerID = ids[i]
  <2> SUFFICES ASSUME NEW i \in 1 .. Len(ids)
               PROVE  Fits(new[i]) /\ new[i].EndPointName = p /\ new[i].ContainerID = ids[i]
    BY Zenon
  <2>1. ids[i] \in DOMAIN v.containers /\ new[i] = PodEndPoint(p, v, ids[i], pod.policies)
    BY <1>4, <1>5
  <2>2. HasVersion(p, v)
    BY <1>1, Zenon DEF HasVersion
  <2>3. Fits(PodEndPoint(p, v, ids[i], pod.policies))
    BY <2>1, <2>2, PublishedFits, Zenon
  <2>4. /\ PodEndPoint(p, v, ids[i], pod.policies).EndPointName = p
        /\ PodEndPoint(p, v, ids[i], pod.policies).ContainerID = ids[i]
    BY Zenon DEF PodEndPoint
  <2> QED BY <2>1, <2>3, <2>4, Zenon
<1>7. \A x : x \in DOMAIN v.containers <=> \E i \in 1 .. Len(ids) : ids[i] = x
  BY <1>3, ToSetFacts, Zenon
<1>8. ASSUME Len(ids) # 0, NEW id \in Owned(p) PROVE \E i \in 1 .. Len(ids) : new[i].ContainerID = id
  <2>1. ids[1] \in DOMAIN PodHistory[p][k].containers
    BY <1>1, <1>4, <1>8
  <2>2. id \in DOMAIN v.containers
    BY <1>1, <1>2, <1>8, <2>1, OwnedFacts
  <2> QED BY <1>6, <1>7, <2>2, Zenon
<1>9. Len(ids) = 0 => DOMAIN v.containers = {}
  BY <1>7
<1> QED BY <1>3, <1>4, <1>5, <1>6, <1>8, <1>9, Zenon DEF new, p, v

LEMMA RosterPodStep ==
  ASSUME Counting, Shape, Roster, InTurn, WellFormed, PodsSteady,
         PodLookup \/ PodContainers \/ PodPolicies \/ PodPublish \/ PodReplace \/ PodPush \/ PodRemove
  PROVE  Roster'
<1>0. pod \in PodHandler /\ pod.pc # "idle" /\ EndPoints \in Seq(EndPoint)
  BY Zenon DEF PodLookup, PodContainers, PodPolicies, PodPublish, PodReplace, PodPush, PodRemove, PodStep, Shape, TypeOK
<1>1. /\ LivePods' = LivePods /\ Seen' /\ (\A t \in Types : Going(policy[t])')
      /\ \A p : Version(p)' = Version(p) /\ Reported(p)' = Reported(p)
  BY <1>0, PodStepFacts, Zenon
<1>2. ASSUME EndPoints' = EndPoints, pod.pc # "remove", pod'.pc \in {"containers", "policies", "publish", "push", "idle"},
             pod'.pc # "idle" => pod'.name = pod.name /\ pod'.version = pod.version,
             pod'.pc \in {"containers", "policies", "publish"} => (pod'.added <=> ~Have(EndPoints, pod.name)),
             Publishing(pod.name) => Have(EndPoints, pod.name) \/ pod'.pc \in {"containers", "policies", "publish"}
      PROVE  Roster'
  <2>1. Sound(EndPoints)' /\ \A p : Have(EndPoints, p)' <=> Have(EndPoints, p)
    BY <1>2, Zenon DEF Roster, Sound, Have
  <2>2. Current'
    BY <1>1, <1>2, Zenon DEF Roster, Current
  <2>3. Covered'
    BY <1>1, <1>2, <2>1, Zenon DEF Roster, Covered, Publishing
  <2>4. pod.pc \in {"lookup", "containers", "policies", "publish", "push"}
    BY <1>0, <1>2, Zenon DEF PodHandler
  <2>5. PodKnown'
    BY <1>1, <1>2, <2>1, <2>4, Zenon DEF Roster, PodKnown
  <2> QED BY <1>1, <2>1, <2>2, <2>3, <2>5 DEF Roster
<1>3. ASSUME PodLookup PROVE Roster'
  <2> DEFINE i == FirstIn(EndPoints, OfPod)
  <2>1. i = 0 <=> ~Have(EndPoints, pod.name)
    <3>1. i = 0 <=> ToSet(EndPoints) \cap OfPod = {}
      BY <1>0, FirstFacts
    <3>2. \A x : x \in ToSet(EndPoints) <=> \E k \in 1 .. Len(EndPoints) : EndPoints[k] = x
      BY <1>0, ToSetFacts
    <3> QED BY <3>1, <3>2, Zenon DEF OfPod, Have
  <2>2. /\ pod.pc = "lookup" /\ EndPoints' = EndPoints
        /\ pod' = [pod EXCEPT !.pc = "containers", !.added = (i = 0),
                              !.endpoints = IF i = 0 THEN <<>> ELSE <<EndPoints[i]>>]
    BY <1>3 DEF PodLookup, PodStep
  <2> HIDE DEF i
  <2>3. pod'.pc = "containers" /\ pod'.added = (i = 0) /\ pod'.name = pod.name /\ pod'.version = pod.version
    BY <1>0, <2>2, Zenon DEF PodHandler
  <2> QED BY <1>2, <2>1, <2>2, <2>3, Zenon
<1>4. ASSUME PodContainers \/ PodPolicies PROVE Roster'
  <2>1. /\ EndPoints' = EndPoints /\ pod.pc \in {"containers", "policies"} /\ pod'.pc \in {"policies", "publish"}
        /\ pod'.name = pod.name /\ pod'.version = pod.version /\ pod'.added = pod.added
    BY <1>0, <1>4, Zenon DEF PodContainers, PodPolicies, PodStep, PodHandler
  <2>2. pod'.added <=> ~Have(EndPoints, pod.name)
    BY <2>1, Zenon DEF Roster, PodKnown
  <2> QED BY <1>2, <2>1, <2>2
<1>5. ASSUME PodReplace PROVE Roster'
  <2>1. pod.pc = "publish" /\ ~pod.added /\ EndPoints' = EndPoints
    BY <1>5, Zenon DEF PodReplace, PodStep
  <2>2. pod'.pc = "push" /\ pod'.name = pod.name /\ pod'.version = pod.version
    BY <1>0, <1>5, Zenon DEF PodReplace, PodHandler
  <2>3. ~Publishing(pod.name)
    BY <2>1 DEF Publishing
  <2> QED BY <1>2, <2>1, <2>2, <2>3
<1>6. ASSUME PodPush PROVE Roster'
  <2>1. /\ pod.pc = "push" /\ EndPoints' = EndPoints
        /\ pod' = IF Len(pod.endpoints) = 1 THEN PodIdle ELSE [pod EXCEPT !.endpoints = Tail(@)]
    BY <1>6 DEF PodPush, PodStep
  <2>2. pod'.pc = "idle" \/ (pod'.pc = "push" /\ pod'.name = pod.name /\ pod'.version = pod.version)
    BY <1>0, <2>1, IdleFacts DEF PodHandler
  <2>3. ~Publishing(pod.name)
    BY <2>1, Zenon DEF Publishing
  <2> QED BY <1>2, <2>1, <2>2, <2>3
<1>7. ASSUME PodPublish PROVE Roster'
  <2>1. PICK ids \in Orders(DOMAIN pod.version.containers) :
          LET new == [i \in DOMAIN ids |-> PodEndPoint(pod.name, pod.version, ids[i], pod.policies)]
          IN  /\ EndPoints' = EndPoints \o new
              /\ pod' = IF ids = <<>> THEN PodIdle ELSE [pod EXCEPT !.pc = "push", !.endpoints = new]
    BY <1>7, Zenon DEF PodPublish
  <2> DEFINE new == [i \in DOMAIN ids |-> PodEndPoint(pod.name, pod.version, ids[i], pod.policies)]
  <2>2. pod.pc = "publish" /\ pod.added /\ pod.name \in PodNames
    BY <1>7, Zenon DEF PodPublish, PodStep, Shape, PodRun
  <2>3. /\ new \in Seq(EndPoint) /\ Len(new) = Len(ids)
        /\ \A i \in 1 .. Len(ids) : Fits(new[i]) /\ new[i].EndPointName = pod.name /\ new[i].ContainerID = ids[i]
        /\ \A i, j \in 1 .. Len(ids) : ids[i] = ids[j] => i = j
        /\ Len(ids) # 0 => \A id \in Owned(pod.name) : \E i \in 1 .. Len(ids) : new[i].ContainerID = id
        /\ Len(ids) = 0 => DOMAIN pod.version.containers = {}
    BY <2>2, NewEndPoints, Zenon
  <2>4. EndPoints' = EndPoints \o new /\ pod' = IF ids = <<>> THEN PodIdle ELSE [pod EXCEPT !.pc = "push", !.endpoints = new]
    BY <2>1
  <2> HIDE DEF new
  <2>5. ~Have(EndPoints, pod.name) /\ pod.name \in LivePods /\ pod.version = Version(pod.name)
    BY <2>2, Zenon DEF Roster, PodKnown
  <2>6. Whole(new, pod.name)
    BY <2>3 DEF Whole
  <2>7. Sound(EndPoints \o new) /\ \A q : Have(EndPoints \o new, q) <=> Have(EndPoints, q) \/ (q = pod.name /\ Len(new) # 0)
    BY <1>0, <2>2, <2>3, <2>5, <2>6, SoundAppended, Zenon DEF Roster
  <2>8. Sound(EndPoints') /\ \A q : Have(EndPoints', q) <=> Have(EndPoints, q) \/ (q = pod.name /\ Len(ids) # 0)
    BY <2>3, <2>4, <2>7
  <2>9. pod'.pc \in {"idle", "push"} /\ (pod'.pc = "push" => pod'.name = pod.name /\ pod'.version = pod.version)
    BY <1>0, <2>4, IdleFacts DEF PodHandler
  <2>10. Current'
    <3>1. \A i \in 1 .. Len(EndPoints) : EndPoints[i].EndPointName \in LivePods
      BY <2>2, Zenon DEF Roster, Current
    <3>2. \A q : Have(EndPoints', q) => q \in LivePods
      BY <2>5, <2>8, <3>1, Zenon DEF Have
    <3>3. \A i \in 1 .. Len(EndPoints') : Have(EndPoints', EndPoints'[i].EndPointName)
      BY Zenon DEF Have
    <3> QED BY <1>1, <3>2, <3>3, Zenon DEF Current
  <2>11. Covered'
    <3>1. \A q : Have(EndPoints, q)' <=> Have(EndPoints', q)
      BY DEF Have
    <3>2. ASSUME NEW q \in LivePods, Reported(q) # {} PROVE Have(EndPoints', q)
      <4>1. CASE q # pod.name
        BY <2>8, <3>2, <4>1 DEF Roster, Covered, Publishing
      <4>2. CASE q = pod.name
        BY <2>3, <2>5, <2>8, <3>2, <4>2, Zenon DEF Reported
      <4> QED BY <4>1, <4>2, Zenon
    <3> QED BY <1>1, <3>1, <3>2 DEF Covered
  <2>12. PodKnown'
    BY <1>1, <2>5, <2>9, Zenon DEF PodKnown
  <2>13. Sound(EndPoints)'
    BY <2>8, Zenon DEF Sound, Have
  <2> QED BY <1>1, <2>10, <2>11, <2>12, <2>13 DEF Roster
<1>8. ASSUME PodRemove PROVE Roster'
  <2>1. pod.pc = "remove" /\ EndPoints' = Kept(EndPoints, ToSet(EndPoints) \ OfPod) /\ pod'.pc = "idle"
    BY <1>8, IdleFacts, Zenon DEF PodRemove, PodStep
  <2>2. ToSet(EndPoints) \ OfPod = Others(EndPoints, pod.name) /\ Sound(EndPoints)
    BY Zenon DEF OfPod, Others, Roster
  <2>3. Sound(EndPoints') /\ \A q : Have(EndPoints', q) <=> Have(EndPoints, q) /\ q # pod.name
    BY <1>0, <2>1, <2>2, SoundKept, Zenon
  <2>4. \A q : Have(EndPoints, q)' <=> Have(EndPoints', q)
    BY DEF Have
  <2>5. Current'
    <3>1. \A q : Have(EndPoints', q) => q \in LivePods
      BY <2>3, Zenon DEF Roster, Current, Have
    <3>2. \A i \in 1 .. Len(EndPoints') : Have(EndPoints', EndPoints'[i].EndPointName)
      BY Zenon DEF Have
    <3> QED BY <1>1, <3>1, <3>2, Zenon DEF Current
  <2>6. Covered'
    BY <1>1, <2>1, <2>3, <2>4, Zenon DEF Roster, Covered, PodKnown, Publishing
  <2>7. PodKnown' /\ Sound(EndPoints)'
    BY <2>1, <2>3, Zenon DEF PodKnown, Sound, Have
  <2> QED BY <1>1, <2>5, <2>6, <2>7, Zenon DEF Roster
<1> QED BY <1>3, <1>4, <1>5, <1>6, <1>7, <1>8

\* The policy informers.
LEMMA RosterPut ==
  ASSUME Roster, pod.pc = "idle", UNCHANGED <<podCache, K8sPods, panicked, pod>>,
         Len(EndPoints') = Len(EndPoints), \A i \in 1 .. Len(EndPoints) : Alike(EndPoints'[i], EndPoints[i]),
         \A t \in Types : Going(policy[t])'
  PROVE  Roster'
<1>1. LivePods' = LivePods /\ \A p : Reported(p)' = Reported(p)
  BY DEF LivePods, Version, Reported
<1>2. Sound(EndPoints') /\ \A p : Have(EndPoints', p) <=> Have(EndPoints, p)
  BY SoundPut, Zenon DEF Roster
<1>3. Sound(EndPoints)' /\ \A p : Have(EndPoints, p)' <=> Have(EndPoints, p)
  BY <1>2, Zenon DEF Sound, Have
<1>4. Seen' /\ PodKnown'
  BY <1>1, Zenon DEF Roster, Seen, PodKnown
<1>5. Current'
  BY <1>1, Zenon DEF Roster, Current, Alike
<1>6. Covered'
  BY <1>1, <1>3, Zenon DEF Roster, Covered, Publishing
<1> QED BY <1>3, <1>4, <1>5, <1>6 DEF Roster

LEMMA RosterPolicyStart ==
  ASSUME Shape, Roster, InTurn, WellFormed, NEW p \in Policies,
         PolicyAdded(p) \/ PolicyModified(p) \/ PolicyDeleted(p)
  PROVE  Roster'
<1>1. PICK action \in Acts : MayStart(p.type) /\ PolicyEvent(action, p, policyCache')
  BY EventFacts, Zenon
<1>2. p.type \in Types /\ p.type \in Handlers
  BY Zenon DEF WellFormed, Handlers
<1>3. pod.pc = "idle" /\ \A t \in Types : policy[t].pc = "idle"
  BY <1>1, <1>2, AllIdle
<1>4. /\ UNCHANGED <<podCache, K8sPods, panicked, pod, EndPoints>>
      /\ policy' = [policy EXCEPT ![p.type] = [PolicyIdle EXCEPT !.pc = "length", !.action = action, !.object = p]]
  BY <1>1, Zenon DEF PolicyEvent
<1>5. policy \in [Types -> PolicyHandler]
  BY Zenon DEF Shape, TypeOK
<1>6. \A t \in Types : policy'[t].pc \in {"idle", "length"}
  <2> SUFFICES ASSUME NEW t \in Types PROVE policy'[t].pc \in {"idle", "length"}
    OBVIOUS
  <2>1. CASE t = p.type
    BY <1>4, <1>5, <2>1 DEF PolicyIdle
  <2>2. CASE t # p.type
    BY <1>3, <1>4, <1>5, <2>2, Zenon
  <2> QED BY <2>1, <2>2, Zenon
<1>7. \A t \in Types : Going(policy[t])'
  BY <1>6 DEF Going
<1>8. \A i \in 1 .. Len(EndPoints) : Alike(EndPoints'[i], EndPoints[i])
  BY <1>4 DEF Alike
<1> QED BY <1>3, <1>4, <1>7, <1>8, RosterPut

\* A policy handler after one of its steps.
LEMMA PolicyStepFacts ==
  ASSUME Shape, Roster, InTurn, NEW t \in Types,
         PolicyLength(t) \/ PolicyCopy(t) \/ PolicyWrite(t) \/ PolicyLog(t) \/ PolicyEnforce(t) \/ PolicyPanic(t)
  PROVE  /\ policy[t] \in PolicyHandler /\ PolicyRun(policy[t], t) /\ policy[t].pc # "idle"
         /\ policy[t].object \in Policies /\ policy[t].object.type = t /\ policy[t].action \in Acts
         /\ policy[t].idx \in Nat /\ policy[t].length \in Nat /\ Len(EndPoints) \in Nat
         /\ policy[t].pc \in {"copy", "write", "log", "enforce"} =>
              /\ policy[t].idx \in 1 .. Len(EndPoints) /\ policy[t].length = Len(EndPoints)
              /\ EndPoints[policy[t].idx] \in EndPoint /\ InRange(t)
         /\ ~PolicyPanic(t) /\ pod.pc = "idle" /\ crt.pc = "idle"
         /\ \A u \in Types : u # t => policy[u].pc = "idle" /\ policy'[u] = policy[u]
         /\ UNCHANGED <<podCache, policyCache, runtime, K8sPods, Containers, SecurityPolicies, ContainerMap, pod, crt, panicked>>
<1> DEFINE h == policy[t]
<1>1. /\ UNCHANGED <<podCache, policyCache, runtime, K8sPods, Containers, SecurityPolicies, ContainerMap, pod, crt>>
      /\ h.pc # "idle"
  BY Zenon DEF PolicyLength, PolicyCopy, PolicyWrite, PolicyLog, PolicyEnforce, PolicyPanic, PolicyStep, cluster
<1>2. /\ h \in PolicyHandler /\ PolicyRun(h, t) /\ EndPoints \in Seq(EndPoint) /\ Len(EndPoints) \in Nat
      /\ h.length \in Nat /\ h.idx \in Nat /\ policy \in [Types -> PolicyHandler]
  BY DEF Shape, TypeOK, PolicyHandler
<1>3. h.object \in Policies /\ h.object.type = t /\ h.action \in Acts
  BY <1>1, <1>2, Zenon DEF PolicyRun
<1>4. ASSUME h.pc \in {"copy", "write", "log", "enforce"}
      PROVE  /\ h.idx \in 1 .. Len(EndPoints) /\ h.length = Len(EndPoints)
             /\ EndPoints[h.idx] \in EndPoint /\ InRange(t)
  <2>1. h.length = Len(EndPoints)
    BY <1>4, Zenon DEF Roster, Going
  <2>2. h.idx \in 1 .. h.length
    BY <1>2, <1>4, RunIndex, Zenon
  <2>3. InRange(t)
    BY <1>2, <2>1, <2>2 DEF InRange
  <2> HIDE DEF h
  <2> QED BY <1>2, <2>1, <2>2, <2>3
<1>5. ~PolicyPanic(t)
  BY <1>4, Zenon DEF PolicyPanic, PolicyStep
<1>6. /\ pod.pc = "idle" /\ crt.pc = "idle" /\ \A u \in Types : u # t => policy[u].pc = "idle"
  BY <1>1, AloneFacts, Zenon
<1>7. panicked' = panicked /\ \A u \in Types : u # t => policy'[u] = policy[u]
  BY <1>2, <1>5, Zenon DEF PolicyLength, PolicyCopy, PolicyWrite, PolicyLog, PolicyEnforce
<1> QED BY <1>1, <1>2, <1>3, <1>4, <1>5, <1>6, <1>7, Zenon

\* Handler n is handler h when it is done with the first i endpoints.
Passed(n, h, i) ==
  \/ n.pc = "idle" /\ i = Len(EndPoints)
  \/ /\ n.pc = "copy" /\ n.idx = i + 1 /\ n.idx \in 1 .. Len(EndPoints) /\ n.length = Len(EndPoints)
     /\ n.object = h.object /\ n.action = h.action

\* Handler n is handler h at another step for the same endpoint.
SameTask(n, h) == n.idx = h.idx /\ n.length = h.length /\ n.object = h.object /\ n.action = h.action

LEMMA PassedFacts ==
  ASSUME NEW h \in PolicyHandler, h.object \in Policies, h.action \in Acts, h.length = Len(EndPoints),
         h.idx \in 0 .. h.length, h.length \in Nat
  PROVE  Passed(NextIndex(h), h, h.idx)
<1>1. IF h.idx = h.length THEN NextIndex(h) = PolicyIdle
      ELSE /\ NextIndex(h).pc = "copy" /\ NextIndex(h).idx = h.idx + 1
           /\ NextIndex(h).length = h.length /\ NextIndex(h).object = h.object
           /\ NextIndex(h).action = h.action
  BY NextIndexFacts
<1>2. h.idx # h.length => h.idx + 1 \in 1 .. Len(EndPoints)
  OBVIOUS
<1> QED BY <1>1, <1>2, IdleFacts, Zenon DEF Passed

LEMMA LengthCase ==
  ASSUME Shape, Roster, InTurn, NEW t \in Types, PolicyLength(t)
  PROVE  policy[t].pc = "length" /\ UNCHANGED <<EndPoints, Rules>> /\ Passed(policy'[t], policy[t], 0)
<1> DEFINE h == policy[t]
           g == [h EXCEPT !.length = Len(EndPoints)]
<1>1. /\ h \in PolicyHandler /\ PolicyRun(h, t) /\ h.object \in Policies /\ h.action \in Acts /\ Len(EndPoints) \in Nat
      /\ policy \in [Types -> PolicyHandler]
  BY PolicyStepFacts, Zenon DEF Shape, TypeOK
<1>2. h.pc = "length" /\ UNCHANGED <<EndPoints, Rules>> /\ policy' = [policy EXCEPT ![t] = NextIndex(g)]
  BY DEF PolicyLength, PolicyStep
<1>3. h.idx = 0
  BY <1>1, <1>2 DEF PolicyRun
<1>4. /\ g \in PolicyHandler /\ g.object = h.object /\ g.action = h.action /\ g.idx = 0 /\ g.length = Len(EndPoints)
  BY <1>1, <1>3, Zenon DEF PolicyHandler
<1>5. policy'[t] = NextIndex(g)
  BY <1>1, <1>2
<1> HIDE DEF g, h
<1>6. g.idx \in 0 .. g.length
  BY <1>1, <1>4
<1>7. Passed(NextIndex(g), g, 0)
  BY <1>1, <1>4, <1>6, PassedFacts
<1>8. Passed(policy'[t], h, 0)
  BY <1>4, <1>5, <1>7, Zenon DEF Passed
<1> QED BY <1>2, <1>8 DEF h

LEMMA CopyCase ==
  ASSUME Shape, Roster, InTurn, NEW t \in Types, PolicyCopy(t)
  PROVE  LET h == policy[t]
             n == policy'[t]
             e == EndPoints[h.idx]
         IN  /\ h.pc = "copy" /\ UNCHANGED <<EndPoints, Rules>>
             /\ ~Concerns(h.object, e) => Passed(n, h, h.idx)
             /\ Concerns(h.object, e) =>
                  /\ n.pc = "write" /\ SameTask(n, h)
                  /\ n.endPoint = [e EXCEPT !.SecurityPolicies = UpdatedPolicies(h.action, h.object, e)]
<1> DEFINE h == policy[t]
           e == EndPoints[h.idx]
           x == [e EXCEPT !.SecurityPolicies = UpdatedPolicies(h.action, h.object, e)]
           g == [h EXCEPT !.pc = "write", !.endPoint = x]
<1>1. /\ h.pc = "copy" /\ UNCHANGED <<EndPoints, Rules>>
      /\ policy' = [policy EXCEPT ![t] = IF Concerns(h.object, e) THEN g ELSE NextIndex(h)]
  BY DEF PolicyCopy, PolicyStep
<1>2. /\ h \in PolicyHandler /\ h.object \in Policies /\ h.action \in Acts /\ Len(EndPoints) \in Nat
      /\ h.idx \in 1 .. Len(EndPoints) /\ h.length = Len(EndPoints) /\ policy \in [Types -> PolicyHandler]
  BY <1>1, PolicyStepFacts DEF Shape, TypeOK
<1>3. policy'[t] = IF Concerns(h.object, e) THEN g ELSE NextIndex(h)
  BY <1>1, <1>2
<1> HIDE DEF x
<1>4. g.pc = "write" /\ SameTask(g, h) /\ g.endPoint = x
  BY <1>2 DEF PolicyHandler, SameTask
<1> HIDE DEF g, h, e
<1>5. Passed(NextIndex(h), h, h.idx)
  BY <1>2, PassedFacts
<1> QED BY <1>1, <1>3, <1>4, <1>5 DEF h, e, x

LEMMA WriteCase ==
  ASSUME Shape, Roster, InTurn, NEW t \in Types, PolicyWrite(t)
  PROVE  LET h == policy[t] IN
         /\ h.pc = "write" /\ Rules' = Rules /\ policy'[t].pc = "log" /\ SameTask(policy'[t], h)
         /\ h.endPoint \in EndPoint /\ Len(EndPoints') = Len(EndPoints)
         /\ \A i \in 1 .. Len(EndPoints) : EndPoints'[i] = IF i = h.idx THEN h.endPoint ELSE EndPoints[i]
<1> DEFINE h == policy[t]
<1>1. /\ h.pc = "write" /\ Rules' = Rules /\ EndPoints' = [EndPoints EXCEPT ![h.idx] = h.endPoint]
      /\ policy' = [policy EXCEPT ![t].pc = "log"]
  BY DEF PolicyWrite, PolicyStep
<1>2. /\ h \in PolicyHandler /\ PolicyRun(h, t) /\ policy \in [Types -> PolicyHandler]
      /\ h.idx \in 1 .. Len(EndPoints) /\ EndPoints \in Seq(EndPoint)
  BY <1>1, PolicyStepFacts DEF Shape, TypeOK
<1>3. policy'[t].pc = "log" /\ SameTask(policy'[t], h)
  BY <1>1, <1>2 DEF PolicyHandler, SameTask
<1>4. h.endPoint \in EndPoint
  BY <1>1, <1>2 DEF PolicyRun
<1> HIDE DEF h
<1>5. /\ Len(EndPoints') = Len(EndPoints)
      /\ \A i \in 1 .. Len(EndPoints) : EndPoints'[i] = IF i = h.idx THEN h.endPoint ELSE EndPoints[i]
  BY <1>1, <1>2
<1> QED BY <1>1, <1>3, <1>4, <1>5 DEF h

LEMMA LogCase ==
  ASSUME Shape, Roster, InTurn, NEW t \in Types, PolicyLog(t)
  PROVE  LET h == policy[t]
             n == policy'[t]
             e == EndPoints[h.idx]
         IN  /\ h.pc = "log" /\ UNCHANGED <<EndPoints, Rules>>
             /\ ~Enforceable(e) => Passed(n, h, h.idx)
             /\ Enforceable(e) => n.pc = "enforce" /\ SameTask(n, h) /\ n.torn = e
<1> DEFINE h == policy[t]
           e == EndPoints[h.idx]
           g == [h EXCEPT !.pc = "enforce", !.torn = e]
<1>1. /\ h.pc = "log" /\ UNCHANGED <<EndPoints, Rules>>
      /\ policy' = [policy EXCEPT ![t] = IF Enforceable(e) THEN g ELSE NextIndex(h)]
  BY DEF PolicyLog, PolicyStep
<1>2. /\ h \in PolicyHandler /\ h.object \in Policies /\ h.action \in Acts /\ Len(EndPoints) \in Nat
      /\ h.idx \in 1 .. Len(EndPoints) /\ h.length = Len(EndPoints) /\ policy \in [Types -> PolicyHandler]
  BY <1>1, PolicyStepFacts DEF Shape, TypeOK
<1>3. policy'[t] = IF Enforceable(e) THEN g ELSE NextIndex(h)
  BY <1>1, <1>2
<1> HIDE DEF e
<1>4. g.pc = "enforce" /\ SameTask(g, h) /\ g.torn = e
  BY <1>2 DEF PolicyHandler, SameTask
<1> HIDE DEF g, h
<1>5. Passed(NextIndex(h), h, h.idx)
  BY <1>2, PassedFacts
<1> QED BY <1>1, <1>3, <1>4, <1>5, Zenon DEF h, e

LEMMA EnforceCase ==
  ASSUME Shape, Roster, InTurn, NEW t \in Types, PolicyEnforce(t)
  PROVE  LET h == policy[t] IN
         /\ h.pc = "enforce" /\ EndPoints' = EndPoints /\ Passed(policy'[t], h, h.idx)
         /\ Rules' = Enforced([h.torn EXCEPT !.SecurityPolicies = EndPoints[h.idx].SecurityPolicies])
<1> DEFINE h == policy[t]
<1>1. /\ h.pc = "enforce" /\ EndPoints' = EndPoints /\ policy' = [policy EXCEPT ![t] = NextIndex(h)]
      /\ Rules' = Enforced([h.torn EXCEPT !.SecurityPolicies = EndPoints[h.idx].SecurityPolicies])
  BY DEF PolicyEnforce, PolicyStep
<1>2. /\ h \in PolicyHandler /\ h.object \in Policies /\ h.action \in Acts /\ Len(EndPoints) \in Nat
      /\ h.idx \in 1 .. Len(EndPoints) /\ h.length = Len(EndPoints) /\ policy \in [Types -> PolicyHandler]
  BY <1>1, PolicyStepFacts DEF Shape, TypeOK
<1>3. policy'[t] = NextIndex(h)
  BY <1>1, <1>2, Zenon
<1> HIDE DEF h
<1>4. Passed(NextIndex(h), h, h.idx)
  BY <1>2, PassedFacts
<1> QED BY <1>1, <1>3, <1>4 DEF h

LEMMA RosterPolicyStep ==
  ASSUME Shape, Roster, InTurn, NEW t \in Types,
         PolicyLength(t) \/ PolicyCopy(t) \/ PolicyWrite(t) \/ PolicyLog(t) \/ PolicyEnforce(t) \/ PolicyPanic(t)
  PROVE  Roster'
<1> DEFINE h == policy[t]
           n == policy'[t]
<1>1. /\ pod.pc = "idle" /\ ~PolicyPanic(t) /\ \A u \in Types : u # t => policy'[u].pc = "idle"
      /\ UNCHANGED <<podCache, K8sPods, panicked, pod>>
      /\ h.pc \in {"copy", "write", "log", "enforce"} =>
           h.idx \in 1 .. Len(EndPoints) /\ h.length = Len(EndPoints) /\ EndPoints[h.idx] \in EndPoint
  BY PolicyStepFacts, Zenon
<1>2. ASSUME Len(EndPoints') = Len(EndPoints), \A i \in 1 .. Len(EndPoints) : Alike(EndPoints'[i], EndPoints[i]),
             n.pc \in {"copy", "write", "log", "enforce"} => n.length = Len(EndPoints),
             n.pc = "write" => Alike(n.endPoint, EndPoints'[n.idx])
      PROVE  Roster'
  <2>1. \A u \in Types : Going(policy[u])'
    BY <1>1, <1>2, Zenon DEF Going
  <2> QED BY <1>1, <1>2, <2>1, RosterPut, Zenon
<1>3. ASSUME EndPoints' = EndPoints, NEW i, Passed(n, h, i) PROVE Roster'
  <2>1. Len(EndPoints') = Len(EndPoints) /\ \A j \in 1 .. Len(EndPoints) : Alike(EndPoints'[j], EndPoints[j])
    BY <1>3 DEF Alike
  <2>2. n.pc \in {"idle", "copy"} /\ (n.pc = "copy" => n.length = Len(EndPoints))
    BY <1>3, Zenon DEF Passed
  <2> QED BY <1>2, <2>1, <2>2, Zenon
<1>4. CASE PolicyLength(t)
  BY <1>3, <1>4, LengthCase, Zenon
<1>5. CASE PolicyCopy(t)
  <2> DEFINE e == EndPoints[h.idx]
  <2>1. /\ h.pc = "copy" /\ EndPoints' = EndPoints
        /\ ~Concerns(h.object, e) => Passed(n, h, h.idx)
        /\ Concerns(h.object, e) =>
             /\ n.pc = "write" /\ SameTask(n, h)
             /\ n.endPoint = [e EXCEPT !.SecurityPolicies = UpdatedPolicies(h.action, h.object, e)]
    BY <1>5, CopyCase
  <2>2. e \in EndPoint
    BY <1>1, <2>1
  <2>3. Concerns(h.object, e) => Alike(n.endPoint, e)
    BY <2>1, <2>2 DEF Alike, EndPoint
  <2>4. \A j \in 1 .. Len(EndPoints) : Alike(EndPoints'[j], EndPoints[j])
    BY <2>1 DEF Alike
  <2>5. Concerns(h.object, e) => n.idx = h.idx /\ n.length = Len(EndPoints)
    BY <1>1, <2>1 DEF SameTask
  <2> QED BY <1>2, <1>3, <2>1, <2>3, <2>4, <2>5
<1>6. CASE PolicyWrite(t)
  <2>1. /\ h.pc = "write" /\ n.pc = "log" /\ SameTask(n, h) /\ Len(EndPoints') = Len(EndPoints)
        /\ \A i \in 1 .. Len(EndPoints) : EndPoints'[i] = IF i = h.idx THEN h.endPoint ELSE EndPoints[i]
    BY <1>6, WriteCase, Zenon
  <2>2. Alike(h.endPoint, EndPoints[h.idx])
    BY <2>1, Zenon DEF Roster, Going
  <2>3. \A e : Alike(e, e)
    BY DEF Alike
  <2>4. \A i \in 1 .. Len(EndPoints) : Alike(EndPoints'[i], EndPoints[i])
    BY <2>1, <2>2, <2>3, Zenon
  <2> QED BY <1>1, <1>2, <2>1, <2>4, Zenon DEF SameTask
<1>7. CASE PolicyLog(t)
  <2>1. /\ h.pc = "log" /\ EndPoints' = EndPoints
        /\ Passed(n, h, h.idx) \/ (n.pc = "enforce" /\ SameTask(n, h))
    BY <1>7, LogCase, Zenon
  <2>2. \A j \in 1 .. Len(EndPoints) : Alike(EndPoints'[j], EndPoints[j])
    BY <2>1, Zenon DEF Alike
  <2> QED BY <1>1, <1>2, <1>3, <2>1, <2>2, Zenon DEF SameTask
<1>8. CASE PolicyEnforce(t)
  BY <1>3, <1>8, EnforceCase, Zenon
<1> QED BY <1>1, <1>4, <1>5, <1>6, <1>7, <1>8, Zenon

LEMMA RosterNext ==
  ASSUME Counting, Shape, Roster, InTurn, WellFormed, PodsSteady, [Next]_vars
  PROVE  Roster'
<1>1. CASE \E p \in PodNames : PodAdded(p) \/ PodModified(p) \/ PodDeleted(p) \/ PodTombstone(p)
  BY <1>1, RosterPodStart
<1>2. CASE PodLookup \/ PodContainers \/ PodPolicies \/ PodPublish \/ PodReplace \/ PodPush \/ PodRemove
  BY <1>2, RosterPodStep
<1>3. CASE \E p \in Policies : PolicyAdded(p) \/ PolicyModified(p) \/ PolicyDeleted(p)
  BY <1>3, RosterPolicyStart
<1>4. CASE \E t \in Types : \/ PolicyLength(t) \/ PolicyCopy(t) \/ PolicyWrite(t) \/ PolicyLog(t)
                            \/ PolicyEnforce(t) \/ PolicyPanic(t)
  BY <1>4, RosterPolicyStep, Zenon
<1>5. ~Restart
  BY Zenon DEF Restart, Roster, Seen
<1>6. CASE \/ \E p \in Policies : NamespaceListFails(p)
           \/ \E c \in ContainerIDs : ContainerStart(c) \/ ContainerDestroy(c)
           \/ ContainerLookup \/ ContainerRegister \/ ContainerPush \/ ContainerUnregister
           \/ UNCHANGED vars
  <2>1. UNCHANGED <<podCache, K8sPods, panicked, EndPoints, pod, policy>>
    BY <1>6, Zenon DEF NamespaceListFails, ContainerStart, ContainerDestroy, ContainerLookup, ContainerRegister, ContainerPush,
       ContainerUnregister, RuntimeStep, cluster, handlers, vars
  <2> QED BY <2>1, RosterSame
<1> QED BY <1>1, <1>2, <1>3, <1>4, <1>5, <1>6 DEF Next
-----------------------------------------------------------------------------
(* Confinement.  Every copy of an endpoint, in dm.EndPoints or in a handler, has the      *)
(* policies and the identities of no namespace but its pod's, and a handler that has      *)
(* copied the endpoint at an index still finds an endpoint of the same pod there.         *)

\* The policies of S that are of a namespace are of the namespace of pod p.
InPlace(p, S) == \A q \in S : q.type = "KSP" => q.namespaceName = NamespaceOf[p]

\* Among the identities ids there is no namespace of a policy but that of pod p.
Apart(p, ids) ==
  \A q \in Policies : q.type = "KSP" /\ q.namespaceName \in ids => q.namespaceName = NamespaceOf[p]

Confined(e) ==
  /\ e.ContainerID \in Owned(e.EndPointName)
  /\ Apart(e.EndPointName, e.Identities)
  /\ InPlace(e.EndPointName, ToSet(e.SecurityPolicies))

RulesIn(R) == \A p \in PodNames : \A id \in Owned(p) : InPlace(p, R[id])
ListIn(s) == \A e \in ToSet(s) : Confined(e)
PodIn == ListIn(pod.endpoints) /\ (pod.pc # "idle" => InPlace(pod.name, ToSet(pod.policies)))
HandlerIn(h, s) ==
  /\ h.pc \in {"write", "log", "enforce"} =>
       Confined(h.endPoint) /\ h.idx \in 1 .. Len(s) /\ s[h.idx].EndPointName = h.endPoint.EndPointName
  /\ h.pc = "enforce" => Confined(h.torn) /\ s[h.idx].EndPointName = h.torn.EndPointName
RuntimeIn == crt.endPoint # NoEndPoint => Confined(crt.endPoint)

Confinement ==
  /\ RulesIn(Rules) /\ ListIn(EndPoints) /\ PodIn /\ RuntimeIn
  /\ \A t \in Types : HandlerIn(policy[t], EndPoints)

LEMMA WithinSubset ==
  ASSUME NEW A, NEW s \in Seq(A), NEW r \in Seq(A), Within(r, s)
  PROVE  ToSet(r) \subseteq ToSet(s)
<1>1. PICK f \in [1 .. Len(r) -> 1 .. Len(s)] : \A k \in 1 .. Len(r) : r[k] = s[f[k]]
  BY DEF Within
<1>2. \A k \in 1 .. Len(r) : f[k] \in 1 .. Len(s)
  OBVIOUS
<1>3. /\ \A x : x \in ToSet(s) <=> \E i \in 1 .. Len(s) : s[i] = x
      /\ \A x : x \in ToSet(r) <=> \E i \in 1 .. Len(r) : r[i] = x
  BY ToSetFacts, Zenon
<1> QED BY <1>1, <1>2, <1>3, Zenon

LEMMA PutSubset ==
  ASSUME NEW A, NEW s \in Seq(A), NEW r \in Seq(A), NEW x, Len(r) = Len(s),
         \A j \in 1 .. Len(s) : r[j] \in {x, s[j]}
  PROVE  ToSet(r) \subseteq ToSet(s) \cup {x}
<1>1. /\ \A y : y \in ToSet(s) <=> \E j \in 1 .. Len(s) : s[j] = y
      /\ \A y : y \in ToSet(r) <=> \E j \in 1 .. Len(r) : r[j] = y
  BY ToSetFacts, Zenon
<1> QED BY <1>1, Zenon

LEMMA SelectedIn ==
  ASSUME Namespaced, NEW q \in Policies, NEW p, NEW ids, Apart(p, ids), Selected(q.selector, NamespaceOf[p], ids)
  PROVE  q.type = "KSP" => q.namespaceName = NamespaceOf[p]
BY Zenon DEF Namespaced, Apart, Selected, MatchIdentities

LEMMA IdentitiesIn ==
  ASSUME Namespaced, NEW p, NEW v \in Versions
  PROVE  Apart(p, IdentitiesOf(p, v))
BY DEF Namespaced, Apart, IdentitiesOf

\* What UpdateSecurityPolicy makes of the list of an endpoint.
LEMMA UpdatedSubset ==
  ASSUME Counting, NEW action \in Acts, NEW p \in Policies, NEW e \in EndPoint
  PROVE  ToSet(UpdatedPolicies(action, p, e)) \subseteq
           ToSet(e.SecurityPolicies) \cup {q \in {p} : Selects(p, e)}
<1> DEFINE old == e.SecurityPolicies
           most == ToSet(old) \cup {q \in {p} : Selects(p, e)}
<1>1. old \in Seq(Policies)
  BY DEF EndPoint
<1>2. Selects(p, e) => ToSet(Append(old, p)) \subseteq most
  BY <1>1, AppendFacts
<1>3. HoldsPolicy(p, old) /\ Selects(p, e) => ToSet(WithFirst(old, SameAs(p), p)) \subseteq most
  <2> SUFFICES ASSUME HoldsPolicy(p, old), Selects(p, e) PROVE ToSet(WithFirst(old, SameAs(p), p)) \subseteq most
    OBVIOUS
  <2> DEFINE r == WithFirst(old, SameAs(p), p)
             i == FirstIn(old, SameAs(p))
  <2>1. ToSet(old) \cap SameAs(p) # {}
    BY Zenon DEF HoldsPolicy
  <2> HIDE DEF r, i, old
  <2>2. r \in Seq(Policies) /\ Len(r) = Len(old) /\ \A j \in 1 .. Len(old) : r[j] = IF j = i THEN p ELSE old[j]
    BY <1>1, <2>1, WithFacts DEF r, i
  <2>3. \A j \in 1 .. Len(old) : r[j] \in {p, old[j]}
    BY <2>2
  <2>4. ToSet(r) \subseteq ToSet(old) \cup {p}
    BY <1>1, <2>2, <2>3, PutSubset, Zenon
  <2> QED BY <2>4, Zenon DEF r
<1>4. ToSet(WithoutFirst(old, SameAs(p))) \subseteq most
  <2> DEFINE r == WithoutFirst(old, SameAs(p))
  <2>1. r \in Seq(Policies) /\ Within(r, old)
    BY <1>1, WithoutFacts
  <2> HIDE DEF r
  <2>2. ToSet(r) \subseteq ToSet(old)
    BY <1>1, <2>1, WithinSubset
  <2> QED BY <2>2, Zenon DEF r
<1>5. ToSet(old) \subseteq most
  OBVIOUS
<1> HIDE DEF most
<1>6. ToSet(AddedPolicy(p, e)) \subseteq most
  BY <1>2, <1>5 DEF AddedPolicy
<1>7. ToSet(ModifiedPolicy(p, e)) \subseteq most
  BY <1>2, <1>3, <1>4, <1>5, Zenon DEF ModifiedPolicy
<1>8. ToSet(DeletedPolicy(p, e)) \subseteq most
  BY <1>4 DEF DeletedPolicy
<1>9. ToSet(UpdatedPolicies(action, p, e)) \subseteq most
  BY <1>6, <1>7, <1>8, Zenon DEF UpdatedPolicies, Acts
<1> QED BY <1>9, Zenon DEF most

LEMMA UpdatedIn ==
  ASSUME Counting, Namespaced, NEW action \in Acts, NEW p \in Policies, NEW e \in EndPoint, Confined(e)
  PROVE  Confined([e EXCEPT !.SecurityPolicies = UpdatedPolicies(action, p, e)])
<1> DEFINE u == UpdatedPolicies(action, p, e)
           n == [e EXCEPT !.SecurityPolicies = u]
<1>1. /\ n.EndPointName = e.EndPointName /\ n.ContainerID = e.ContainerID /\ n.Identities = e.Identities
      /\ n.SecurityPolicies = u
  BY DEF EndPoint
<1>2. ToSet(u) \subseteq ToSet(e.SecurityPolicies) \cup {q \in {p} : Selects(p, e)}
  BY UpdatedSubset
<1> HIDE DEF u, n
<1>3. Selects(p, e) /\ p.type = "KSP" => p.namespaceName = NamespaceOf[e.EndPointName]
  BY SelectedIn, Zenon DEF Selects, Confined
<1>4. InPlace(e.EndPointName, ToSet(u))
  BY <1>2, <1>3, Zenon DEF InPlace, Confined
<1> QED BY <1>1, <1>4 DEF Confined, n, u

LEMMA OwnedIDs ==
  ASSUME WellFormed
  PROVE  \A q \in PodNames : \A id \in Owned(q) : id \in ContainerIDs
<1> SUFFICES ASSUME NEW q \in PodNames, NEW id \in Owned(q) PROVE id \in ContainerIDs
  OBVIOUS
<1>1. PICK k \in DOMAIN PodHistory[q] : id \in DOMAIN PodHistory[q][k].containers
  BY Zenon DEF Owned
<1>2. PodHistory[q][k] \in Versions
  BY <1>1, VersionOf
<1> QED BY <1>1, <1>2 DEF WellFormed

LEMMA OwnedOfVersion ==
  ASSUME NEW p \in PodNames, NEW v, \E k \in DOMAIN PodHistory[p] : v = PodHistory[p][k],
         NEW id \in DOMAIN v.containers
  PROVE  id \in Owned(p)
BY Zenon DEF Owned

LEMMA PodEndPointIn ==
  ASSUME Counting, Namespaced, NEW p \in PodNames, NEW v, \E k \in DOMAIN PodHistory[p] : v = PodHistory[p][k],
         NEW id \in DOMAIN v.containers, NEW ps \in Seq(Policies), InPlace(p, ToSet(ps))
  PROVE  Confined(PodEndPoint(p, v, id, ps))
<1> DEFINE e == PodEndPoint(p, v, id, ps)
           S == {q \in Policies : SelectsContainer(q, v.containers[id])}
<1>1. /\ e.EndPointName = p /\ e.ContainerID = id /\ e.Identities = IdentitiesOf(p, v)
      /\ e.SecurityPolicies = Kept(ps, S)
  BY Zenon DEF PodEndPoint
<1>2. id \in Owned(p) /\ v \in Versions
  BY OwnedOfVersion, VersionOf, Zenon
<1>3. ToSet(Kept(ps, S)) \subseteq ToSet(ps)
  BY KeptFacts
<1> HIDE DEF e, S
<1>4. Apart(p, IdentitiesOf(p, v))
  BY <1>2, IdentitiesIn, Zenon
<1>5. InPlace(p, ToSet(Kept(ps, S)))
  BY <1>3 DEF InPlace
<1> QED BY <1>1, <1>2, <1>4, <1>5, Zenon DEF Confined, e

LEMMA EnforcedIn ==
  ASSUME WellFormed, Namespaced, TypeOK, RulesIn(Rules), NEW e \in EndPoint, NEW p \in PodNames,
         e.ContainerID \in Owned(p), InPlace(p, ToSet(e.SecurityPolicies))
  PROVE  RulesIn(Enforced(e))
<1>1. CASE e.ContainerID \notin ContainerMap
  BY <1>1 DEF Enforced
<1>2. CASE e.ContainerID \in ContainerMap
  <2> DEFINE S == ToSet(e.SecurityPolicies)
             c == e.ContainerID
             R == [Rules EXCEPT ![c] = S]
  <2>1. Enforced(e) = R /\ c \in ContainerIDs
    BY <1>2, PoliciesOf DEF Enforced
  <2>3. \A d \in ContainerIDs : R[d] = IF d = c THEN S ELSE Rules[d]
    BY <2>1, Zenon DEF TypeOK
  <2>4. \A q \in PodNames : \A id \in Owned(q) : id \in ContainerIDs
    BY OwnedIDs, Zenon
  <2>5. \A q \in PodNames : c \in Owned(q) => InPlace(q, S)
    BY DEF Namespaced, InPlace
  <2> HIDE DEF S, c, R
  <2>6. RulesIn(R)
    BY <2>3, <2>4, <2>5, Zenon DEF RulesIn
  <2> QED BY <2>1, <2>6
<1> QED BY <1>1, <1>2

LEMMA EmptyIn == ToSet(<<>>) = {} /\ ListIn(<<>>) /\ \A p : InPlace(p, ToSet(<<>>)) /\ InPlace(p, {})
<1>1. ToSet(<<>>) = {}
  BY DEF ToSet
<1> QED BY <1>1, Zenon DEF ListIn, InPlace

LEMMA IdleIn == PodIdle.endpoints = <<>> /\ PodIdle.policies = <<>> /\ RuntimeIdle.endPoint = NoEndPoint
                /\ \A s : HandlerIn(PolicyIdle, s)
BY Zenon DEF PodIdle, RuntimeIdle, PolicyIdle, HandlerIn

\* A handler's copies stay confined while the endpoints keep their places.
LEMMA SlotsStay ==
  ASSUME NEW s, NEW r, Len(s) \in Nat, Len(r) \in Nat, NEW h, HandlerIn(h, s),
         \A i \in 1 .. Len(s) : i \in 1 .. Len(r) /\ r[i].EndPointName = s[i].EndPointName
  PROVE  HandlerIn(h, r)
BY Zenon DEF HandlerIn

LEMMA ConfinedStart ==
  ASSUME Shape, Confinement, NEW p \in PodNames,
         PodAdded(p) \/ PodModified(p) \/ PodDeleted(p) \/ PodTombstone(p)
  PROVE  Confinement'
<1>1. UNCHANGED <<EndPoints, Rules, policy, crt>>
  BY Zenon DEF PodAdded, PodModified, PodDeleted, PodTombstone, handlers, enforcer
<1>2. pod' = pod \/ (pod'.endpoints = <<>> /\ pod'.policies = <<>>)
  <2>1. CASE PodAdded(p)
    BY <2>1, Zenon DEF PodAdded, PodIdle
  <2>2. CASE PodModified(p)
    BY <2>2, Zenon DEF PodModified, PodIdle
  <2>3. CASE PodDeleted(p)
    BY <2>3, Zenon DEF PodDeleted, PodIdle
  <2>4. CASE PodTombstone(p)
    BY <2>4, Zenon DEF PodTombstone, handlers
  <2> QED BY <2>1, <2>2, <2>3, <2>4
<1>3. PodIn'
  <2>1. CASE pod' = pod
    BY <2>1 DEF Confinement, PodIn
  <2>2. CASE pod'.endpoints = <<>> /\ pod'.policies = <<>>
    <3>1. ListIn(pod'.endpoints) /\ InPlace(pod'.name, ToSet(pod'.policies))
      BY <2>2, EmptyIn, Zenon
    <3> QED BY <3>1 DEF PodIn
  <2> QED BY <1>2, <2>1, <2>2, Zenon
<1> QED BY <1>1, <1>3 DEF Confinement, RuntimeIn

LEMMA ConfinedPodStep ==
  ASSUME Counting, WellFormed, Namespaced, PodsStay, Shape, Confinement,
         PodLookup \/ PodContainers \/ PodPolicies \/ PodPublish \/ PodReplace \/ PodPush \/ PodRemove
  PROVE  Confinement'
<1>0. /\ TypeOK /\ PodRun /\ pod \in PodHandler /\ EndPoints \in Seq(EndPoint) /\ Len(EndPoints) \in Nat
      /\ SecurityPolicies \in Seq(Policies) /\ policy \in [Types -> PolicyHandler]
  BY DEF Shape, TypeOK
<1>1. UNCHANGED <<policy, crt>> /\ pod.pc # "idle" /\ pod.name \in PodNames
  BY <1>0, Zenon DEF PodLookup, PodContainers, PodPolicies, PodPublish, PodReplace, PodPush, PodRemove, PodStep, PodRun
<1>2. pod.pc # "remove" => pod.version \in Versions /\ \E k \in DOMAIN PodHistory[pod.name] : pod.version = PodHistory[pod.name][k]
  <2>1. pod.pc # "remove" => \E k \in DOMAIN PodHistory[pod.name] : pod.version = PodHistory[pod.name][k]
    <3>1. pod.pc # "remove" => pod.pc \in {"lookup", "containers", "policies", "publish", "push"}
      BY <1>0, <1>1 DEF PodHandler
    <3> QED BY <1>0, <3>1, Zenon DEF PodRun
  <2> QED BY <1>1, <2>1, VersionOf
<1>3. RulesIn(Rules) /\ ListIn(EndPoints) /\ ListIn(pod.endpoints) /\ InPlace(pod.name, ToSet(pod.policies))
  BY <1>1 DEF Confinement, PodIn
<1>4. RuntimeIn' /\ \A t \in Types : HandlerIn(policy[t], EndPoints)
  BY <1>1 DEF Confinement, RuntimeIn
<1> DEFINE Handlers2 == \A t \in Types : HandlerIn(policy[t], EndPoints')
           Goal == RulesIn(Rules') /\ ListIn(EndPoints') /\ PodIn' /\ Handlers2
<1>5. ASSUME PodLookup PROVE Goal
  <2> DEFINE i == FirstIn(EndPoints, OfPod)
             new == IF i = 0 THEN <<>> ELSE <<EndPoints[i]>>
  <2>1. ListIn(new)
    <3>1. CASE i = 0
      BY <3>1, EmptyIn, Zenon
    <3>2. CASE i # 0
      <4>1. EndPoints[i] \in ToSet(EndPoints)
        <5>1. i \in 1 .. Len(EndPoints)
          BY <1>0, <3>2, FirstFacts, Zenon
        <5> QED BY <1>0, <5>1, ToSetFacts, Zenon
      <4> DEFINE e == EndPoints[i]
      <4> HIDE DEF i, e
      <4>2. ToSet(<<e>>) = {e}
        BY DEF ToSet
      <4> QED BY <1>3, <3>2, <4>1, <4>2 DEF ListIn, e
    <3> QED BY <3>1, <3>2
  <2>2. pod' = [pod EXCEPT !.pc = "containers", !.added = (i = 0), !.endpoints = new] /\ UNCHANGED <<EndPoints, Rules>>
    BY <1>5 DEF PodLookup
  <2> HIDE DEF new, i
  <2>3. pod'.endpoints = new /\ pod'.name = pod.name /\ pod'.policies = pod.policies
    BY <1>0, <2>2 DEF PodHandler
  <2> QED BY <1>3, <1>4, <2>1, <2>2, <2>3 DEF PodIn
<1>6. ASSUME PodContainers PROVE Goal
  <2>1. pod' = [pod EXCEPT !.pc = "policies"] /\ UNCHANGED <<EndPoints, Rules>>
    BY <1>6 DEF PodContainers
  <2>2. pod'.endpoints = pod.endpoints /\ pod'.name = pod.name /\ pod'.policies = pod.policies
    BY <1>0, <2>1 DEF PodHandler
  <2> QED BY <1>3, <1>4, <2>1, <2>2 DEF PodIn
<1>7. ASSUME PodPolicies PROVE Goal
  <2> DEFINE ids == IdentitiesOf(pod.name, pod.version)
             S == {q \in Policies : Selected(q.selector, NamespaceOf[pod.name], ids)}
             ps == Kept(SecurityPolicies, S)
  <2>1. pod' = [pod EXCEPT !.pc = "publish", !.policies = ps] /\ UNCHANGED <<EndPoints, Rules>> /\ pod.pc = "policies"
    BY <1>7 DEF PodPolicies, PodStep, GetSecurityPolicies
  <2>2. ToSet(ps) \subseteq S
    BY <1>0, KeptFacts, Zenon
  <2>3. Apart(pod.name, ids)
    BY <1>2, <2>1, IdentitiesIn
  <2>4. InPlace(pod.name, S)
    <3> HIDE DEF ids
    <3> QED BY <2>3, SelectedIn, Zenon DEF InPlace
  <2>5. pod'.endpoints = pod.endpoints /\ pod'.name = pod.name /\ pod'.policies = ps
    BY <1>0, <2>1 DEF PodHandler
  <2> HIDE DEF ps, S
  <2> QED BY <1>3, <1>4, <2>1, <2>2, <2>4, <2>5 DEF PodIn, InPlace
<1>8. ASSUME PodPublish PROVE Goal
  <2>1. PICK ids \in Orders(DOMAIN pod.version.containers) :
          LET new == [i \in DOMAIN ids |-> PodEndPoint(pod.name, pod.version, ids[i], pod.policies)]
          IN  /\ EndPoints' = EndPoints \o new
              /\ pod' = IF ids = <<>> THEN PodIdle ELSE [pod EXCEPT !.pc = "push", !.endpoints = new]
    BY <1>8, Zenon DEF PodPublish
  <2> DEFINE new == [i \in DOMAIN ids |-> PodEndPoint(pod.name, pod.version, ids[i], pod.policies)]
  <2>2. pod.pc = "publish" /\ UNCHANGED Rules /\ pod.policies \in Seq(Policies) /\ pod.version \in Versions
    <3>1. pod.pc = "publish" /\ UNCHANGED Rules
      BY <1>8, Zenon DEF PodPublish, PodStep
    <3>2. pod.policies \in Seq(Policies)
      BY <1>0, Zenon DEF PodHandler
    <3> QED BY <1>2, <3>1, <3>2
  <2>3. new \in Seq(EndPoint) /\ Len(new) = Len(ids) /\ ids \in Seq(DOMAIN pod.version.containers)
    BY <1>1, <2>2, PublishType
  <2>4. \A i \in DOMAIN ids : ids[i] \in DOMAIN pod.version.containers
    BY <2>3, ToSetFacts, Zenon
  <2>5. \A i \in DOMAIN ids : Confined(new[i])
    BY <1>1, <1>2, <1>3, <2>2, <2>4, PodEndPointIn, Zenon
  <2>6. DOMAIN new = DOMAIN ids
    OBVIOUS
  <2>7. EndPoints' = EndPoints \o new /\ pod' = IF ids = <<>> THEN PodIdle ELSE [pod EXCEPT !.pc = "push", !.endpoints = new]
    BY <2>1
  <2> HIDE DEF new
  <2>8. ListIn(new)
    BY <2>5, <2>6, Zenon DEF ListIn, ToSet
  <2>9. ListIn(EndPoints')
    BY <1>0, <1>3, <2>3, <2>7, <2>8, ConcatFacts DEF ListIn
  <2>10. Handlers2
    <3>1. /\ Len(EndPoints') \in Nat
          /\ \A i \in 1 .. Len(EndPoints) : i \in 1 .. Len(EndPoints') /\ EndPoints'[i].EndPointName = EndPoints[i].EndPointName
      BY <1>0, <2>3, <2>7, ConcatFacts
    <3> QED BY <1>0, <1>4, <3>1, SlotsStay
  <2>11. PodIn'
    <3>1. CASE ids = <<>>
      BY <2>7, <3>1, EmptyIn, IdleIn DEF PodIn
    <3>2. CASE ids # <<>>
      <4>1. pod'.endpoints = new /\ pod'.name = pod.name /\ pod'.policies = pod.policies
        BY <1>0, <2>7, <3>2 DEF PodHandler
      <4> QED BY <1>3, <2>8, <4>1, Zenon DEF PodIn
    <3> QED BY <3>1, <3>2
  <2> QED BY <1>3, <2>2, <2>9, <2>10, <2>11
<1>9. ASSUME PodReplace PROVE Goal
  <2>1. /\ pod.pc = "publish" /\ UNCHANGED <<Rules, EndPoints>> /\ pod.policies \in Seq(Policies)
    BY <1>0, <1>9, Zenon DEF PodReplace, PodStep, PodHandler
  <2>2. CASE pod' = [pod EXCEPT !.pc = "push"]
    <3>1. pod'.endpoints = pod.endpoints /\ pod'.name = pod.name /\ pod'.policies = pod.policies
      BY <1>0, <2>2 DEF PodHandler
    <3> QED BY <1>3, <1>4, <2>1, <3>1, Zenon DEF PodIn
  <2>3. ASSUME NEW id \in DOMAIN pod.version.containers,
               pod' = [pod EXCEPT !.pc = "push", !.endpoints = <<PodEndPoint(pod.name, pod.version, id, pod.policies)>>]
        PROVE  Goal
    <3> DEFINE e == PodEndPoint(pod.name, pod.version, id, pod.policies)
    <3>1. Confined(e)
      BY <1>1, <1>2, <1>3, <2>1, PodEndPointIn, Zenon
    <3> HIDE DEF e
    <3>2. pod'.endpoints = <<e>> /\ pod'.name = pod.name /\ pod'.policies = pod.policies
      BY <1>0, <2>3 DEF PodHandler, e
    <3>3. ToSet(<<e>>) = {e}
      BY DEF ToSet
    <3>4. ListIn(<<e>>)
      BY <3>1, <3>3 DEF ListIn
    <3> QED BY <1>3, <1>4, <2>1, <3>2, <3>4, Zenon DEF PodIn
  <2> QED BY <1>9, <2>2, <2>3, Zenon DEF PodReplace
<1>10. ASSUME PodPush PROVE Goal
  <2>1. /\ pod.pc = "push" /\ pod.endpoints # <<>> /\ pod.endpoints \in Seq(EndPoint) /\ UNCHANGED EndPoints
    BY <1>0, <1>10, Zenon DEF PodPush, PodStep, PodRun, PodHandler
  <2> DEFINE e == Head(pod.endpoints)
  <2>2. e \in EndPoint /\ Tail(pod.endpoints) \in Seq(EndPoint)
    BY <2>1, HeadFacts, Zenon
  <2>3. e \in ToSet(pod.endpoints) /\ ToSet(Tail(pod.endpoints)) \subseteq ToSet(pod.endpoints)
    <3> DEFINE s == pod.endpoints
    <3>1. 1 \in DOMAIN s /\ Head(s) = s[1] /\ \A i \in DOMAIN Tail(s) : i + 1 \in DOMAIN s /\ Tail(s)[i] = s[i + 1]
      BY <2>1, HeadFacts
    <3> QED BY <3>1 DEF ToSet
  <2> HIDE DEF e
  <2>4. /\ Rules' = IF Enforceable(e) THEN Enforced(e) ELSE Rules
        /\ pod' = IF Len(pod.endpoints) = 1 THEN PodIdle ELSE [pod EXCEPT !.endpoints = Tail(@)]
    BY <1>10, Zenon DEF PodPush, e
  <2>5. Confined(e) /\ ListIn(Tail(pod.endpoints))
    BY <1>3, <2>3 DEF ListIn
  <2>6. RulesIn(Rules')
    <3>1. e.EndPointName \in PodNames
      BY <2>2, PoliciesOf
    <3> QED BY <1>0, <1>3, <2>2, <2>4, <2>5, <3>1, EnforcedIn DEF Confined
  <2>7. PodIn'
    <3>1. CASE Len(pod.endpoints) = 1
      BY <2>4, <3>1, EmptyIn, IdleIn, Zenon DEF PodIn
    <3>2. CASE Len(pod.endpoints) # 1
      <4>1. pod'.endpoints = Tail(pod.endpoints) /\ pod'.name = pod.name /\ pod'.policies = pod.policies
        BY <1>0, <2>4, <3>2, Zenon DEF PodHandler
      <4> QED BY <1>3, <2>5, <4>1 DEF PodIn
    <3> QED BY <3>1, <3>2
  <2> QED BY <1>3, <1>4, <2>1, <2>6, <2>7, Zenon
<1>11. ASSUME PodRemove PROVE Goal
  <2>1. /\ pod.pc = "remove" /\ EndPoints' = Kept(EndPoints, ToSet(EndPoints) \ OfPod) /\ pod' = PodIdle
        /\ UNCHANGED Rules
    BY <1>11, Zenon DEF PodRemove, PodStep
  <2>2. ListIn(EndPoints')
    <3>1. ToSet(EndPoints') \subseteq ToSet(EndPoints)
      BY <1>0, <2>1, KeptFacts
    <3> QED BY <1>3, <3>1, Zenon DEF ListIn
  <2>3. \A t \in Types : policy[t].pc = "idle"
    <3> SUFFICES ASSUME NEW t \in Types, policy[t].pc # "idle" PROVE FALSE
      BY Zenon
    <3>1. "podDelete" \in Events
      BY <1>0, <2>1, Zenon DEF PodRun
    <3>2. {"pod", t} \subseteq Overlap
      <4>1. Running("pod") /\ Running(t) /\ "pod" \in Handlers /\ t \in Handlers /\ t # "pod"
        BY <2>1, Zenon DEF Running, Handlers, Types
      <4> QED BY <4>1, Zenon DEF Shape, Turns
    <3> QED BY <3>1, <3>2 DEF PodsStay
  <2>4. Handlers2
    BY <2>3 DEF HandlerIn
  <2>5. PodIn'
    BY <2>1, EmptyIn, IdleIn, Zenon DEF PodIn
  <2> QED BY <1>3, <2>1, <2>2, <2>4, <2>5
<1>12. Goal
  BY <1>5, <1>6, <1>7, <1>8, <1>9, <1>10, <1>11
<1> QED BY <1>1, <1>4, <1>12, Zenon DEF Confinement

LEMMA ConfinedPolicyStart ==
  ASSUME WellFormed, Shape, Confinement, NEW p \in Policies,
         PolicyAdded(p) \/ PolicyModified(p) \/ PolicyDeleted(p) \/ NamespaceListFails(p)
  PROVE  Confinement'
<1>0. policy \in [Types -> PolicyHandler] /\ p.type \in Types
  BY Zenon DEF Shape, TypeOK, WellFormed
<1>1. CASE NamespaceListFails(p)
  BY <1>1, Zenon DEF NamespaceListFails, handlers, enforcer, Confinement, PodIn, RuntimeIn
<1>2. CASE PolicyAdded(p) \/ PolicyModified(p) \/ PolicyDeleted(p)
  <2>1. PICK action \in Acts : PolicyEvent(action, p, policyCache')
    BY <1>2, EventFacts
  <2> DEFINE h == [PolicyIdle EXCEPT !.pc = "length", !.action = action, !.object = p]
  <2>2. UNCHANGED <<EndPoints, Rules, pod, crt>> /\ policy' = [policy EXCEPT ![p.type] = h]
    BY <2>1 DEF PolicyEvent, enforcer
  <2>3. h.pc = "length"
    BY Zenon DEF PolicyIdle
  <2> HIDE DEF h
  <2>4. \A t \in Types : policy'[t] = IF t = p.type THEN h ELSE policy[t]
    BY <1>0, <2>2
  <2>5. \A t \in Types : HandlerIn(policy'[t], EndPoints)
    BY <2>3, <2>4, Zenon DEF Confinement, HandlerIn
  <2> QED BY <2>2, <2>5 DEF Confinement, PodIn, RuntimeIn
<1> QED BY <1>1, <1>2

\* The handler that goes on to the next endpoint holds no copy.
LEMMA NextIndexIn ==
  ASSUME NEW h \in PolicyHandler, h.object \in Policies, h.action \in Acts, h.idx \in 0 .. h.length, NEW s
  PROVE  HandlerIn(NextIndex(h), s)
<1>1. NextIndex(h).pc \in {"idle", "copy"}
  BY NextIndexFacts, IdleFacts, Zenon
<1> QED BY <1>1, Zenon DEF HandlerIn

LEMMA ConfinedPolicyStep ==
  ASSUME Counting, WellFormed, Namespaced, Shape, Confinement, NEW t \in Types,
         PolicyLength(t) \/ PolicyCopy(t) \/ PolicyWrite(t) \/ PolicyLog(t) \/ PolicyEnforce(t) \/ PolicyPanic(t)
  PROVE  Confinement'
<1> DEFINE h == policy[t]
<1>0. /\ TypeOK /\ h \in PolicyHandler /\ PolicyRun(h, t) /\ EndPoints \in Seq(EndPoint) /\ Len(EndPoints) \in Nat
      /\ h.length \in Nat /\ h.idx \in Nat /\ policy \in [Types -> PolicyHandler]
  <2>1. TypeOK /\ PolicyRun(h, t)
    BY Zenon DEF Shape
  <2>2. policy \in [Types -> PolicyHandler] /\ EndPoints \in Seq(EndPoint)
    BY <2>1 DEF TypeOK
  <2>3. h \in PolicyHandler
    BY <2>2, Zenon
  <2>4. h.length \in Nat /\ h.idx \in Nat
    BY <2>3, Zenon DEF PolicyHandler
  <2> QED BY <2>1, <2>2, <2>3, <2>4
<1>1. UNCHANGED <<pod, crt>> /\ h.pc # "idle"
  BY DEF PolicyLength, PolicyCopy, PolicyWrite, PolicyLog, PolicyEnforce, PolicyPanic, PolicyStep
<1>2. h.object \in Policies /\ h.action \in Acts
  BY <1>0, <1>1, Zenon DEF PolicyRun
<1>3. h.pc \in {"copy", "write", "log", "enforce"} => h.idx \in 1 .. h.length /\ h.idx \in 0 .. h.length
  BY <1>0, RunIndex
<1>4. InRange(t) /\ h.pc \in {"copy", "write", "log", "enforce"} =>
        h.idx \in 1 .. Len(EndPoints) /\ EndPoints[h.idx] \in EndPoint /\ Confined(EndPoints[h.idx])
  <2>1. InRange(t) /\ h.pc \in {"copy", "write", "log", "enforce"} =>
          h.idx \in 1 .. Len(EndPoints) /\ EndPoints[h.idx] \in EndPoint
    BY <1>0, <1>3 DEF InRange
  <2>2. \A i \in 1 .. Len(EndPoints) : Confined(EndPoints[i])
    BY <1>0, ToSetFacts, Zenon DEF Confinement, ListIn
  <2> QED BY <2>1, <2>2, Zenon
<1>5. RulesIn(Rules) /\ ListIn(EndPoints) /\ PodIn' /\ RuntimeIn' /\ \A u \in Types : HandlerIn(policy[u], EndPoints)
  BY <1>1, Zenon DEF Confinement, PodIn, RuntimeIn
<1> DEFINE Goal(n) == /\ policy' = [policy EXCEPT ![t] = n] /\ HandlerIn(n, EndPoints')
                      /\ \A u \in Types : HandlerIn(policy[u], EndPoints')
                      /\ RulesIn(Rules') /\ ListIn(EndPoints')
<1>6. ASSUME PolicyLength(t) PROVE \E n : Goal(n)
  <2> DEFINE g == [h EXCEPT !.length = Len(EndPoints)]
  <2>1. /\ policy' = [policy EXCEPT ![t] = NextIndex(g)] /\ h.pc = "length" /\ UNCHANGED <<EndPoints, Rules>>
    BY <1>6 DEF PolicyLength, PolicyStep
  <2>2. g \in PolicyHandler /\ g.object = h.object /\ g.action = h.action /\ g.idx = h.idx /\ g.length = Len(EndPoints)
    BY <1>0, Zenon DEF PolicyHandler
  <2>3. g.idx \in 0 .. g.length
    BY <1>0, <2>1, <2>2 DEF PolicyRun
  <2> HIDE DEF g
  <2>4. HandlerIn(NextIndex(g), EndPoints)
    BY <1>2, <2>2, <2>3, NextIndexIn, Zenon
  <2>5. Goal(NextIndex(g))
    BY <1>5, <2>1, <2>4, Zenon
  <2> QED BY <2>5, Zenon
<1>7. ASSUME PolicyCopy(t) PROVE \E n : Goal(n)
  <2> DEFINE e == EndPoints[h.idx]
             x == [e EXCEPT !.SecurityPolicies = UpdatedPolicies(h.action, h.object, e)]
             g == [h EXCEPT !.pc = "write", !.endPoint = x]
  <2>1. /\ policy' = [policy EXCEPT ![t] = IF Concerns(h.object, e) THEN g ELSE NextIndex(h)]
        /\ h.pc = "copy" /\ InRange(t) /\ UNCHANGED <<EndPoints, Rules>>
    BY <1>7 DEF PolicyCopy, PolicyStep
  <2>2. e \in EndPoint /\ Confined(e) /\ h.idx \in 1 .. Len(EndPoints)
    BY <1>4, <2>1
  <2>3. Confined(x)
    BY <1>2, <2>2, UpdatedIn
  <2>4. x.EndPointName = e.EndPointName
    BY <2>2 DEF EndPoint
  <2>5. HandlerIn(g, EndPoints)
    <3> HIDE DEF x
    <3>1. g.pc = "write" /\ g.endPoint = x /\ g.idx = h.idx
      BY <1>0 DEF PolicyHandler
    <3> HIDE DEF g
    <3> QED BY <2>2, <2>3, <2>4, <3>1, Zenon DEF HandlerIn
  <2>6. HandlerIn(NextIndex(h), EndPoints)
    BY <1>0, <1>2, <1>3, <2>1, NextIndexIn
  <2> HIDE DEF g, h, e
  <2>7. Goal(g) \/ Goal(NextIndex(h))
    BY <1>5, <2>1, <2>5, <2>6, Zenon
  <2> QED BY <2>7
<1>8. ASSUME PolicyWrite(t) PROVE \E n : Goal(n)
  <2> DEFINE g == [h EXCEPT !.pc = "log"]
  <2>1. /\ h.pc = "write" /\ InRange(t) /\ UNCHANGED Rules
        /\ EndPoints' = [EndPoints EXCEPT ![h.idx] = h.endPoint] /\ policy' = [policy EXCEPT ![t].pc = "log"]
    BY <1>8 DEF PolicyWrite, PolicyStep
  <2>2. policy' = [policy EXCEPT ![t] = g]
    BY <2>1
  <2>3. /\ h.idx \in 1 .. Len(EndPoints) /\ h.endPoint \in EndPoint /\ Confined(h.endPoint)
        /\ EndPoints[h.idx].EndPointName = h.endPoint.EndPointName
    BY <1>0, <1>4, <1>5, <2>1 DEF PolicyRun, HandlerIn
  <2>4. /\ Len(EndPoints') = Len(EndPoints) /\ ToSet(EndPoints') \subseteq ToSet(EndPoints) \cup {h.endPoint}
        /\ \A j \in 1 .. Len(EndPoints) : EndPoints'[j] = IF j = h.idx THEN h.endPoint ELSE EndPoints[j]
    <3> DEFINE i == h.idx
               x == h.endPoint
    <3>1. EndPoints' = [EndPoints EXCEPT ![i] = x] /\ i \in 1 .. Len(EndPoints) /\ x \in EndPoint
      BY <2>1, <2>3
    <3> HIDE DEF i, x
    <3>2. /\ EndPoints' \in Seq(EndPoint) /\ Len(EndPoints') = Len(EndPoints)
          /\ \A j \in 1 .. Len(EndPoints) : EndPoints'[j] = IF j = i THEN x ELSE EndPoints[j]
      BY <1>0, <3>1
    <3>3. \A j \in 1 .. Len(EndPoints) : EndPoints'[j] \in {x, EndPoints[j]}
      BY <3>2
    <3>4. ToSet(EndPoints') \subseteq ToSet(EndPoints) \cup {x}
      BY <1>0, <3>2, <3>3, PutSubset, Zenon
    <3> QED BY <3>2, <3>4, Zenon DEF i, x
  <2>5. ListIn(EndPoints')
    BY <1>5, <2>3, <2>4, Zenon DEF ListIn
  <2>6. \A u \in Types : HandlerIn(policy[u], EndPoints')
    <3> HIDE DEF h
    <3> QED BY <1>0, <1>5, <2>3, <2>4, SlotsStay, Zenon
  <2>7. HandlerIn(g, EndPoints')
    <3>1. g.pc = "log" /\ g.endPoint = h.endPoint /\ g.idx = h.idx
      BY <1>0 DEF PolicyHandler
    <3>2. EndPoints'[h.idx] = h.endPoint /\ h.idx \in 1 .. Len(EndPoints')
      BY <2>3, <2>4, Zenon
    <3> HIDE DEF g
    <3> QED BY <2>3, <3>1, <3>2, Zenon DEF HandlerIn
  <2>8. Goal(g)
    BY <1>5, <2>1, <2>2, <2>5, <2>6, <2>7, Zenon
  <2> QED BY <2>8, Zenon
<1>9. ASSUME PolicyLog(t) PROVE \E n : Goal(n)
  <2> DEFINE e == EndPoints[h.idx]
             g == [h EXCEPT !.pc = "enforce", !.torn = e]
  <2>1. /\ h.pc = "log" /\ InRange(t) /\ UNCHANGED <<EndPoints, Rules>>
        /\ policy' = [policy EXCEPT ![t] = IF Enforceable(e) THEN g ELSE NextIndex(h)]
    BY <1>9 DEF PolicyLog, PolicyStep
  <2>2. Confined(e) /\ Confined(h.endPoint) /\ h.idx \in 1 .. Len(EndPoints) /\ e.EndPointName = h.endPoint.EndPointName
    BY <1>4, <1>5, <2>1 DEF HandlerIn
  <2>3. HandlerIn(g, EndPoints)
    <3>1. g.pc = "enforce" /\ g.endPoint = h.endPoint /\ g.idx = h.idx /\ g.torn = e
      BY <1>0 DEF PolicyHandler
    <3> HIDE DEF g
    <3> QED BY <2>2, <3>1, Zenon DEF HandlerIn
  <2>4. HandlerIn(NextIndex(h), EndPoints)
    BY <1>0, <1>2, <1>3, <2>1, NextIndexIn
  <2> HIDE DEF g, h, e
  <2>5. Goal(g) \/ Goal(NextIndex(h))
    BY <1>5, <2>1, <2>3, <2>4, Zenon
  <2> QED BY <2>5
<1>10. ASSUME PolicyEnforce(t) PROVE \E n : Goal(n)
  <2> DEFINE e == EndPoints[h.idx]
             x == [h.torn EXCEPT !.SecurityPolicies = e.SecurityPolicies]
  <2>1. /\ h.pc = "enforce" /\ InRange(t) /\ UNCHANGED EndPoints
        /\ Rules' = Enforced(x) /\ policy' = [policy EXCEPT ![t] = NextIndex(h)]
    BY <1>10 DEF PolicyEnforce, PolicyStep
  <2>2. /\ e \in EndPoint /\ Confined(e) /\ h.torn \in EndPoint /\ Confined(h.torn)
        /\ e.EndPointName = h.torn.EndPointName
    BY <1>0, <1>4, <1>5, <2>1 DEF PolicyRun, HandlerIn
  <2>3. x \in EndPoint /\ x.ContainerID = h.torn.ContainerID /\ x.SecurityPolicies = e.SecurityPolicies
    <3>1. e.SecurityPolicies \in Seq(Policies)
      BY <2>2, PoliciesOf, Zenon
    <3> HIDE DEF e
    <3> QED BY <2>2, <3>1 DEF EndPoint
  <2>4. e.EndPointName \in PodNames
    BY <2>2, PoliciesOf, Zenon
  <2> HIDE DEF x, e
  <2>5. RulesIn(Rules')
    <3> DEFINE p == h.torn.EndPointName
    <3>1. p \in PodNames /\ x.ContainerID \in Owned(p) /\ InPlace(p, ToSet(x.SecurityPolicies))
      BY <2>2, <2>3, <2>4, Zenon DEF Confined
    <3> HIDE DEF p
    <3>2. RulesIn(Enforced(x))
      BY <1>0, <1>5, <2>3, <3>1, EnforcedIn, Zenon
    <3> QED BY <2>1, <3>2
  <2>6. HandlerIn(NextIndex(h), EndPoints)
    BY <1>0, <1>2, <1>3, <2>1, NextIndexIn, Zenon
  <2>7. Goal(NextIndex(h))
    BY <1>5, <2>1, <2>5, <2>6, Zenon
  <2> QED BY <2>7, Zenon
<1>11. ASSUME PolicyPanic(t) PROVE \E n : Goal(n)
  <2>1. UNCHANGED <<policy, EndPoints, Rules>>
    BY <1>11, Zenon DEF PolicyPanic
  <2>2. Goal(h)
    BY <1>0, <1>5, <2>1
  <2> QED BY <2>2, Zenon
<1>12. PICK n : Goal(n)
  BY <1>6, <1>7, <1>8, <1>9, <1>10, <1>11, Zenon
<1>13. \A u \in Types : policy'[u] = IF u = t THEN n ELSE policy[u]
  BY <1>0, <1>12
<1>14. \A u \in Types : HandlerIn(policy'[u], EndPoints')
  BY <1>12, <1>13, Zenon
<1> QED BY <1>5, <1>12, <1>14, Zenon DEF Confinement

LEMMA ConfinedRuntime ==
  ASSUME Counting, WellFormed, Namespaced, Shape, Confinement,
         \/ \E c \in ContainerIDs : ContainerStart(c) \/ ContainerDestroy(c)
         \/ ContainerLookup \/ ContainerRegister \/ ContainerPush \/ ContainerUnregister
  PROVE  Confinement'
<1>0. TypeOK /\ crt \in RuntimeHandler /\ EndPoints \in Seq(EndPoint) /\ RuntimeRun
  BY DEF Shape, TypeOK
<1>1. UNCHANGED <<EndPoints, pod, policy>>
  BY Zenon DEF ContainerStart, ContainerDestroy, ContainerLookup, ContainerRegister, ContainerPush, ContainerUnregister, RuntimeStep
<1>2. RulesIn(Rules) /\ ListIn(EndPoints) /\ RuntimeIn
  BY Zenon DEF Confinement
<1> DEFINE Goal == RulesIn(Rules') /\ RuntimeIn'
<1>3. ASSUME NEW c, RulesIn(Rules), Rules' = [Rules EXCEPT ![c] = {}] PROVE RulesIn(Rules')
  <2>1. \A d : Rules'[d] = Rules[d] \/ Rules'[d] = {} \/ d \notin ContainerIDs
    BY <1>0, <1>3 DEF TypeOK
  <2>2. \A q \in PodNames : \A id \in Owned(q) : id \in ContainerIDs
    BY OwnedIDs, Zenon
  <2> QED BY <1>3, <2>1, <2>2, EmptyIn, Zenon DEF RulesIn
<1>4. ASSUME NEW c \in ContainerIDs, ContainerStart(c) \/ ContainerDestroy(c) PROVE Goal
  <2>1. UNCHANGED Rules
    BY <1>4, Zenon DEF ContainerStart, ContainerDestroy, enforcer
  <2>2. crt'.endPoint \in {crt.endPoint, NoEndPoint}
    BY <1>4, Zenon DEF ContainerStart, ContainerDestroy, RuntimeIdle
  <2> QED BY <1>2, <2>1, <2>2 DEF RuntimeIn
<1>5. ASSUME ContainerLookup PROVE Goal
  <2> DEFINE i == FirstIn(EndPoints, {e \in ToSet(EndPoints) : e.ContainerID = crt.id})
             x == IF i = 0 \/ Shadowed THEN NoEndPoint ELSE EndPoints[i]
  <2>1. i # 0 => EndPoints[i] \in ToSet(EndPoints)
    BY <1>0, FirstFacts, ToSetFacts
  <2>2. x # NoEndPoint => Confined(x)
    BY <1>2, <2>1, Zenon DEF ListIn
  <2>3. crt' = [crt EXCEPT !.pc = "register", !.endPoint = x] /\ UNCHANGED Rules
    BY <1>5 DEF ContainerLookup, enforcer
  <2> HIDE DEF x
  <2>4. crt'.endPoint = x
    BY <1>0, <2>3 DEF RuntimeHandler
  <2> QED BY <1>2, <2>2, <2>3, <2>4, Zenon DEF RuntimeIn
<1>6. ASSUME ContainerRegister PROVE Goal
  <2>1. Rules' = [Rules EXCEPT ![crt.id] = {}] /\ crt' \in {RuntimeIdle, [crt EXCEPT !.pc = "push"]}
    BY <1>6 DEF ContainerRegister
  <2>2. crt'.endPoint \in {crt.endPoint, NoEndPoint}
    BY <1>0, <2>1, IdleIn DEF RuntimeHandler
  <2> QED BY <1>2, <1>3, <2>1, <2>2, Zenon DEF RuntimeIn
<1>7. ASSUME ContainerPush PROVE Goal
  <2>1. crt.endPoint \in EndPoint /\ crt' = RuntimeIdle /\ Rules' \in {Rules, Enforced(crt.endPoint)}
    BY <1>0, <1>7, Zenon DEF ContainerPush, RuntimeStep, RuntimeRun
  <2>2. Confined(crt.endPoint) /\ crt.endPoint.EndPointName \in PodNames
    BY <1>2, <2>1, PoliciesOf, Zenon DEF RuntimeIn, WellFormed
  <2>3. RulesIn(Enforced(crt.endPoint))
    <3> DEFINE x == crt.endPoint
    <3>1. x \in EndPoint /\ x.EndPointName \in PodNames /\ x.ContainerID \in Owned(x.EndPointName)
          /\ InPlace(x.EndPointName, ToSet(x.SecurityPolicies))
      BY <2>1, <2>2, Zenon DEF Confined
    <3> HIDE DEF x
    <3>2. RulesIn(Enforced(x))
      BY <1>0, <1>2, <3>1, EnforcedIn
    <3> QED BY <3>2, Zenon DEF x
  <2> QED BY <1>2, <2>1, <2>3, IdleIn, Zenon DEF RuntimeIn
<1>8. ASSUME ContainerUnregister PROVE Goal
  <2>1. Rules' = [Rules EXCEPT ![crt.id] = {}] /\ crt' = RuntimeIdle
    BY <1>8 DEF ContainerUnregister
  <2> QED BY <1>2, <1>3, <2>1, IdleIn, Zenon DEF RuntimeIn
<1>9. Goal
  BY <1>4, <1>5, <1>6, <1>7, <1>8, Zenon
<1> QED BY <1>1, <1>9, Zenon DEF Confinement, PodIn

LEMMA ConfinedEmpty ==
  ASSUME Rules = [c \in ContainerIDs |-> {}], EndPoints = <<>>, pod = PodIdle, policy = [t \in Types |-> PolicyIdle],
         crt = RuntimeIdle, WellFormed
  PROVE  Confinement
<1>1. RulesIn(Rules)
  <2>1. \A q \in PodNames : \A id \in Owned(q) : id \in ContainerIDs
    BY OwnedIDs
  <2> QED BY <2>1, EmptyIn DEF RulesIn
<1>2. PodIn /\ ListIn(EndPoints)
  BY EmptyIn, IdleIn, IdleFacts, Zenon DEF PodIn
<1> QED BY <1>1, <1>2, IdleIn DEF Confinement, RuntimeIn

LEMMA ConfinedRestart == WellFormed /\ Restart => Confinement'
<1> SUFFICES ASSUME WellFormed, Restart PROVE Confinement'
  BY Zenon
<1>1. RulesIn(Rules')
  <2>1. \A q \in PodNames : \A id \in Owned(q) : id \in ContainerIDs
    BY OwnedIDs
  <2> QED BY <2>1, EmptyIn DEF RulesIn, Restart
<1>2. PodIn' /\ ListIn(EndPoints')
  BY EmptyIn, IdleIn, IdleFacts, Zenon DEF PodIn, Restart
<1>3. RuntimeIn' /\ \A t \in Types : HandlerIn(policy'[t], EndPoints')
  BY IdleIn, Zenon DEF RuntimeIn, Restart
<1> QED BY <1>1, <1>2, <1>3 DEF Confinement

LEMMA ConfinedAlways ==
  ASSUME Counting, WellFormed, Namespaced, PodsStay
  PROVE  Spec => []Confinement
<1>1. Init => Confinement
  BY ConfinedEmpty, Zenon DEF Init
<1>2. Shape /\ Confinement /\ [Next]_vars => Confinement'
  <2> SUFFICES ASSUME Shape, Confinement, [Next]_vars PROVE Confinement'
    BY Zenon
  <2>1. CASE UNCHANGED vars
    BY <2>1 DEF vars, handlers, enforcer, Confinement, PodIn, RuntimeIn
  <2> QED BY <2>1, ConfinedStart, ConfinedPodStep, ConfinedPolicyStart, ConfinedPolicyStep, ConfinedRestart,
             ConfinedRuntime DEF Next
<1> QED BY <1>1, <1>2, ShapeInit, ShapeNext, PTL DEF Spec
=============================================================================

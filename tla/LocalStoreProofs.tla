-------------------------- MODULE LocalStoreProofs --------------------------
(***************************************************************************)
(* Proofs about one clone, for every number of notes, objects, revisions   *)
(* and source trees.                                                       *)
(***************************************************************************)
EXTENDS LocalStore, SequenceTheorems, FiniteSetTheorems, WellFoundedInduction, TLAPS

-----------------------------------------------------------------------------
(* Counting.                                                               *)

\* A set of numbers has a least one.
LEMMA LeastNumber ==
    ASSUME NEW T \in SUBSET Nat, T # {}
    PROVE  \E x \in T : \A y \in T : x <= y
<1> DEFINE R == {ss \in Nat \X Nat : ss[1] < ss[2]}
<1>1. IsWellFoundedOn(R, Nat)
  BY NatLessThanWellFounded DEF OpToRel
<1>2. \A x, y \in Nat : <<x, y>> \in R <=> x < y
  OBVIOUS
<1> HIDE DEF R
<1>3. PICK x \in T : \A y \in T : <<y, x>> \notin R
  BY <1>1, WFMin
<1>4. ASSUME NEW y \in T
      PROVE  x <= y
  <2>1. x \in Nat /\ y \in Nat
    OBVIOUS
  <2>2. ~(y < x)
    BY <1>2, <1>3, <2>1
  <2> QED
    BY <2>1, <2>2
<1> QED
  BY <1>4

\* What passes from all smaller numbers to the next one holds up to the bound.
LEMMA UpTo ==
    ASSUME NEW m \in Nat, NEW S,
           \A k \in 1..m : (\A j \in 1..(k - 1) : j \in S) => k \in S
    PROVE  \A k \in 1..m : k \in S
<1> SUFFICES ASSUME NEW k \in 1..m, k \notin S
             PROVE  FALSE
  OBVIOUS
<1> DEFINE T == {j \in 1..m : j \notin S}
<1>1. T \in SUBSET Nat /\ T # {}
  OBVIOUS
<1>2. \A j \in 1..m : j \in T <=> j \notin S
  OBVIOUS
<1>3. \A j \in T : j \in 1..m
  OBVIOUS
<1> HIDE DEF T
<1>4. PICK x \in T : \A y \in T : x <= y
  BY <1>1, LeastNumber
<1>5. x \in 1..m
  BY <1>3
<1>6. ASSUME NEW j \in 1..(x - 1)
      PROVE  j \in S
  <2>1. j \in 1..m /\ ~(x <= j)
    BY <1>5
  <2> QED
    BY <1>2, <1>4, <2>1
<1> QED
  BY <1>2, <1>5, <1>6

-----------------------------------------------------------------------------
(* Chains.                                                                 *)

\* Snapshots in the order they were written: parents, at most two of them,
\* come before their children.
IsHistory(objs) ==
    /\ objs \in Seq(Members(objs))
    /\ \A i \in DOMAIN objs : /\ objs[i].parents \in Seq(1..(i - 1))
                              /\ Len(objs[i].parents) \in 0..2

\* A chain that satisfies its definition up to m.
Defines(objs, m, f) == f = [i \in 1..m |-> ChainOf(objs, f, i)]

\* The chain of an object only depends on those of its parents.
LEMMA ChainOfParents ==
    ASSUME NEW objs, IsHistory(objs), NEW i \in DOMAIN objs, NEW f, NEW g,
           \A j \in 1..(i - 1) : f[j] = g[j]
    PROVE  ChainOf(objs, f, i) = ChainOf(objs, g, i)
<1>0. PICK ps : ps = objs[i].parents
  OBVIOUS
<1>1. ps \in Seq(1..(i - 1)) /\ Len(ps) \in 0..2
  BY <1>0 DEF IsHistory
<1>2. CASE Len(ps) = 0
  BY <1>0, <1>2 DEF ChainOf
<1>3. CASE Len(ps) = 1
  <2>1. ps[1] \in 1..(i - 1)
    BY <1>1, <1>3
  <2>2. f[ps[1]] = g[ps[1]]
    BY <2>1
  <2> QED
    BY <1>0, <1>3, <2>2 DEF ChainOf
<1>4. CASE Len(ps) = 2
  <2>0. 1 \in 1..Len(ps) /\ 2 \in 1..Len(ps)
    BY <1>4
  <2>1. ps[1] \in 1..(i - 1) /\ ps[2] \in 1..(i - 1)
    BY ONLY <1>1, <2>0, ElementOfSeq
  <2>2. f[ps[1]] = g[ps[1]] /\ f[ps[2]] = g[ps[2]]
    BY <2>1
  <2> QED
    BY <1>0, <1>4, <2>2 DEF ChainOf
<1> QED
  BY <1>1, <1>2, <1>3, <1>4

LEMMA ChainsExist ==
    ASSUME NEW objs, IsHistory(objs)
    PROVE  \E f : Defines(objs, Len(objs), f)
<1>0. Len(objs) \in Nat /\ DOMAIN objs = 1..Len(objs)
  BY DEF IsHistory
<1> DEFINE S == {k \in 1..(Len(objs) + 1) : \E f : Defines(objs, k - 1, f)}
<1>1. ASSUME NEW k \in 1..(Len(objs) + 1), \A j \in 1..(k - 1) : j \in S
      PROVE  k \in S
  <2>1. CASE k = 1
    <3>1. Defines(objs, 0, [i \in 1..0 |-> 0])
      BY DEF Defines
    <3> QED
      BY <1>0, <2>1, <3>1
  <2>2. CASE k > 1
    <3>1. k - 1 \in S
      <4>1. k - 1 \in 1..(k - 1)
        BY <1>0, <2>2
      <4> HIDE DEF S
      <4> QED
        BY <1>1, <4>1
    <3>2. PICK f : Defines(objs, k - 2, f)
      BY <1>0, <2>2, <3>1
    <3> DEFINE g == [i \in 1..(k - 1) |-> IF i = k - 1 THEN ChainOf(objs, f, k - 1)
                                                       ELSE f[i]]
    <3>3. \A i \in 1..(k - 2) : g[i] = f[i] /\ f[i] = ChainOf(objs, f, i)
      BY <1>0, <2>2, <3>2 DEF Defines
    <3>4. g[k - 1] = ChainOf(objs, f, k - 1)
      BY <1>0, <2>2
    <3>5. g = [i \in 1..(k - 1) |-> g[i]]
      OBVIOUS
    <3> HIDE DEF g
    <3>6. ASSUME NEW i \in 1..(k - 1)
          PROVE  g[i] = ChainOf(objs, g, i)
      <4>0. i \in DOMAIN objs
        BY <1>0, <2>2
      <4>1. \A j \in 1..(i - 1) : g[j] = f[j]
        BY <1>0, <2>2, <3>3
      <4>2. ChainOf(objs, g, i) = ChainOf(objs, f, i)
        BY ONLY IsHistory(objs), <4>0, <4>1, ChainOfParents
      <4> QED
        BY <1>0, <2>2, <3>3, <3>4, <4>2
    <3>7. Defines(objs, k - 1, g)
      BY <3>5, <3>6 DEF Defines
    <3> QED
      BY <3>7
  <2> QED
    BY <1>0, <2>1, <2>2
<1>2. PICK m \in Nat : m = Len(objs) + 1
  BY <1>0
<1>3. \A k \in 1..m : (\A j \in 1..(k - 1) : j \in S) => k \in S
  <2> HIDE DEF S
  <2> QED
    BY <1>1, <1>2
<1>4. \A k \in 1..m : k \in S
  <2> HIDE DEF S
  <2> QED
    BY ONLY m \in Nat, <1>3, UpTo
<1>5. Len(objs) + 1 \in S
  <2> HIDE DEF S
  <2> QED
    BY <1>0, <1>2, <1>4
<1> QED
  BY <1>0, <1>5

\* Every object of a history has the chain its definition says.
LEMMA ChainsAreDefined ==
    ASSUME NEW objs, IsHistory(objs)
    PROVE  /\ DOMAIN Chains(objs) = DOMAIN objs
           /\ \A i \in DOMAIN objs : Chains(objs)[i] = ChainOf(objs, Chains(objs), i)
<1>1. DOMAIN objs = 1..Len(objs)
  BY DEF IsHistory
<1> DEFINE P(f) == f = [i \in DOMAIN objs |-> ChainOf(objs, f, i)]
<1>2. \E f : P(f)
  BY <1>1, ChainsExist DEF Defines
<1>3. Chains(objs) = CHOOSE f : P(f)
  BY DEF Chains
<1>4. P(Chains(objs))
  BY <1>2, <1>3
<1> QED
  BY <1>4
-----------------------------------------------------------------------------
(* What a sequence keeps without the members seen before.                  *)

\* The first k members of a sequence, without the ones seen before.
Keep(s, seen, f, k) ==
    IF k = 0 THEN <<>>
    ELSE IF s[k] \in seen THEN f[k - 1] ELSE Append(f[k - 1], s[k])
Keeps(s, seen, m, f) == f = [k \in 0..m |-> Keep(s, seen, f, k)]

LEMMA KeepsExist ==
    ASSUME NEW s, NEW seen, NEW m \in Nat
    PROVE  \E f : Keeps(s, seen, m, f)
<1> DEFINE S == {k \in 1..(m + 1) : \E f : Keeps(s, seen, k - 1, f)}
<1>1. ASSUME NEW k \in 1..(m + 1), \A j \in 1..(k - 1) : j \in S
      PROVE  k \in S
  <2>1. CASE k = 1
    <3> DEFINE g == [j \in 0..0 |-> <<>>]
    <3>1. g = [j \in 0..0 |-> Keep(s, seen, g, j)]
      BY DEF Keep
    <3>2. Keeps(s, seen, 0, g)
      BY <3>1 DEF Keeps
    <3> QED
      BY <2>1, <3>2
  <2>2. CASE k > 1
    <3>1. k - 1 \in S
      <4>1. k - 1 \in 1..(k - 1)
        BY <2>2
      <4> HIDE DEF S
      <4> QED
        BY <1>1, <4>1
    <3>2. PICK f : Keeps(s, seen, k - 2, f)
      BY <2>2, <3>1
    <3> DEFINE g == [i \in 0..(k - 1) |-> IF i = k - 1 THEN Keep(s, seen, f, k - 1)
                                                        ELSE f[i]]
    <3>3. \A i \in 0..(k - 2) : g[i] = f[i] /\ f[i] = Keep(s, seen, f, i)
      BY <2>2, <3>2 DEF Keeps
    <3>4. g[k - 1] = Keep(s, seen, f, k - 1)
      BY <2>2
    <3>5. g = [i \in 0..(k - 1) |-> g[i]]
      OBVIOUS
    <3> HIDE DEF g
    <3>6. ASSUME NEW i \in 0..(k - 1)
          PROVE  g[i] = Keep(s, seen, g, i)
      <4>1. i # 0 => g[i - 1] = f[i - 1]
        BY <2>2, <3>3
      <4>2. Keep(s, seen, g, i) = Keep(s, seen, f, i)
        BY <4>1 DEF Keep
      <4> QED
        BY <2>2, <3>3, <3>4, <4>2
    <3>7. Keeps(s, seen, k - 1, g)
      BY <3>5, <3>6 DEF Keeps
    <3> QED
      BY <3>7
  <2> QED
    BY <2>1, <2>2
<1>2. PICK n \in Nat : n = m + 1
  OBVIOUS
<1>3. \A k \in 1..n : (\A j \in 1..(k - 1) : j \in S) => k \in S
  <2> HIDE DEF S
  <2> QED
    BY <1>1, <1>2
<1>4. m + 1 \in S
  <2> HIDE DEF S
  <2>1. \A k \in 1..n : k \in S
    BY ONLY n \in Nat, <1>3, UpTo
  <2> QED
    BY <1>2, <2>1
<1> QED
  BY <1>4

\* What is left of the first m members of a sequence: each of them that was
\* not seen, in their order.
LeftOf(s, seen, m, w) ==
    /\ w \in Seq(Members(s))
    /\ \A k \in 1..Len(w) :
          \E i \in 1..m :
             /\ w[k] = s[i] /\ s[i] \notin seen
             /\ \A j \in 1..(i - 1) :
                   s[j] \in seen \/ \E h \in 1..(k - 1) : w[h] = s[j]
    /\ \A i \in 1..m : s[i] \in seen \/ \E k \in 1..Len(w) : w[k] = s[i]

\* A sequence with one more member.
Appended(S, s, e, a) ==
    /\ a \in Seq(S \union {e})
    /\ Len(s) \in Nat /\ Len(a) = Len(s) + 1
    /\ \A k \in 1..Len(s) : a[k] = s[k]
    /\ a[Len(s) + 1] = e
    /\ Members(a) = Members(s) \union {e}

LEMMA AppendMember ==
    ASSUME NEW S, NEW s \in Seq(S), NEW e
    PROVE  Appended(S, s, e, Append(s, e))
<1>1. PICK T : T = S \union {e}
  OBVIOUS
<1>2. s \in Seq(T) /\ e \in T
  BY <1>1, SeqMonotonic
<1>3. PICK a : a = Append(s, e)
  OBVIOUS
<1>4. /\ a \in Seq(T) /\ Len(s) \in Nat
      /\ Len(a) = Len(s) + 1
      /\ \A k \in 1..Len(s) : a[k] = s[k]
      /\ a[Len(s) + 1] = e
  BY <1>2, <1>3
<1>5. DOMAIN a = 1..(Len(s) + 1) /\ DOMAIN s = 1..Len(s)
  BY <1>2, <1>4
<1>6. Members(a) = Members(s) \union {e}
  BY <1>4, <1>5 DEF Members
<1>7. Appended(S, s, e, a)
  BY <1>1, <1>4, <1>6 DEF Appended
<1> QED
  BY <1>3, <1>7

LEMMA WithoutSeen ==
    ASSUME NEW S, NEW s \in Seq(S), NEW seen
    PROVE  LeftOf(s, seen, Len(s), Without(s, seen))
<1>0. Len(s) \in Nat /\ DOMAIN s = 1..Len(s)
  OBVIOUS
<1> DEFINE P(g) == g = [k \in 0..Len(s) |->
                          IF k = 0 THEN <<>>
                          ELSE IF s[k] \in seen THEN g[k - 1]
                               ELSE Append(g[k - 1], s[k])]
<1>1. \A g : P(g) <=> Keeps(s, seen, Len(s), g)
  BY DEF Keeps, Keep
<1>2. Without(s, seen) = (CHOOSE h : P(h))[Len(s)]
  BY DEF Without
<1> HIDE DEF P
<1>3. PICK g : Keeps(s, seen, Len(s), g) /\ Without(s, seen) = g[Len(s)]
  <2>1. \E g : P(g)
    BY <1>0, <1>1, KeepsExist
  <2> QED
    BY <1>1, <1>2, <2>1
<1>10. \A k \in 0..Len(s) : g[k] = Keep(s, seen, g, k)
  BY <1>0, <1>3 DEF Keeps
<1>4. g[0] = <<>>
  BY <1>0, <1>10 DEF Keep
<1>5. \A k \in 1..Len(s) :
         g[k] = IF s[k] \in seen THEN g[k - 1] ELSE Append(g[k - 1], s[k])
  <2> TAKE k \in 1..Len(s)
  <2>1. k \in 0..Len(s) /\ k # 0
    BY <1>0
  <2> QED
    BY <1>10, <2>1 DEF Keep
<1> DEFINE T == {k \in 1..(Len(s) + 1) : LeftOf(s, seen, k - 1, g[k - 1])}
<1>6. ASSUME NEW k \in 1..(Len(s) + 1), \A j \in 1..(k - 1) : j \in T
      PROVE  k \in T
  <2>1. CASE k = 1
    <3>1. LeftOf(s, seen, 0, <<>>)
      BY DEF LeftOf
    <3> QED
      BY <1>0, <1>4, <2>1, <3>1
  <2>2. CASE k > 1
    <3>1. k - 1 \in T
      BY <1>0, <1>6, <2>2
    <3>2. PICK m \in 1..Len(s) : m = k - 1
      BY <1>0, <2>2
    <3>3. LeftOf(s, seen, m - 1, g[m - 1])
      BY <1>0, <2>2, <3>1, <3>2
    <3>4. PICK w : w = g[m - 1]
      OBVIOUS
    <3>5. LeftOf(s, seen, m, g[m])
      <4>0. m \in Nat /\ s[m] \in Members(s)
        BY <1>0, <3>2 DEF Members
      <4>1. CASE s[m] \in seen
        <5>1. g[m] = w
          BY <1>5, <3>4, <4>1
        <5>2. LeftOf(s, seen, m, w)
          <6>1. LeftOf(s, seen, m - 1, w)
            BY <3>3, <3>4
          <6>2. \A i \in 1..m : i \in 1..(m - 1) \/ i = m
            BY <4>0
          <6>3. \A i \in 1..(m - 1) : i \in 1..m
            BY <4>0
          <6> QED
            BY ONLY <4>1, <6>1, <6>2, <6>3 DEF LeftOf
        <5> QED
          BY <5>1, <5>2
      <4>2. CASE s[m] \notin seen
        <5>0. w \in Seq(Members(s)) /\ Len(w) \in Nat
          BY <3>3, <3>4 DEF LeftOf
        <5>1. PICK v : v = Append(w, s[m])
          OBVIOUS
        <5>2. /\ v \in Seq(Members(s)) /\ Len(v) = Len(w) + 1
              /\ \A i \in 1..Len(w) : v[i] = w[i]
              /\ v[Len(w) + 1] = s[m]
          BY <4>0, <5>0, <5>1
        <5>3. g[m] = v
          BY <1>5, <3>4, <4>2, <5>1
        <5>4. ASSUME NEW i \in 1..m
              PROVE  s[i] \in seen \/ \E h \in 1..Len(v) : v[h] = s[i]
          <6>1. CASE i = m
            BY <5>0, <5>2, <6>1
          <6>2. CASE i < m
            <7>1. i \in 1..(m - 1)
              BY <4>0, <6>2
            <7>2. s[i] \in seen \/ \E h \in 1..Len(w) : w[h] = s[i]
              BY <3>3, <3>4, <7>1 DEF LeftOf
            <7> QED
              BY <5>0, <5>2, <7>2
          <6> QED
            BY <4>0, <6>1, <6>2
        <5>5. ASSUME NEW h \in 1..Len(v)
              PROVE  \E i \in 1..m :
                        /\ v[h] = s[i] /\ s[i] \notin seen
                        /\ \A j \in 1..(i - 1) :
                              s[j] \in seen \/ \E q \in 1..(h - 1) : v[q] = s[j]
          <6>1. CASE h = Len(w) + 1
            <7>1. \A j \in 1..(m - 1) :
                     s[j] \in seen \/ \E q \in 1..(h - 1) : v[q] = s[j]
              <8>1. \A j \in 1..(m - 1) :
                       s[j] \in seen \/ \E q \in 1..Len(w) : w[q] = s[j]
                BY <3>3, <3>4 DEF LeftOf
              <8> QED
                BY <5>0, <5>2, <6>1, <8>1
            <7> QED
              BY <4>0, <4>2, <5>2, <6>1, <7>1
          <6>2. CASE h # Len(w) + 1
            <7>1. h \in 1..Len(w)
              BY <5>0, <5>2, <6>2
            <7>2. PICK i \in 1..(m - 1) :
                     /\ w[h] = s[i] /\ s[i] \notin seen
                     /\ \A j \in 1..(i - 1) :
                           s[j] \in seen \/ \E q \in 1..(h - 1) : w[q] = s[j]
              <8>1. LeftOf(s, seen, m - 1, w)
                BY <3>3, <3>4
              <8> QED
                BY <7>1, <8>1, Zenon DEF LeftOf
            <7>3. \A q \in 1..(h - 1) : v[q] = w[q]
              BY <5>0, <5>2, <7>1
            <7>4. i \in 1..m
              BY <4>0
            <7>5. v[h] = s[i]
              BY <5>2, <7>1, <7>2
            <7> QED
              BY <7>2, <7>3, <7>4, <7>5
          <6> QED
            BY <6>1, <6>2
        <5>6. LeftOf(s, seen, m, v)
          BY <5>2, <5>4, <5>5 DEF LeftOf
        <5> QED
          BY <5>3, <5>6
      <4> QED
        BY <4>1, <4>2
    <3>6. k \in 1..(Len(s) + 1) /\ k - 1 = m
      BY <3>2
    <3> QED
      BY <3>5, <3>6
  <2> QED
    BY <1>0, <2>1, <2>2
<1>7. PICK n \in Nat : n = Len(s) + 1
  BY <1>0
<1>8. Len(s) + 1 \in T
  <2> HIDE DEF T
  <2>1. \A k \in 1..n : (\A j \in 1..(k - 1) : j \in T) => k \in T
    BY <1>6, <1>7
  <2>2. \A k \in 1..n : k \in T
    BY ONLY n \in Nat, <2>1, UpTo
  <2> QED
    BY <1>0, <1>7, <2>2
<1>9. LeftOf(s, seen, Len(s), g[Len(s)])
  BY <1>0, <1>8
<1> QED
  BY <1>3, <1>9

-----------------------------------------------------------------------------
(* Ancestry.                                                               *)

Parents(objs, i) == Members(objs[i].parents)
Ancestors(objs, ids) == UNION {History(objs, p) : p \in ids}

\* The members of a sequence.
LEMMA MembersOfSeq ==
    ASSUME NEW S, NEW s \in Seq(S)
    PROVE  /\ Members(s) \subseteq S
           /\ s \in Seq(Members(s))
           /\ \A e : e \in Members(s) <=> \E k \in 1..Len(s) : s[k] = e
<1>1. Len(s) \in Nat /\ DOMAIN s = 1..Len(s) /\ \A k \in 1..Len(s) : s[k] \in S
  BY ElementOfSeq
<1>2. \A e : e \in Members(s) <=> \E k \in 1..Len(s) : s[k] = e
  BY <1>1 DEF Members
<1> HIDE DEF Members
<1>3. \A k \in 1..Len(s) : s[k] \in Members(s)
  BY <1>2
<1>4. s \in Seq(Members(s))
  BY <1>1, <1>3
<1> QED
  BY <1>1, <1>2, <1>4

LEMMA MembersOfConcat ==
    ASSUME NEW S, NEW s \in Seq(S), NEW t \in Seq(S)
    PROVE  /\ s \o t \in Seq(S)
           /\ Members(s \o t) = Members(s) \union Members(t)
<1>1. PICK c : c = s \o t
  OBVIOUS
<1>2. /\ c \in Seq(S) /\ Len(c) = Len(s) + Len(t)
      /\ Len(s) \in Nat /\ Len(t) \in Nat
      /\ \A k \in 1..Len(c) : c[k] = IF k <= Len(s) THEN s[k] ELSE t[k - Len(s)]
  BY <1>1, ConcatProperties
<1>3. /\ \A e : e \in Members(s) <=> \E k \in 1..Len(s) : s[k] = e
      /\ \A e : e \in Members(t) <=> \E k \in 1..Len(t) : t[k] = e
      /\ \A e : e \in Members(c) <=> \E k \in 1..Len(c) : c[k] = e
  BY <1>2, MembersOfSeq
<1>4. ASSUME NEW k \in 1..Len(c)
      PROVE  c[k] \in Members(s) \union Members(t)
  <2>1. CASE k <= Len(s)
    BY <1>2, <1>3, <2>1
  <2>2. CASE ~(k <= Len(s))
    <3>1. k - Len(s) \in 1..Len(t) /\ c[k] = t[k - Len(s)]
      BY <1>2, <2>2
    <3> QED
      BY <1>3, <3>1
  <2> QED
    BY <2>1, <2>2
<1>5. ASSUME NEW k \in 1..Len(s)
      PROVE  s[k] \in Members(c)
  <2>1. k \in 1..Len(c) /\ c[k] = s[k]
    BY <1>2
  <2> QED
    BY <1>3, <2>1
<1>6. ASSUME NEW k \in 1..Len(t)
      PROVE  t[k] \in Members(c)
  <2>1. PICK q \in 1..Len(c) : q = k + Len(s)
    BY <1>2
  <2>2. ~(q <= Len(s)) /\ q - Len(s) = k
    BY <1>2, <2>1
  <2>3. c[q] = t[k]
    BY <1>2, <2>2
  <2> QED
    BY <1>3, <2>3
<1>7. Members(c) \subseteq Members(s) \union Members(t)
  BY <1>3, <1>4
<1>8. Members(s) \union Members(t) \subseteq Members(c)
  BY <1>3, <1>5, <1>6
<1>9. Members(c) = Members(s) \union Members(t)
  BY ONLY <1>7, <1>8
<1> QED
  BY <1>1, <1>2, <1>9

\* What a chain is made of, given those of its parents.
LEMMA ChainStep ==
    ASSUME NEW objs, IsHistory(objs), NEW i \in DOMAIN objs,
           \A j \in 1..(i - 1) : Chain(objs, j) \in Seq(1..j)
    PROVE  /\ Chain(objs, i) \in Seq(1..i)
           /\ History(objs, i) = {i} \union Ancestors(objs, Parents(objs, i))
<1>0. i \in Nat
  BY DEF IsHistory
<1>1. PICK c : c = Chains(objs)
  OBVIOUS
<1>2. PICK ps : ps = objs[i].parents
  OBVIOUS
<1>3. ps \in Seq(1..(i - 1)) /\ Len(ps) \in 0..2
  BY <1>2 DEF IsHistory
<1>4. c[i] = ChainOf(objs, c, i)
  BY <1>1, ChainsAreDefined
<1>5. \A k \in 1..Len(ps) : ps[k] \in 1..(i - 1)
  BY ONLY <1>3, ElementOfSeq
<1>6. \A k \in 1..Len(ps) : c[ps[k]] \in Seq(1..(i - 1))
  <2> TAKE k \in 1..Len(ps)
  <2>1. PICK j \in 1..(i - 1) : j = ps[k]
    BY <1>5
  <2>2. c[j] \in Seq(1..j) /\ 1..j \subseteq 1..(i - 1)
    BY <1>0, <1>1 DEF Chain
  <2> QED
    BY <2>1, <2>2, SeqMonotonic
<1>7. \A k \in 1..Len(ps) : History(objs, ps[k]) = Members(c[ps[k]])
  BY <1>1 DEF History, Chain
<1>8. Parents(objs, i) = {ps[k] : k \in 1..Len(ps)}
  BY <1>2, <1>3 DEF Parents, Members
<1>9. 1..(i - 1) \union {i} = 1..i
  BY <1>0
<1>10. ASSUME NEW s \in Seq(1..(i - 1)), c[i] = Append(s, i),
              Members(s) = Ancestors(objs, Parents(objs, i))
       PROVE  /\ Chain(objs, i) \in Seq(1..i)
              /\ History(objs, i) = {i} \union Ancestors(objs, Parents(objs, i))
  <2>1. Appended(1..(i - 1), s, i, c[i])
    BY <1>10, AppendMember
  <2> QED
    BY <1>1, <1>9, <1>10, <2>1 DEF Chain, History, Appended
<1>11. CASE Len(ps) = 0
  <2>1. c[i] = Append(<<>>, i)
    BY <1>2, <1>4, <1>11 DEF ChainOf
  <2>2. <<>> \in Seq(1..(i - 1)) /\ Members(<<>>) = {}
    BY DEF Members
  <2>3. Ancestors(objs, Parents(objs, i)) = {}
    BY <1>8, <1>11 DEF Ancestors
  <2> QED
    BY <1>10, <2>1, <2>2, <2>3
<1>12. CASE Len(ps) = 1
  <2>1. c[i] = Append(c[ps[1]], i)
    BY <1>2, <1>4, <1>12 DEF ChainOf
  <2>2. Ancestors(objs, Parents(objs, i)) = History(objs, ps[1])
    BY <1>8, <1>12 DEF Ancestors
  <2>3. c[ps[1]] \in Seq(1..(i - 1)) /\ History(objs, ps[1]) = Members(c[ps[1]])
    BY <1>6, <1>7, <1>12
  <2> QED
    BY ONLY <1>10, <2>1, <2>2, <2>3
<1>13. CASE Len(ps) = 2
  <2>1. PICK first, second : first = c[ps[1]] /\ second = c[ps[2]]
    OBVIOUS
  <2>2. first \in Seq(1..(i - 1)) /\ second \in Seq(1..(i - 1))
    BY <1>6, <1>13, <2>1
  <2>3. PICK w : w = Without(second, Members(first))
    OBVIOUS
  <2>4. c[i] = Append(first \o w, i)
    <3>0. Len(objs[i].parents) # 0 /\ Len(objs[i].parents) # 1
      BY <1>2, <1>13
    <3>1. ChainOf(objs, c, i) = Append(c[ps[1]] \o Without(c[ps[2]], Members(c[ps[1]])), i)
      BY ONLY <3>0, <1>2 DEF ChainOf
    <3> QED
      BY <1>4, <2>1, <2>3, <3>1
  <2>5. LeftOf(second, Members(first), Len(second), w)
    BY <2>2, <2>3, WithoutSeen
  <2>6. w \in Seq(Members(second)) /\ Members(second) \subseteq 1..(i - 1)
    BY <2>2, <2>5, MembersOfSeq DEF LeftOf
  <2>7. w \in Seq(1..(i - 1))
    BY <2>6, SeqMonotonic
  <2>8. \A e : e \in Members(w) <=> (e \in Members(second) /\ e \notin Members(first))
    <3>1. \A e : e \in Members(w) <=> \E k \in 1..Len(w) : w[k] = e
      BY <2>7, MembersOfSeq
    <3>2. \A e : e \in Members(second) <=> \E k \in 1..Len(second) : second[k] = e
      BY <2>2, MembersOfSeq
    <3>3. /\ \A k \in 1..Len(w) : \E q \in 1..Len(second) :
                 w[k] = second[q] /\ second[q] \notin Members(first)
          /\ \A q \in 1..Len(second) :
                second[q] \in Members(first) \/ \E k \in 1..Len(w) : w[k] = second[q]
      BY <2>5, Zenon DEF LeftOf
    <3>4. ASSUME NEW e, e \in Members(w)
          PROVE  e \in Members(second) /\ e \notin Members(first)
      <4>1. PICK k \in 1..Len(w) : w[k] = e
        BY <3>1, <3>4
      <4>2. PICK q \in 1..Len(second) : w[k] = second[q] /\ second[q] \notin Members(first)
        BY <3>3
      <4> QED
        BY <3>2, <4>1, <4>2
    <3>5. ASSUME NEW e, e \in Members(second), e \notin Members(first)
          PROVE  e \in Members(w)
      <4>1. PICK q \in 1..Len(second) : second[q] = e
        BY <3>2, <3>5
      <4>2. PICK k \in 1..Len(w) : w[k] = second[q]
        BY <3>3, <3>5, <4>1
      <4> QED
        BY <3>1, <4>1, <4>2
    <3> QED
      BY <3>4, <3>5
  <2>9. /\ first \o w \in Seq(1..(i - 1))
        /\ Members(first \o w) = Members(first) \union Members(w)
    BY <2>2, <2>7, MembersOfConcat
  <2>10. Ancestors(objs, Parents(objs, i)) = Members(first) \union Members(second)
    <3>1. Parents(objs, i) = {ps[1], ps[2]}
      BY <1>8, <1>13
    <3> QED
      BY <1>7, <1>13, <2>1, <3>1 DEF Ancestors
  <2> QED
    BY <1>10, <2>4, <2>8, <2>9, <2>10
<1> QED
  BY <1>3, <1>11, <1>12, <1>13

LEMMA HistoryShape ==
    ASSUME NEW objs, IsHistory(objs)
    PROVE  \A i \in DOMAIN objs : 
             /\ Chain(objs, i) \in Seq(1..i)
             /\ History(objs, i) = {i} \union Ancestors(objs, Parents(objs, i))
             /\ History(objs, i) \subseteq 1..i
             /\ Parents(objs, i) \subseteq 1..(i - 1)
<1>0. Len(objs) \in Nat /\ DOMAIN objs = 1..Len(objs)
  BY DEF IsHistory
<1> DEFINE S == {i \in 1..Len(objs) : Chain(objs, i) \in Seq(1..i)}
<1>1. ASSUME NEW i \in 1..Len(objs), \A j \in 1..(i - 1) : j \in S
      PROVE  i \in S
  <2>1. \A j \in 1..(i - 1) : Chain(objs, j) \in Seq(1..j)
    BY <1>1
  <2> QED
    BY <1>0, <2>1, ChainStep
<1>2. \A i \in 1..Len(objs) : i \in S
  <2> HIDE DEF S
  <2>1. PICK m \in Nat : m = Len(objs)
    BY <1>0
  <2>2. \A i \in 1..m : (\A j \in 1..(i - 1) : j \in S) => i \in S
    BY <1>1, <2>1
  <2>3. \A i \in 1..m : i \in S
    BY ONLY m \in Nat, <2>2, UpTo
  <2> QED
    BY <2>1, <2>3
<1>3. ASSUME NEW i \in DOMAIN objs
      PROVE  /\ Chain(objs, i) \in Seq(1..i)
             /\ History(objs, i) = {i} \union Ancestors(objs, Parents(objs, i))
             /\ History(objs, i) \subseteq 1..i
             /\ Parents(objs, i) \subseteq 1..(i - 1)
  <2>1. \A j \in 1..i : Chain(objs, j) \in Seq(1..j)
    BY <1>0, <1>2
  <2>2. i \in 1..i /\ \A j \in 1..(i - 1) : j \in 1..i
    BY <1>0
  <2>3. Chain(objs, i) \in Seq(1..i)
    BY <2>1, <2>2
  <2>4. History(objs, i) = {i} \union Ancestors(objs, Parents(objs, i))
    BY <2>1, <2>2, ChainStep
  <2>5. History(objs, i) \subseteq 1..i
    BY <2>3, MembersOfSeq DEF History
  <2>6. objs[i].parents \in Seq(1..(i - 1))
    BY DEF IsHistory
  <2>7. Parents(objs, i) \subseteq 1..(i - 1)
    BY <2>6, MembersOfSeq DEF Parents
  <2> QED
    BY <2>3, <2>4, <2>5, <2>7
<1> QED
  BY <1>3

\* Objects that are written later leave the chains of the earlier ones alone.
Continues(objs, more) ==
    /\ IsHistory(objs) /\ IsHistory(more)
    /\ DOMAIN objs \subseteq DOMAIN more
    /\ \A i \in DOMAIN objs : more[i] = objs[i]

LEMMA ChainStays ==
    ASSUME NEW objs, NEW more, Continues(objs, more)
    PROVE  \A i \in DOMAIN objs : /\ Chain(more, i) = Chain(objs, i)
                                  /\ History(more, i) = History(objs, i)
<1>0. Len(objs) \in Nat /\ DOMAIN objs = 1..Len(objs)
  BY DEF Continues, IsHistory
<1> DEFINE S == {i \in 1..Len(objs) : Chains(more)[i] = Chains(objs)[i]}
<1>1. ASSUME NEW i \in 1..Len(objs), \A j \in 1..(i - 1) : j \in S
      PROVE  i \in S
  <2>1. PICK f, g : f = Chains(objs) /\ g = Chains(more)
    OBVIOUS
  <2>2. \A j \in 1..(i - 1) : f[j] = g[j]
    BY <1>1, <2>1
  <2>3. i \in DOMAIN objs /\ i \in DOMAIN more /\ more[i] = objs[i]
    BY <1>0 DEF Continues
  <2>4. f[i] = ChainOf(objs, f, i) /\ g[i] = ChainOf(more, g, i)
    BY <2>1, <2>3, ChainsAreDefined DEF Continues
  <2>5. ChainOf(more, g, i) = ChainOf(objs, g, i)
    BY ONLY <2>3 DEF ChainOf
  <2>6. ChainOf(objs, f, i) = ChainOf(objs, g, i)
    BY <2>2, <2>3, ChainOfParents DEF Continues
  <2> QED
    BY <2>1, <2>4, <2>5, <2>6
<1>2. \A i \in 1..Len(objs) : i \in S
  <2> HIDE DEF S
  <2>1. PICK m \in Nat : m = Len(objs)
    BY <1>0
  <2>2. \A i \in 1..m : (\A j \in 1..(i - 1) : j \in S) => i \in S
    BY <1>1, <2>1
  <2>3. \A i \in 1..m : i \in S
    BY ONLY m \in Nat, <2>2, UpTo
  <2> QED
    BY <2>1, <2>3
<1> QED
  BY <1>0, <1>2 DEF Chain, History

LEMMA ContinuesItself ==
    ASSUME NEW objs, IsHistory(objs)
    PROVE  Continues(objs, objs)
BY DEF Continues

\* Writing one more object.
LEMMA OneMore ==
    ASSUME NEW objs, IsHistory(objs), NEW o, NEW more, more = Append(objs, o),
           o.parents \in Seq(DOMAIN objs), Len(o.parents) \in 0..2
    PROVE  /\ Continues(objs, more)
           /\ Len(objs) \in Nat /\ Len(more) = Len(objs) + 1
           /\ DOMAIN objs = 1..Len(objs) /\ DOMAIN more = 1..(Len(objs) + 1)
           /\ more[Len(objs) + 1] = o
<1>1. objs \in Seq(Members(objs)) /\ Len(objs) \in Nat
      /\ DOMAIN objs = 1..Len(objs)
  BY DEF IsHistory
<1>2. Appended(Members(objs), objs, o, more)
  BY <1>1, AppendMember
<1>3. /\ more \in Seq(Members(objs) \union {o})
      /\ Len(more) = Len(objs) + 1
      /\ \A k \in 1..Len(objs) : more[k] = objs[k]
      /\ more[Len(objs) + 1] = o
  BY <1>2 DEF Appended
<1>4. DOMAIN more = 1..(Len(objs) + 1) /\ more \in Seq(Members(more))
  <2>1. PICK S : S = Members(objs) \union {o}
    OBVIOUS
  <2>2. more \in Seq(S)
    BY <1>3, <2>1
  <2>3. more \in Seq(Members(more))
    BY ONLY <2>2, MembersOfSeq
  <2>4. DOMAIN more = 1..Len(more)
    BY ONLY <2>2, LenProperties
  <2> QED
    BY <1>3, <2>3, <2>4
<1>5. \A i \in DOMAIN more : /\ more[i].parents \in Seq(1..(i - 1))
                             /\ Len(more[i].parents) \in 0..2
  <2> TAKE i \in DOMAIN more
  <2>1. CASE i \in 1..Len(objs)
    BY <1>1, <1>3, <2>1 DEF IsHistory
  <2>2. CASE i = Len(objs) + 1
    <3>1. more[i] = o /\ DOMAIN objs = 1..(i - 1)
      BY <1>1, <1>3, <2>2
    <3> QED
      BY <3>1
  <2> QED
    BY <1>1, <1>4, <2>1, <2>2
<1>6. IsHistory(more)
  BY <1>4, <1>5 DEF IsHistory
<1>7. DOMAIN objs \subseteq DOMAIN more
  BY <1>1, <1>4
<1> QED
  BY <1>1, <1>3, <1>4, <1>6, <1>7 DEF Continues

\* Every ancestor but the tip itself is the parent of a later ancestor.
LEMMA AncestorHasChild ==
    ASSUME NEW objs, IsHistory(objs)
    PROVE  \A t \in DOMAIN objs : \A i \in History(objs, t) :
              i # t => \E c \in History(objs, t) : i \in Parents(objs, c) /\ c > i
<1>0. Len(objs) \in Nat /\ DOMAIN objs = 1..Len(objs)
  BY DEF IsHistory
<1> DEFINE S == {t \in 1..Len(objs) : \A i \in History(objs, t) :
                   i # t => \E c \in History(objs, t) : i \in Parents(objs, c) /\ c > i}
<1>1. ASSUME NEW t \in 1..Len(objs), \A j \in 1..(t - 1) : j \in S
      PROVE  t \in S
  <2> SUFFICES ASSUME NEW i \in History(objs, t), i # t
               PROVE  \E c \in History(objs, t) : i \in Parents(objs, c) /\ c > i
    OBVIOUS
  <2>1. /\ History(objs, t) = {t} \union Ancestors(objs, Parents(objs, t))
        /\ Parents(objs, t) \subseteq 1..(t - 1)
    BY <1>0, HistoryShape
  <2>2. PICK p \in Parents(objs, t) : i \in History(objs, p)
    BY <2>1 DEF Ancestors
  <2>3. p \in 1..(t - 1) /\ p \in S
    BY <1>1, <2>1
  <2>4. CASE i = p
    BY <1>0, <2>1, <2>3, <2>4
  <2>5. CASE i # p
    <3>1. PICK c \in History(objs, p) : i \in Parents(objs, c) /\ c > i
      BY <2>2, <2>3, <2>5
    <3>2. c \in History(objs, t)
      BY <2>1 DEF Ancestors
    <3> QED
      BY <3>1, <3>2
  <2> QED
    BY <2>4, <2>5
<1>2. \A i \in 1..Len(objs) : i \in S
  <2> HIDE DEF S
  <2>1. PICK m \in Nat : m = Len(objs)
    BY <1>0
  <2>2. \A i \in 1..m : (\A j \in 1..(i - 1) : j \in S) => i \in S
    BY <1>1, <2>1
  <2>3. \A i \in 1..m : i \in S
    BY ONLY m \in Nat, <2>2, UpTo
  <2> QED
    BY <2>1, <2>3
<1> QED
  BY <1>0, <1>2

-----------------------------------------------------------------------------
(* Revision links along a chain.                                           *)

\* What the notes supersede is written in one of the objects.
Linked(objs, notes, ids) ==
    \A n \in DOMAIN notes :
       notes[n].sup # 0 =>
          \E j \in ids : /\ n \in DOMAIN objs[j].notes
                         /\ objs[j].notes[n].rev = notes[n].sup

LinkedUpTo(objs, chain, k) ==
    Linked(objs, objs[chain[k]].notes, {chain[j] : j \in 1..(k - 1)})

LinkedAlong(objs, chain) == \A k \in DOMAIN chain : LinkedUpTo(objs, chain, k)

LEMMA LinkedInMore ==
    ASSUME NEW objs, NEW notes, NEW few, NEW many,
           Linked(objs, notes, few), few \subseteq many
    PROVE  Linked(objs, notes, many)
BY DEF Linked

LEMMA LinksAppend ==
    ASSUME NEW objs, NEW S, NEW s \in Seq(S), NEW i,
           LinkedAlong(objs, s), Linked(objs, objs[i].notes, Members(s))
    PROVE  LinkedAlong(objs, Append(s, i))
<1>1. PICK a : a = Append(s, i)
  OBVIOUS
<1>2. Appended(S, s, i, a)
  BY <1>1, AppendMember
<1>3. /\ a \in Seq(S \union {i}) /\ Len(s) \in Nat /\ Len(a) = Len(s) + 1
      /\ \A k \in 1..Len(s) : a[k] = s[k]
      /\ a[Len(s) + 1] = i
  BY <1>2 DEF Appended
<1>4. DOMAIN a = 1..(Len(s) + 1) /\ DOMAIN s = 1..Len(s)
  <2>1. DOMAIN a = 1..Len(a)
    BY <1>3, LenProperties
  <2> QED
    BY <1>3, <2>1
<1>5. ASSUME NEW k \in DOMAIN a
      PROVE  LinkedUpTo(objs, a, k)
  <2>1. CASE k \in 1..Len(s)
    <3>1. {a[j] : j \in 1..(k - 1)} = {s[j] : j \in 1..(k - 1)}
      BY <1>3, <2>1
    <3>2. LinkedUpTo(objs, s, k) /\ a[k] = s[k]
      BY <1>3, <1>4, <2>1 DEF LinkedAlong
    <3> QED
      BY <3>1, <3>2 DEF LinkedUpTo
  <2>2. CASE k = Len(s) + 1
    <3>1. {a[j] : j \in 1..(k - 1)} = Members(s)
      BY <1>3, <1>4, <2>2 DEF Members
    <3> QED
      BY <1>3, <2>2, <3>1 DEF LinkedUpTo
  <2> QED
    BY <1>3, <1>4, <2>1, <2>2
<1> QED
  BY <1>1, <1>5 DEF LinkedAlong

LEMMA LinksConcat ==
    ASSUME NEW objs, NEW S, NEW s \in Seq(S), NEW t \in Seq(S),
           LinkedAlong(objs, s), LinkedAlong(objs, t)
    PROVE  LinkedAlong(objs, s \o Without(t, Members(s)))
<1>1. PICK w : w = Without(t, Members(s))
  OBVIOUS
<1>2. LeftOf(t, Members(s), Len(t), w)
  BY <1>1, WithoutSeen
<1>3. w \in Seq(S)
  BY <1>2, MembersOfSeq, SeqMonotonic DEF LeftOf
<1>4. PICK c : c = s \o w
  OBVIOUS
<1>5. /\ c \in Seq(S) /\ Len(c) = Len(s) + Len(w)
      /\ Len(s) \in Nat /\ Len(t) \in Nat /\ Len(w) \in Nat
      /\ \A k \in 1..Len(c) : c[k] = IF k <= Len(s) THEN s[k] ELSE w[k - Len(s)]
  BY <1>3, <1>4, ConcatProperties
<1>6. DOMAIN c = 1..Len(c) /\ DOMAIN s = 1..Len(s) /\ DOMAIN t = 1..Len(t)
  BY <1>5, LenProperties
<1>7. ASSUME NEW k \in DOMAIN c
      PROVE  LinkedUpTo(objs, c, k)
  <2>1. CASE k <= Len(s)
    <3>1. k \in 1..Len(s) /\ \A j \in 1..(k - 1) : j \in 1..Len(c) /\ j <= Len(s)
      BY <1>5, <1>6, <2>1
    <3>2. {c[j] : j \in 1..(k - 1)} = {s[j] : j \in 1..(k - 1)}
      BY <1>5, <3>1
    <3>3. LinkedUpTo(objs, s, k) /\ c[k] = s[k]
      BY <1>5, <1>6, <2>1, <3>1 DEF LinkedAlong
    <3> QED
      BY <3>2, <3>3 DEF LinkedUpTo
  <2>2. CASE ~(k <= Len(s))
    <3>1. PICK h \in 1..Len(w) : h = k - Len(s)
      BY <1>5, <1>6, <2>2
    <3>2. c[k] = w[h]
      BY <1>5, <1>6, <2>2, <3>1
    <3>3. PICK i \in 1..Len(t) :
             /\ w[h] = t[i]
             /\ \A j \in 1..(i - 1) :
                   t[j] \in Members(s) \/ \E q \in 1..(h - 1) : w[q] = t[j]
      BY <1>2, <3>1 DEF LeftOf
    <3>4. LinkedUpTo(objs, t, i)
      BY <1>6, <3>3 DEF LinkedAlong
    <3>5. ASSUME NEW j \in 1..(i - 1)
          PROVE  t[j] \in {c[q] : q \in 1..(k - 1)}
      <4>1. CASE t[j] \in Members(s)
        <5>1. PICK q \in 1..Len(s) : s[q] = t[j]
          BY <1>6, <4>1 DEF Members
        <5>2. q \in 1..(k - 1) /\ q \in 1..Len(c) /\ q <= Len(s)
          BY <1>5, <1>6, <2>2
        <5>3. c[q] = t[j]
          BY <1>5, <5>1, <5>2
        <5> QED
          BY <5>2, <5>3
      <4>2. CASE \E q \in 1..(h - 1) : w[q] = t[j]
        <5>1. PICK q \in 1..(h - 1) : w[q] = t[j]
          BY <4>2
        <5>2. PICK r : r = q + Len(s)
          OBVIOUS
        <5>3. /\ r \in 1..(k - 1) /\ r \in 1..Len(c)
              /\ ~(r <= Len(s)) /\ r - Len(s) = q
          BY <1>5, <1>6, <3>1, <5>2
        <5>4. c[r] = t[j]
          BY <1>5, <5>1, <5>3
        <5> QED
          BY <5>3, <5>4
      <4> QED
        BY <3>3, <4>1, <4>2
    <3>6. {t[j] : j \in 1..(i - 1)} \subseteq {c[q] : q \in 1..(k - 1)}
      BY <3>5
    <3>7. Linked(objs, objs[t[i]].notes, {c[q] : q \in 1..(k - 1)})
      BY <3>4, <3>6, LinkedInMore DEF LinkedUpTo
    <3> QED
      BY <3>2, <3>3, <3>7 DEF LinkedUpTo
  <2> QED
    BY <2>1, <2>2
<1> QED
  BY <1>1, <1>4, <1>7 DEF LinkedAlong

\* A new object continues the chains of its parents.
LEMMA LinksOfNew ==
    ASSUME NEW objs, IsHistory(objs), NEW i \in DOMAIN objs,
           \A p \in Parents(objs, i) : LinkedAlong(objs, Chain(objs, p)),
           Linked(objs, objs[i].notes, Ancestors(objs, Parents(objs, i)))
    PROVE  LinkedAlong(objs, Chain(objs, i))
<1>1. PICK c : c = Chains(objs)
  OBVIOUS
<1>2. PICK ps : ps = objs[i].parents
  OBVIOUS
<1>3. ps \in Seq(1..(i - 1)) /\ Len(ps) \in 0..2 /\ i \in Nat
  BY <1>2 DEF IsHistory
<1>4. c[i] = ChainOf(objs, c, i)
  BY <1>1, ChainsAreDefined
<1>5. Parents(objs, i) = {ps[k] : k \in 1..Len(ps)}
  BY <1>2, <1>3 DEF Parents, Members
<1>6. PICK S : S = DOMAIN objs
  OBVIOUS
<1>7. ASSUME NEW k \in 1..Len(ps)
      PROVE  /\ c[ps[k]] \in Seq(S) /\ LinkedAlong(objs, c[ps[k]])
             /\ History(objs, ps[k]) = Members(c[ps[k]])
  <2>1. PICK p \in Parents(objs, i) : p = ps[k]
    BY <1>5
  <2>2. p \in DOMAIN objs /\ 1..p \subseteq DOMAIN objs
    <3>1. Len(objs) \in Nat /\ DOMAIN objs = 1..Len(objs)
      BY DEF IsHistory
    <3>2. p \in 1..(i - 1)
      BY HistoryShape
    <3> QED
      BY <3>1, <3>2
  <2>3. Chain(objs, p) \in Seq(1..p)
    BY <2>2, HistoryShape
  <2> QED
    BY <1>1, <1>6, <2>1, <2>2, <2>3, SeqMonotonic DEF Chain, History
<1>8. CASE Len(ps) = 0
  <2>1. c[i] = Append(<<>>, i)
    BY <1>2, <1>4, <1>8 DEF ChainOf
  <2>2. PICK s : s = <<>>
    OBVIOUS
  <2>3. s \in Seq(S) /\ Members(s) = {} /\ LinkedAlong(objs, s)
    BY <2>2 DEF Members, LinkedAlong
  <2>4. Ancestors(objs, Parents(objs, i)) = {}
    BY <1>5, <1>8 DEF Ancestors
  <2>5. Linked(objs, objs[i].notes, Members(s))
    BY <2>3, <2>4
  <2> QED
    BY <1>1, <2>1, <2>2, <2>3, <2>5, LinksAppend DEF Chain
<1>9. CASE Len(ps) = 1
  <2>1. c[i] = Append(c[ps[1]], i)
    BY <1>2, <1>4, <1>9 DEF ChainOf
  <2>2. Ancestors(objs, Parents(objs, i)) = Members(c[ps[1]])
    BY <1>5, <1>7, <1>9 DEF Ancestors
  <2>3. PICK s : s = c[ps[1]]
    OBVIOUS
  <2>4. /\ s \in Seq(S) /\ LinkedAlong(objs, s)
        /\ Linked(objs, objs[i].notes, Members(s))
    BY <1>7, <1>9, <2>2, <2>3
  <2> QED
    BY <1>1, <2>1, <2>3, <2>4, LinksAppend DEF Chain
<1>10. CASE Len(ps) = 2
  <2>1. PICK first, second : first = c[ps[1]] /\ second = c[ps[2]]
    OBVIOUS
  <2>2. PICK w : w = Without(second, Members(first))
    OBVIOUS
  <2>3. c[i] = Append(first \o w, i)
    <3>0. Len(objs[i].parents) # 0 /\ Len(objs[i].parents) # 1
      BY <1>2, <1>10
    <3>1. ChainOf(objs, c, i) = Append(c[ps[1]] \o Without(c[ps[2]], Members(c[ps[1]])), i)
      BY ONLY <3>0, <1>2 DEF ChainOf
    <3> QED
      BY <1>4, <2>1, <2>2, <3>1
  <2>4. /\ first \in Seq(S) /\ LinkedAlong(objs, first)
        /\ second \in Seq(S) /\ LinkedAlong(objs, second)
        /\ History(objs, ps[1]) = Members(first)
        /\ History(objs, ps[2]) = Members(second)
    BY <1>7, <1>10, <2>1
  <2>5. PICK s : s = first \o w
    OBVIOUS
  <2>6. LinkedAlong(objs, s)
    BY <2>2, <2>4, <2>5, LinksConcat
  <2>7. LeftOf(second, Members(first), Len(second), w)
    BY <2>2, <2>4, WithoutSeen
  <2>8. w \in Seq(S)
    BY <2>4, <2>7, MembersOfSeq, SeqMonotonic DEF LeftOf
  <2>9. s \in Seq(S) /\ Members(s) = Members(first) \union Members(w)
    BY <2>4, <2>5, <2>8, MembersOfConcat
  <2>10. \A e \in Members(second) : e \in Members(first) \/ e \in Members(w)
    <3>1. \A e : e \in Members(w) <=> \E k \in 1..Len(w) : w[k] = e
      BY <2>8, MembersOfSeq
    <3>2. \A e : e \in Members(second) <=> \E k \in 1..Len(second) : second[k] = e
      BY <2>4, MembersOfSeq
    <3> QED
      BY <2>7, <3>1, <3>2 DEF LeftOf
  <2>11. Ancestors(objs, Parents(objs, i)) = Members(first) \union Members(second)
    <3>1. Parents(objs, i) = {ps[1], ps[2]}
      BY <1>5, <1>10
    <3> QED
      BY <2>4, <3>1 DEF Ancestors
  <2>12. Linked(objs, objs[i].notes, Members(s))
    BY <2>9, <2>10, <2>11, LinkedInMore
  <2> QED
    BY <1>1, <2>3, <2>5, <2>6, <2>9, <2>12, LinksAppend DEF Chain
<1> QED
  BY <1>3, <1>8, <1>9, <1>10

-----------------------------------------------------------------------------
(* Merge bases.                                                            *)

\* The distance of an ancestor over those of its children.
ChildrenOf(objs, H, i) == {c \in H : c > i /\ i \in Members(objs[c].parents)}
LeastOf(T) == CHOOSE x \in T : \A y \in T : x <= y
DistanceOf(objs, H, tip, d, i) ==
    IF i = tip THEN 0 ELSE 1 + LeastOf({d[c] : c \in ChildrenOf(objs, H, i)})

LEMMA DistanceOfChildren ==
    ASSUME NEW objs, NEW H, NEW tip, NEW i, NEW f, NEW g,
           \A c \in H : c > i => f[c] = g[c]
    PROVE  DistanceOf(objs, H, tip, f, i) = DistanceOf(objs, H, tip, g, i)
<1>1. PICK C : C = ChildrenOf(objs, H, i)
  OBVIOUS
<1>2. \A c \in C : f[c] = g[c]
  BY <1>1 DEF ChildrenOf
<1>3. {f[c] : c \in C} = {g[c] : c \in C}
  BY <1>2
<1> QED
  BY <1>1, <1>3, Zenon DEF DistanceOf

\* Distances that satisfy their definition for the ancestors above m.
Measures(objs, H, tip, m, d) ==
    d = [i \in {j \in H : j > m} |-> DistanceOf(objs, H, tip, d, i)]

LEMMA DistancesExist ==
    ASSUME NEW objs, NEW tip \in Nat, NEW H \in SUBSET (1..tip)
    PROVE  \E d : Measures(objs, H, tip, 0, d)
<1> DEFINE S == {k \in 1..(tip + 1) : \E d : Measures(objs, H, tip, tip + 1 - k, d)}
<1>1. ASSUME NEW k \in 1..(tip + 1), \A j \in 1..(k - 1) : j \in S
      PROVE  k \in S
  <2>1. CASE k = 1
    <3> DEFINE d == [i \in {j \in H : j > tip} |-> 0]
    <3>1. {j \in H : j > tip} = {}
      <4>1. \A j \in H : ~(j > tip)
        OBVIOUS
      <4> QED
        BY <4>1
    <3>2. d = [i \in {j \in H : j > tip} |-> DistanceOf(objs, H, tip, d, i)]
      BY <3>1
    <3>3. Measures(objs, H, tip, tip, d)
      BY <3>2 DEF Measures
    <3>4. tip + 1 - k = tip
      BY <2>1
    <3> QED
      BY <3>3, <3>4
  <2>2. CASE k > 1
    <3>1. PICK m \in Nat : m = tip + 1 - k
      BY <2>2
    <3>2. k - 1 \in S
      BY <1>1, <2>2
    <3>3. tip + 1 - (k - 1) = m + 1
      BY <3>1
    <3>4. PICK f : Measures(objs, H, tip, m + 1, f)
      BY <3>2, <3>3
    <3> DEFINE g == [i \in {j \in H : j > m} |->
                       IF i = m + 1 THEN DistanceOf(objs, H, tip, f, i) ELSE f[i]]
    <3>5. \A i \in H : i > m + 1 =>
             g[i] = f[i] /\ f[i] = DistanceOf(objs, H, tip, f, i)
      BY <3>1, <3>4 DEF Measures
    <3>6. m + 1 \in H => g[m + 1] = DistanceOf(objs, H, tip, f, m + 1)
      BY <3>1
    <3>7. g = [i \in {j \in H : j > m} |-> g[i]]
      OBVIOUS
    <3> HIDE DEF g
    <3>8. ASSUME NEW i \in H, i > m
          PROVE  g[i] = DistanceOf(objs, H, tip, g, i)
      <4>1. \A c \in H : c > i => g[c] = f[c]
        BY <3>1, <3>5, <3>8
      <4>2. DistanceOf(objs, H, tip, g, i) = DistanceOf(objs, H, tip, f, i)
        BY ONLY <4>1, DistanceOfChildren
      <4>3. i = m + 1 \/ i > m + 1
        BY <3>1, <3>8
      <4> QED
        BY <3>5, <3>6, <4>2, <4>3
    <3>9. Measures(objs, H, tip, m, g)
      BY <3>7, <3>8 DEF Measures
    <3> QED
      BY <3>1, <3>9
  <2> QED
    BY <2>1, <2>2
<1>2. PICK n \in Nat : n = tip + 1
  OBVIOUS
<1>3. n \in S
  <2> HIDE DEF S
  <2>1. \A k \in 1..n : (\A j \in 1..(k - 1) : j \in S) => k \in S
    BY <1>1, <1>2
  <2>2. \A k \in 1..n : k \in S
    BY ONLY n \in Nat, <2>1, UpTo
  <2> QED
    BY <1>2, <2>2
<1>4. tip + 1 - n = 0
  BY <1>2
<1> QED
  BY <1>3, <1>4

LEMMA DistancesAreNumbers ==
    ASSUME NEW objs, IsHistory(objs), NEW tip \in DOMAIN objs
    PROVE  \A i \in History(objs, tip) : Distances(objs, tip)[i] \in Nat
<1>0. tip \in Nat /\ Len(objs) \in Nat /\ DOMAIN objs = 1..Len(objs)
  BY DEF IsHistory
<1>1. PICK H : H = History(objs, tip)
  OBVIOUS
<1>2. H \in SUBSET (1..tip)
  BY <1>1, HistoryShape
<1> DEFINE P(d) == d = [i \in H |->
                          IF i = tip THEN 0
                          ELSE LET via == {d[c] : c \in {c \in H : c > i /\
                                                 i \in Members(objs[c].parents)}}
                               IN  1 + (CHOOSE x \in via : \A y \in via : x <= y)]
<1>3. {j \in H : j > 0} = H
  <2>1. \A j \in H : j > 0
    BY <1>0, <1>2
  <2> QED
    BY <2>1
<1>4. \A d : Measures(objs, H, tip, 0, d) =>
               d = [i \in H |-> DistanceOf(objs, H, tip, d, i)]
  BY <1>3 DEF Measures
<1>5. \A d : (d = [i \in H |-> DistanceOf(objs, H, tip, d, i)]) <=> P(d)
  BY DEF DistanceOf, LeastOf, ChildrenOf
<1>6. \E d : P(d)
  <2> HIDE DEF P
  <2> QED
    BY <1>0, <1>2, <1>4, <1>5, DistancesExist
<1>7. Distances(objs, tip) = CHOOSE d : P(d)
  BY <1>1 DEF Distances
<1> HIDE DEF P
<1>8. PICK d : d = Distances(objs, tip) /\ P(d)
  BY <1>6, <1>7
<1>9. \A i \in H : d[i] = DistanceOf(objs, H, tip, d, i)
  BY <1>5, <1>8
<1> DEFINE S == {k \in 1..tip : tip + 1 - k \in H => d[tip + 1 - k] \in Nat}
<1>10. ASSUME NEW k \in 1..tip, \A j \in 1..(k - 1) : j \in S
       PROVE  k \in S
  <2>1. PICK i \in 1..tip : i = tip + 1 - k
    BY <1>0
  <2>2. SUFFICES ASSUME i \in H
                 PROVE  d[i] \in Nat
    BY <2>1
  <2>3. CASE i = tip
    <3>1. d[i] = 0
      BY <1>9, <2>2, <2>3, Zenon DEF DistanceOf
    <3> QED
      BY <3>1
  <2>4. CASE i # tip
    <3>1. PICK C : C = ChildrenOf(objs, H, i)
      OBVIOUS
    <3>2. C # {}
      BY <1>1, <2>2, <2>4, <3>1, AncestorHasChild DEF Parents, ChildrenOf
    <3>3. \A c \in C : d[c] \in Nat
      <4> TAKE c \in C
      <4>1. c \in H /\ c \in 1..tip /\ c > i
        BY <1>2, <3>1 DEF ChildrenOf
      <4>2. PICK j \in 1..(k - 1) : c = tip + 1 - j
        <5>1. tip + 1 - c \in 1..(k - 1) /\ c = tip + 1 - (tip + 1 - c)
          BY <1>0, <2>1, <4>1
        <5> QED
          BY <5>1
      <4>3. j \in S
        BY <1>10
      <4> QED
        BY <4>1, <4>2, <4>3
    <3>4. PICK V : V = {d[c] : c \in C}
      OBVIOUS
    <3>5. V \in SUBSET Nat /\ V # {}
      BY <3>2, <3>3, <3>4
    <3>6. LeastOf(V) \in Nat
      BY <3>5, LeastNumber DEF LeastOf
    <3>7. d[i] = 1 + LeastOf(V)
      BY <1>9, <2>2, <2>4, <3>1, <3>4, Zenon DEF DistanceOf
    <3> QED
      BY <3>6, <3>7
  <2> QED
    BY <2>3, <2>4
<1>11. \A k \in 1..tip : k \in S
  <2> HIDE DEF S
  <2> QED
    BY <1>0, <1>10, UpTo
<1>12. ASSUME NEW i \in H
       PROVE  d[i] \in Nat
  <2>1. tip + 1 - i \in 1..tip /\ tip + 1 - (tip + 1 - i) = i
    BY <1>0, <1>2
  <2>2. tip + 1 - i \in S
    BY <1>11, <2>1
  <2> QED
    BY <2>1, <2>2
<1> QED
  BY <1>1, <1>8, <1>12

\* A merge base is an ancestor of both tips.
LEMMA MergeBaseIsCommon ==
    ASSUME NEW objs, IsHistory(objs), NEW l \in DOMAIN objs, NEW r \in DOMAIN objs,
           CommonAncestors(objs, l, r) # {}
    PROVE  FindMergeBase(objs, l, r) \in CommonAncestors(objs, l, r)
<1>1. PICK dl, dr, common : /\ dl = Distances(objs, l) /\ dr = Distances(objs, r)
                            /\ common = CommonAncestors(objs, l, r)
  OBVIOUS
<1> DEFINE far(i) == IF dl[i] > dr[i] THEN dl[i] ELSE dr[i]
           better(i, j) ==
              \/ far(i) < far(j)
              \/ far(i) = far(j) /\ dl[i] + dr[i] < dl[j] + dr[j]
              \/ far(i) = far(j) /\ dl[i] + dr[i] = dl[j] + dr[j] /\ i <= j
<1>2. \A i \in common : dl[i] \in Nat /\ dr[i] \in Nat /\ i \in Nat
  <2>1. /\ \A i \in History(objs, l) : dl[i] \in Nat
        /\ \A i \in History(objs, r) : dr[i] \in Nat
    BY <1>1, DistancesAreNumbers
  <2>2. \A i \in History(objs, l) : i \in Nat
    BY HistoryShape
  <2> QED
    BY <1>1, <2>1, <2>2 DEF CommonAncestors
<1>3. PICK F : F = {far(i) : i \in common}
  OBVIOUS
<1>4. F \in SUBSET Nat /\ F # {}
  BY <1>1, <1>2, <1>3
<1>5. PICK x \in F : \A y \in F : x <= y
  BY <1>4, LeastNumber
<1>6. PICK near : near = {i \in common : far(i) = x}
  OBVIOUS
<1>7. near # {} /\ near \subseteq common
  BY <1>3, <1>6
<1>8. PICK T : T = {dl[i] + dr[i] : i \in near}
  OBVIOUS
<1>9. T \in SUBSET Nat /\ T # {}
  BY <1>2, <1>7, <1>8
<1>10. PICK z \in T : \A y \in T : z <= y
  BY <1>9, LeastNumber
<1>11. PICK best : best = {i \in near : dl[i] + dr[i] = z}
  OBVIOUS
<1>12. best \in SUBSET Nat /\ best # {}
  BY <1>2, <1>7, <1>8, <1>11
<1>13. PICK b \in best : \A y \in best : b <= y
  BY <1>12, LeastNumber
<1>14. b \in common /\ far(b) = x /\ dl[b] + dr[b] = z
  BY <1>6, <1>7, <1>11
<1>15. \A j \in common : x <= far(j) /\ far(j) \in Nat
  BY <1>2, <1>3, <1>5
<1> DEFINE tot(j) == dl[j] + dr[j]
<1>16. \A j \in common : tot(j) \in Nat
  BY <1>2
<1>17. \A j \in common : far(j) = x => z <= tot(j)
  BY <1>6, <1>8, <1>10
<1>18. \A j \in common : far(j) = x /\ tot(j) = z => b <= j
  BY <1>6, <1>11, <1>13
<1>19. x \in Nat /\ z \in Nat
  BY <1>4, <1>9
<1>20. \A j \in common : \/ far(b) < far(j)
                         \/ far(b) = far(j) /\ tot(b) < tot(j)
                         \/ far(b) = far(j) /\ tot(b) = tot(j) /\ b <= j
  <2> TAKE j \in common
  <2> HIDE DEF far, tot
  <2>1. x <= far(j) /\ far(j) \in Nat /\ tot(j) \in Nat /\ far(b) = x
    BY <1>14, <1>15, <1>16
  <2>2. tot(b) = z
    BY <1>14 DEF tot
  <2>3. CASE far(j) = x
    <3>1. z <= tot(j)
      BY <1>17, <2>3
    <3>2. CASE tot(j) = z
      BY <1>18, <2>1, <2>2, <2>3, <3>2
    <3>3. CASE tot(j) # z
      BY <1>19, <2>1, <2>2, <2>3, <3>1, <3>3
    <3> QED
      BY <3>2, <3>3
  <2>4. CASE far(j) # x
    BY <1>19, <2>1, <2>4
  <2> QED
    BY <2>3, <2>4
<1>21. \A j \in common : better(b, j)
  BY <1>20
<1>22. FindMergeBase(objs, l, r) = CHOOSE i \in common : \A j \in common : better(i, j)
  BY <1>1 DEF FindMergeBase
<1> HIDE DEF better
<1> QED
  BY <1>1, <1>14, <1>21, <1>22

-----------------------------------------------------------------------------
(* The inductive invariant.                                                *)

IsMap(f) == f = [x \in DOMAIN f |-> f[x]]

\* A note of identifier n: a revision that was written, as the ledger F has it
\* (the note and the revision it supersedes), and, while it is active, bound to
\* code it was written or confirmed for.
SoundNote(n, x, rv, F, C) ==
    /\ x \in Notes /\ x.rev \in 1..rv /\ F[x.rev] = <<n, x.sup>>
    /\ x.state = "active" => HashAt(x.src, x.entity) \subseteq C[x.rev]

Sound(notes, rv, F, C) ==
    /\ IsMap(notes) /\ DOMAIN notes \subseteq NoteIds
    /\ \A n \in DOMAIN notes : SoundNote(n, notes[n], rv, F, C)

\* A snapshot all of whose ancestry is there, its revisions linked.
Restorable(objs, have, tip) ==
    /\ tip \in DOMAIN objs
    /\ History(objs, tip) \subseteq have
    /\ LinkedAlong(objs, Chain(objs, tip))

Below(objs, tip) == IF tip = 0 THEN {} ELSE History(objs, tip)
IsRow(r, objs) == r \in [tip : 0..Len(objs), version : Nat]

ObjectsFine(objs, rv, F, C) ==
    \A i \in DOMAIN objs : /\ objs[i].source \in Sources
                           /\ Sound(objs[i].notes, rv, F, C)

PendingFine(p, tip, objs, rv, F, C) ==
    Sound(p, rv, F, C) /\ Linked(objs, p, Below(objs, tip))

RefFine(r, cm, objs, have) ==
    /\ IsRow(r, objs)
    /\ r.tip # 0 => Restorable(objs, have, r.tip) /\ r.tip \in cm

RemoteFine(r, objs) ==
    IsRow(r, objs) /\ (r.tip # 0 => ValidContextObject(objs[r.tip]))

WriterFine(w, objs, have, rv, F, C) ==
    w # None =>
      /\ w = [kind |-> w.kind, source |-> w.source, id |-> w.id,
              parents |-> w.parents, notes |-> w.notes, drafted |-> w.drafted]
      /\ w.source \in Sources
      /\ w.parents \in Seq(DOMAIN objs) /\ Len(w.parents) \in 0..2
      /\ \A p \in Members(w.parents) : Restorable(objs, have, p)
      /\ Sound(w.notes, rv, F, C)
      /\ Linked(objs, w.notes, Ancestors(objs, Members(w.parents)))
      /\ w.id \in 0..Len(objs)
      /\ w.id # 0 => /\ w.id \in have
                     /\ objs[w.id] = Object(w.parents, w.source, w.notes)

SessionFine(x, objs, have, rv, F, C) ==
    x # None =>
      /\ x = [local |-> x.local, remote |-> x.remote, base |-> x.base,
              source |-> x.source, records |-> x.records, open |-> x.open]
      /\ x.source \in Sources
      /\ Restorable(objs, have, x.local) /\ Restorable(objs, have, x.remote)
      /\ x.base \in History(objs, x.local)
      /\ Sound(x.records, rv, F, C)
      /\ Linked(objs, x.records, Ancestors(objs, {x.local, x.remote}))

SyncFine(y, objs) ==
    y # None =>
      /\ IsRow(y.local, objs) /\ IsRow(y.remote, objs) /\ y.source \in Sources
      /\ y.kind = "push" => /\ y.local.tip # 0
                            /\ IsAncestor(objs, y.local.tip, y.remote.tip)
                            /\ ValidContextObject(objs[y.local.tip])
      /\ y.kind = "pull" => y.remote.tip # 0

Rows ==
    /\ world \in Worlds /\ head \in Sources
    /\ IsHistory(objects) /\ Len(objects) <= world.objects
    /\ stored \subseteq DOMAIN objects /\ commits \subseteq DOMAIN objects
    /\ ws = [source |-> ws.source, base |-> ws.base]
    /\ ws.source \in Sources \union {NoSource} /\ ws.base = ref.tip
    /\ ws.source = NoSource => pending = Empty
    /\ IsRow(tracking, objects)
    /\ candidate = [version |-> candidate.version, notes |-> candidate.notes]
    /\ candidate.version \in 0..Len(Envelopes)
    /\ IsMap(candidate.notes) /\ DOMAIN candidate.notes \subseteq Drafts
    /\ revs \in 0..world.revs
    /\ IsMap(confirmed) /\ DOMAIN confirmed = 1..world.revs

Fine(F) ==
    /\ ObjectsFine(objects, revs, F, confirmed)
    /\ PendingFine(pending, ref.tip, objects, revs, F, confirmed)
    /\ RefFine(ref, commits, objects, stored)
    /\ RemoteFine(remote, objects)
    /\ WriterFine(writer, objects, stored, revs, F, confirmed)
    /\ SessionFine(session, objects, stored, revs, F, confirmed)
    /\ SyncFine(sync, objects)
    /\ SearchIsCurrent

IInv == Rows /\ \E F : Fine(F)

-----------------------------------------------------------------------------
(* What was fine stays fine while objects, revisions and confirmations are *)
(* added.                                                                  *)

BooksGrow(rv, F, C, rw, G, D) ==
    /\ rv \in Nat /\ rw \in Nat /\ rv <= rw
    /\ \A r \in 1..rv : G[r] = F[r] /\ C[r] \subseteq D[r]

Later(objs, have, rv, F, C, more, has, rw, G, D) ==
    /\ Continues(objs, more) /\ have \subseteq has
    /\ BooksGrow(rv, F, C, rw, G, D)

LEMMA SoundLater ==
    ASSUME NEW rv, NEW F, NEW C, NEW rw, NEW G, NEW D,
           BooksGrow(rv, F, C, rw, G, D),
           NEW notes, Sound(notes, rv, F, C)
    PROVE  Sound(notes, rw, G, D)
<1>1. ASSUME NEW n \in DOMAIN notes
      PROVE  SoundNote(n, notes[n], rw, G, D)
  <2>1. SoundNote(n, notes[n], rv, F, C)
    BY DEF Sound
  <2>2. notes[n].rev \in 1..rv /\ notes[n].rev \in 1..rw
    BY <2>1 DEF SoundNote, BooksGrow
  <2> QED
    BY <2>1, <2>2 DEF SoundNote, BooksGrow
<1> QED
  BY <1>1 DEF Sound

LEMMA RestorableLater ==
    ASSUME NEW objs, NEW more, Continues(objs, more),
           NEW have, NEW has, have \subseteq has,
           NEW tip, Restorable(objs, have, tip)
    PROVE  Restorable(more, has, tip)
<1>1. /\ tip \in DOMAIN objs /\ tip \in DOMAIN more
      /\ Chain(more, tip) = Chain(objs, tip)
      /\ History(more, tip) = History(objs, tip)
  BY ChainStays DEF Restorable, Continues
<1>2. PICK c : c = Chain(objs, tip)
  OBVIOUS
<1>3. c \in Seq(1..tip) /\ DOMAIN c = 1..Len(c) /\ Len(c) \in Nat
  BY <1>1, <1>2, HistoryShape, LenProperties DEF Continues
<1>4. \A k \in DOMAIN c : c[k] \in DOMAIN objs
  <2>1. 1..tip \subseteq DOMAIN objs
    BY <1>1 DEF Continues, IsHistory
  <2>2. \A k \in 1..Len(c) : c[k] \in 1..tip
    BY ONLY <1>3, ElementOfSeq
  <2> QED
    BY <1>3, <2>1, <2>2
<1>5. ASSUME NEW k \in DOMAIN c
      PROVE  LinkedUpTo(more, c, k)
  <2>1. LinkedUpTo(objs, c, k)
    BY <1>2 DEF Restorable, LinkedAlong
  <2>2. \A j \in 1..(k - 1) : more[c[j]] = objs[c[j]]
    BY <1>3, <1>4 DEF Continues
  <2>3. more[c[k]] = objs[c[k]]
    BY <1>4 DEF Continues
  <2> QED
    BY <2>1, <2>2, <2>3 DEF LinkedUpTo, Linked
<1> QED
  BY <1>1, <1>2, <1>5 DEF Restorable, LinkedAlong

LEMMA LinkedLater ==
    ASSUME NEW objs, NEW more, Continues(objs, more),
           NEW notes, NEW ids \in SUBSET DOMAIN objs, Linked(objs, notes, ids)
    PROVE  Linked(more, notes, ids)
BY DEF Linked, Continues

LEMMA AncestorsLater ==
    ASSUME NEW objs, NEW more, Continues(objs, more), NEW tips \in SUBSET DOMAIN objs
    PROVE  /\ Ancestors(more, tips) = Ancestors(objs, tips)
           /\ Ancestors(objs, tips) \subseteq DOMAIN objs
<1>1. \A p \in tips : History(more, p) = History(objs, p)
  BY ChainStays
<1>2. \A p \in tips : History(objs, p) \subseteq DOMAIN objs
  <2> TAKE p \in tips
  <2>1. p \in DOMAIN objs /\ DOMAIN objs = 1..Len(objs) /\ Len(objs) \in Nat
    BY DEF Continues, IsHistory
  <2>2. History(objs, p) \subseteq 1..p
    BY <2>1, HistoryShape DEF Continues
  <2> QED
    BY <2>1, <2>2
<1> QED
  BY <1>1, <1>2 DEF Ancestors

LEMMA BelowLater ==
    ASSUME NEW objs, NEW more, Continues(objs, more), NEW tip \in 0..Len(objs)
    PROVE  Below(more, tip) = Below(objs, tip) /\ Below(objs, tip) \in SUBSET DOMAIN objs
<1>1. DOMAIN objs = 1..Len(objs) /\ Len(objs) \in Nat
  BY DEF Continues, IsHistory
<1>2. CASE tip = 0
  BY <1>2 DEF Below
<1>3. CASE tip # 0
  <2>1. tip \in DOMAIN objs
    BY <1>1, <1>3
  <2>2. History(more, tip) = History(objs, tip) /\ History(objs, tip) \subseteq 1..tip
    <3>1. History(more, tip) = History(objs, tip)
      BY <2>1, ChainStays
    <3>2. IsHistory(objs)
      BY DEF Continues
    <3> QED
      BY <2>1, <3>1, <3>2, HistoryShape
  <2>3. 1..tip \subseteq DOMAIN objs
    BY <1>1
  <2>4. Below(more, tip) = History(more, tip) /\ Below(objs, tip) = History(objs, tip)
    BY <1>3 DEF Below
  <2> QED
    BY <2>2, <2>3, <2>4
<1> QED
  BY <1>2, <1>3

LEMMA RowLater ==
    ASSUME NEW objs, NEW more, Continues(objs, more), NEW r, IsRow(r, objs)
    PROVE  IsRow(r, more) /\ r.tip \in 0..Len(objs) /\ (r.tip # 0 => r.tip \in DOMAIN objs)
<1>1. /\ DOMAIN objs = 1..Len(objs) /\ Len(objs) \in Nat
      /\ DOMAIN more = 1..Len(more) /\ Len(more) \in Nat
      /\ DOMAIN objs \subseteq DOMAIN more
  BY DEF Continues, IsHistory
<1>2. Len(objs) <= Len(more)
  BY <1>1
<1> QED
  BY <1>1, <1>2 DEF IsRow

LEMMA PendingLater ==
    ASSUME NEW objs, NEW have, NEW rv, NEW F, NEW C, NEW more, NEW has, NEW rw, NEW G, NEW D,
           Later(objs, have, rv, F, C, more, has, rw, G, D),
           NEW p, NEW tip \in 0..Len(objs), PendingFine(p, tip, objs, rv, F, C)
    PROVE  PendingFine(p, tip, more, rw, G, D)
<1>1. Sound(p, rw, G, D)
  BY SoundLater DEF Later, PendingFine
<1>2. Linked(more, p, Below(more, tip))
  BY BelowLater, LinkedLater DEF Later, PendingFine
<1> QED
  BY <1>1, <1>2 DEF PendingFine

LEMMA RefLater ==
    ASSUME NEW objs, NEW have, NEW rv, NEW F, NEW C, NEW more, NEW has, NEW rw, NEW G, NEW D,
           Later(objs, have, rv, F, C, more, has, rw, G, D),
           NEW r, NEW cm, RefFine(r, cm, objs, have)
    PROVE  RefFine(r, cm, more, has)
BY RowLater, RestorableLater DEF Later, RefFine

LEMMA RemoteLater ==
    ASSUME NEW objs, NEW more, Continues(objs, more), NEW r, RemoteFine(r, objs)
    PROVE  RemoteFine(r, more)
<1>1. IsRow(r, more) /\ (r.tip # 0 => r.tip \in DOMAIN objs)
  BY RowLater DEF RemoteFine
<1>2. r.tip # 0 => more[r.tip] = objs[r.tip]
  BY <1>1 DEF Continues
<1> QED
  BY <1>1, <1>2 DEF RemoteFine

LEMMA WriterLater ==
    ASSUME NEW objs, NEW have, NEW rv, NEW F, NEW C, NEW more, NEW has, NEW rw, NEW G, NEW D,
           Later(objs, have, rv, F, C, more, has, rw, G, D), have \subseteq DOMAIN objs,
           NEW w, WriterFine(w, objs, have, rv, F, C)
    PROVE  WriterFine(w, more, has, rw, G, D)
<1> SUFFICES ASSUME w # None
             PROVE  WriterFine(w, more, has, rw, G, D)
  BY DEF WriterFine
<1>1. Continues(objs, more) /\ have \subseteq has
  BY DEF Later
<1>2. /\ DOMAIN objs = 1..Len(objs) /\ Len(objs) \in Nat
      /\ DOMAIN more = 1..Len(more) /\ Len(more) \in Nat
      /\ DOMAIN objs \subseteq DOMAIN more
  BY <1>1 DEF Continues, IsHistory
<1>3. w.parents \in Seq(DOMAIN objs) /\ Len(w.parents) \in 0..2
  BY DEF WriterFine
<1>4. w.parents \in Seq(DOMAIN more) /\ Members(w.parents) \in SUBSET DOMAIN objs
  BY <1>2, <1>3, SeqMonotonic, MembersOfSeq
<1>5. \A p \in Members(w.parents) : Restorable(more, has, p)
  BY <1>1, RestorableLater DEF WriterFine
<1>6. Sound(w.notes, rw, G, D)
  BY SoundLater DEF Later, WriterFine
<1>7. Linked(more, w.notes, Ancestors(more, Members(w.parents)))
  BY <1>1, <1>4, AncestorsLater, LinkedLater DEF WriterFine
<1>8. w.id \in 0..Len(more)
  BY <1>2 DEF WriterFine
<1>9. w.id # 0 => /\ w.id \in has
                  /\ more[w.id] = Object(w.parents, w.source, w.notes)
  BY <1>1 DEF WriterFine, Continues
<1> QED
  BY <1>3, <1>4, <1>5, <1>6, <1>7, <1>8, <1>9 DEF WriterFine

LEMMA SessionLater ==
    ASSUME NEW objs, NEW have, NEW rv, NEW F, NEW C, NEW more, NEW has, NEW rw, NEW G, NEW D,
           Later(objs, have, rv, F, C, more, has, rw, G, D),
           NEW x, SessionFine(x, objs, have, rv, F, C)
    PROVE  SessionFine(x, more, has, rw, G, D)
<1> SUFFICES ASSUME x # None
             PROVE  SessionFine(x, more, has, rw, G, D)
  BY DEF SessionFine
<1>1. Continues(objs, more) /\ have \subseteq has
  BY DEF Later
<1>2. /\ Restorable(objs, have, x.local) /\ Restorable(objs, have, x.remote)
      /\ {x.local, x.remote} \in SUBSET DOMAIN objs
  BY DEF SessionFine, Restorable
<1>3. Restorable(more, has, x.local) /\ Restorable(more, has, x.remote)
  BY <1>1, <1>2, RestorableLater
<1>4. Sound(x.records, rw, G, D)
  BY SoundLater DEF Later, SessionFine
<1>5. Linked(more, x.records, Ancestors(more, {x.local, x.remote}))
  BY <1>1, <1>2, AncestorsLater, LinkedLater DEF SessionFine
<1>6. x.base \in History(more, x.local)
  BY <1>1, <1>2, ChainStays DEF SessionFine
<1> QED
  BY <1>3, <1>4, <1>5, <1>6 DEF SessionFine

LEMMA SyncLater ==
    ASSUME NEW objs, NEW more, Continues(objs, more), NEW y, SyncFine(y, objs)
    PROVE  SyncFine(y, more)
<1> SUFFICES ASSUME y # None
             PROVE  SyncFine(y, more)
  BY DEF SyncFine
<1>1. /\ IsRow(y.local, more) /\ IsRow(y.remote, more)
      /\ y.local.tip # 0 => y.local.tip \in DOMAIN objs
  BY RowLater DEF SyncFine
<1>2. ASSUME y.kind = "push"
      PROVE  /\ IsAncestor(more, y.local.tip, y.remote.tip)
             /\ ValidContextObject(more[y.local.tip])
  <2>1. /\ y.local.tip \in DOMAIN objs
        /\ IsAncestor(objs, y.local.tip, y.remote.tip)
        /\ ValidContextObject(objs[y.local.tip])
    BY <1>1, <1>2 DEF SyncFine
  <2>2. History(more, y.local.tip) = History(objs, y.local.tip)
        /\ more[y.local.tip] = objs[y.local.tip]
    BY <2>1, ChainStays DEF Continues
  <2> QED
    BY <2>1, <2>2 DEF IsAncestor
<1> QED
  BY <1>1, <1>2 DEF SyncFine

-----------------------------------------------------------------------------
(* Notes.                                                                  *)

NotesAt(objs, tip) == IF tip = 0 THEN Empty ELSE objs[tip].notes

Overlays(a, b, o) ==
    /\ IsMap(o) /\ DOMAIN o = DOMAIN a \union DOMAIN b
    /\ \A n \in DOMAIN b : o[n] = b[n]
    /\ \A n \in DOMAIN a : n \notin DOMAIN b => o[n] = a[n]

LEMMA OverlayShape ==
    ASSUME NEW a, NEW b
    PROVE  Overlays(a, b, Overlay(a, b))
BY DEF Overlays, Overlay, IsMap

LEMMA OverlaySound ==
    ASSUME NEW rv, NEW F, NEW C, NEW a, NEW b, Sound(a, rv, F, C), Sound(b, rv, F, C)
    PROVE  Sound(Overlay(a, b), rv, F, C)
<1>1. PICK o : o = Overlay(a, b) /\ Overlays(a, b, o)
  BY OverlayShape
<1>2. ASSUME NEW n \in DOMAIN o
      PROVE  SoundNote(n, o[n], rv, F, C)
  <2>1. CASE n \in DOMAIN b
    BY <1>1, <2>1 DEF Sound, Overlays
  <2>2. CASE n \notin DOMAIN b
    BY <1>1, <2>2 DEF Sound, Overlays
  <2> QED
    BY <2>1, <2>2
<1>3. IsMap(o) /\ DOMAIN o \subseteq NoteIds
  BY <1>1 DEF Sound, Overlays
<1>4. Sound(o, rv, F, C)
  BY <1>2, <1>3 DEF Sound
<1> QED
  BY <1>1, <1>4

LEMMA OverlayLinked ==
    ASSUME NEW objs, NEW ids, NEW a, NEW b, Linked(objs, a, ids), Linked(objs, b, ids)
    PROVE  Linked(objs, Overlay(a, b), ids)
<1>1. PICK o : o = Overlay(a, b) /\ Overlays(a, b, o)
  BY OverlayShape
<1>2. Linked(objs, o, ids)
  BY <1>1 DEF Linked, Overlays
<1> QED
  BY <1>1, <1>2

\* One note more, or one note changed.
LEMMA OneNote ==
    ASSUME NEW rv, NEW F, NEW C, NEW n \in NoteIds, NEW x, SoundNote(n, x, rv, F, C),
           NEW one, one = [m \in {n} |-> x]
    PROVE  Sound(one, rv, F, C)
BY DEF Sound, IsMap

LEMMA EmptySound ==
    ASSUME NEW rv, NEW F, NEW C, NEW objs, NEW ids
    PROVE  Sound(Empty, rv, F, C) /\ Linked(objs, Empty, ids)
<1>1. DOMAIN Empty = {} /\ Empty = [n \in {} |-> Empty[n]]
  BY DEF Empty
<1> QED
  BY <1>1 DEF Sound, IsMap, Linked

LEMMA NotesAtSound ==
    ASSUME NEW objs, NEW rv, NEW F, NEW C, ObjectsFine(objs, rv, F, C),
           NEW tip, tip # 0 => tip \in DOMAIN objs
    PROVE  Sound(NotesAt(objs, tip), rv, F, C)
BY EmptySound DEF NotesAt, ObjectsFine

\* What the notes of a restorable snapshot supersede lies in its history.
LEMMA NotesAtLinked ==
    ASSUME NEW objs, IsHistory(objs), NEW have, NEW tip,
           tip # 0 => Restorable(objs, have, tip)
    PROVE  Linked(objs, NotesAt(objs, tip), Below(objs, tip))
<1>1. CASE tip = 0
  BY <1>1, EmptySound DEF NotesAt
<1>2. CASE tip # 0
  <2>1. PICK c : c = Chain(objs, tip)
    OBVIOUS
  <2>2. c \in Seq(1..tip) /\ tip \in DOMAIN objs
        /\ History(objs, tip) = {tip} \union Ancestors(objs, Parents(objs, tip))
    BY <1>2, <2>1, HistoryShape DEF Restorable
  <2>3. Members(c) = History(objs, tip) /\ tip \in Members(c)
    BY <2>1, <2>2 DEF History
  <2>4. Len(c) \in Nat /\ DOMAIN c = 1..Len(c)
    BY <2>2, LenProperties
  <2>5. PICK k \in DOMAIN c : c[k] = tip
    BY <2>3 DEF Members
  <2>6. {c[j] : j \in 1..(k - 1)} \subseteq Members(c)
    BY <2>4, <2>5 DEF Members
  <2>7. Linked(objs, objs[tip].notes, {c[j] : j \in 1..(k - 1)})
    BY <1>2, <2>1, <2>5 DEF Restorable, LinkedAlong, LinkedUpTo
  <2>8. Linked(objs, objs[tip].notes, History(objs, tip))
    BY <2>3, <2>6, <2>7, LinkedInMore
  <2> QED
    BY <1>2, <2>8 DEF NotesAt, Below
<1> QED
  BY <1>1, <1>2

\* A note that follows its entity keeps its revision, and is active only at an
\* entity that has a hash the old one had.
Follows(x, previous, s, y) ==
    /\ y \in Notes /\ y.rev = x.rev /\ y.sup = x.sup /\ y.src = s
    /\ y.state = "active" => x.state = "active" /\ HashAt(y.src, y.entity) \subseteq previous

LEMMA ReconcileFollows ==
    ASSUME NEW x \in Notes, NEW previous, NEW s \in Sources, NEW current,
           current = Tree[s] \/ current = Empty
    PROVE  Follows(x, previous, s, Reconcile(x, previous, current, s))
<1> DEFINE same == {k \in DOMAIN current : current[k] \in previous}
           only == CHOOSE k \in same : TRUE
<1>0. /\ x.entity \in Keys /\ x.state \in States
      /\ "needs_review" \in States /\ "historical" \in States
      /\ "needs_review" # "active" /\ "historical" # "active"
  BY DEF Notes, States
<1>1. DOMAIN current \subseteq Keys
  BY LocalStoreAssumption DEF Empty
<1>2. \A k \in same : k \in Keys /\ HashAt(s, k) \subseteq previous
  BY <1>1 DEF HashAt, Empty
<1>3. Cardinality(same) = 1 => only \in same
  <2>1. Cardinality(same) = 1 => same # {}
    BY FS_EmptySet
  <2> QED
    BY <2>1
<1>4. ASSUME NEW k \in Keys, NEW state \in States,
             state = "active" => x.state = "active" /\ HashAt(s, k) \subseteq previous
      PROVE  Follows(x, previous, s, Rebound(x, k, state, s))
  <2>1. PICK y : y = Rebound(x, k, state, s)
    OBVIOUS
  <2>2. /\ y \in Notes /\ y.rev = x.rev /\ y.sup = x.sup /\ y.src = s
        /\ y.state = state /\ y.entity = k
    BY <2>1 DEF Rebound, Notes
  <2> QED
    BY <1>4, <2>1, <2>2 DEF Follows
<1>5. CASE previous = {}
  <2>1. Reconcile(x, previous, current, s) = Rebound(x, x.entity, "needs_review", s)
    BY <1>5 DEF Reconcile
  <2> QED
    BY <1>0, <1>4, <2>1
<1>6. CASE previous # {} /\ x.entity \in DOMAIN current
  <2>1. Reconcile(x, previous, current, s) =
          Rebound(x, x.entity, IF x.entity \in same THEN x.state ELSE "needs_review", s)
    BY <1>6 DEF Reconcile
  <2> HIDE DEF same
  <2> QED
    BY <1>0, <1>2, <1>4, <2>1
<1>7. CASE previous # {} /\ x.entity \notin DOMAIN current
  <2> DEFINE onlyOne == Rebound(x, only, x.state, s)
             several == Rebound(x, x.entity, "needs_review", s)
             nothing == Rebound(x, x.entity, "historical", s)
  <2>1. Reconcile(x, previous, current, s) =
          CASE Cardinality(same) = 1 -> onlyOne
            [] Cardinality(same) > 1 -> several
            [] OTHER -> nothing
    BY <1>7 DEF Reconcile
  <2>2. Follows(x, previous, s, several) /\ Follows(x, previous, s, nothing)
    BY <1>0, <1>4
  <2>3. Cardinality(same) = 1 => Follows(x, previous, s, onlyOne)
    <3> HIDE DEF same, only
    <3> QED
      BY <1>0, <1>2, <1>3, <1>4
  <2> HIDE DEF onlyOne, several, nothing, only, same
  <2>4. CASE Cardinality(same) = 1
    BY <2>1, <2>3, <2>4
  <2>5. CASE Cardinality(same) # 1
    <3>1. Reconcile(x, previous, current, s) \in {several, nothing}
      BY <2>1, <2>5
    <3> QED
      BY <2>2, <3>1
  <2> QED
    BY <2>4, <2>5
<1> QED
  BY <1>5, <1>6, <1>7

\* So it is as sound as it was.
LEMMA FollowsSound ==
    ASSUME NEW n, NEW x, NEW y, NEW s, NEW rv, NEW F, NEW C,
           SoundNote(n, x, rv, F, C), Follows(x, HashAt(x.src, x.entity), s, y)
    PROVE  SoundNote(n, y, rv, F, C)
BY DEF SoundNote, Follows

\* The search index over any objects.
SearchAt(objs, cov, source, tip, pend) ==
    LET notes == Overlay(NotesAt(objs, tip), pend) IN
    [k \in DOMAIN FreshEntities(cov, source) |->
        {notes[n].rev : n \in {n \in DOMAIN notes :
             notes[n].state = "active" /\ notes[n].entity = k}}]

LEMMA SearchNow ==
    /\ SearchIsCurrent <=> (ws.source # NoSource =>
          search = SearchAt(objects, coverage, ws.source, ref.tip, pending))
    /\ SearchIsCurrent' <=> (ws'.source # NoSource =>
          search' = SearchAt(objects', coverage', ws'.source, ref'.tip, pending'))
    /\ \A cov, source, tip, pend :
          SearchOf(cov, source, tip, pend) = SearchAt(objects, cov, source, tip, pend)
BY DEF SearchIsCurrent, SearchOf, SearchAt, Effective, CommittedNotes, NotesAt

LEMMA NotesNow ==
    /\ \A tip : CommittedNotes(tip) = NotesAt(objects, tip)
    /\ \A tip, pend : Effective(tip, pend) = Overlay(NotesAt(objects, tip), pend)
BY DEF CommittedNotes, Effective, NotesAt

-----------------------------------------------------------------------------
(* Every step keeps the invariant.                                         *)

\* What is not touched is as fine in the next state as it was.
OldFine(G) ==
    /\ Continues(objects, objects') /\ stored \subseteq stored'
    /\ ObjectsFine(objects, revs', G, confirmed')
    /\ PendingFine(pending, ref.tip, objects', revs', G, confirmed')
    /\ RefFine(ref, commits, objects', stored')
    /\ RemoteFine(remote, objects')
    /\ IsRow(tracking, objects')
    /\ WriterFine(writer, objects', stored', revs', G, confirmed')
    /\ SessionFine(session, objects', stored', revs', G, confirmed')
    /\ SyncFine(sync, objects')
    /\ ws.source # NoSource =>
          search = SearchAt(objects', coverage, ws.source, ref.tip, pending)

LEMMA Carry ==
    ASSUME Rows, NEW F, Fine(F), NEW G,
           Later(objects, stored, revs, F, confirmed, objects', stored', revs', G, confirmed')
    PROVE  OldFine(G)
<1>1. Continues(objects, objects') /\ stored \subseteq stored'
  BY DEF Later
<1>2. ObjectsFine(objects, revs', G, confirmed')
  <2>1. BooksGrow(revs, F, confirmed, revs', G, confirmed')
    BY DEF Later
  <2>2. ASSUME NEW i \in DOMAIN objects
        PROVE  Sound(objects[i].notes, revs', G, confirmed')
    <3>1. Sound(objects[i].notes, revs, F, confirmed)
      BY DEF Fine, ObjectsFine
    <3> QED
      BY <2>1, <3>1, SoundLater
  <2> QED
    BY <2>2 DEF Fine, ObjectsFine
<1>3. IsRow(ref, objects) /\ ref.tip \in 0..Len(objects)
  BY <1>1, RowLater DEF Fine, RefFine
<1>4. PendingFine(pending, ref.tip, objects', revs', G, confirmed')
  BY <1>3, PendingLater DEF Fine
<1>5. RefFine(ref, commits, objects', stored')
  BY RefLater DEF Fine
<1>6. RemoteFine(remote, objects') /\ IsRow(tracking, objects')
  BY <1>1, RemoteLater, RowLater DEF Fine, Rows
<1>7. WriterFine(writer, objects', stored', revs', G, confirmed')
  BY WriterLater DEF Fine, Rows
<1>8. SessionFine(session, objects', stored', revs', G, confirmed')
  BY SessionLater DEF Fine
<1>9. SyncFine(sync, objects')
  BY <1>1, SyncLater DEF Fine
<1>10. NotesAt(objects', ref.tip) = NotesAt(objects, ref.tip)
  BY <1>1, <1>3, RowLater DEF NotesAt, Continues
<1>11. ws.source # NoSource =>
          search = SearchAt(objects', coverage, ws.source, ref.tip, pending)
  BY <1>10, SearchNow DEF SearchAt, Fine
<1> QED
  BY <1>1, <1>2, <1>4, <1>5, <1>6, <1>7, <1>8, <1>9, <1>11 DEF OldFine

LEMMA RowsFacts ==
    ASSUME Rows
    PROVE  /\ revs \in Nat /\ world.revs \in Nat /\ world.objects \in Nat
           /\ world.sources \subseteq Sources
           /\ Len(objects) \in Nat /\ DOMAIN objects = 1..Len(objects)
           /\ Continues(objects, objects)
BY LocalStoreAssumption, ContinuesItself DEF Rows, IsHistory

LEMMA Stay ==
    ASSUME Rows, NEW F, Fine(F), objects' = objects, stored \subseteq stored',
           UNCHANGED <<revs, confirmed>>
    PROVE  OldFine(F)
<1>1. Later(objects, stored, revs, F, confirmed, objects', stored', revs', F, confirmed')
  BY RowsFacts DEF Later, BooksGrow
<1> QED
  BY <1>1, Carry

\* Putting the next state together.
LEMMA FineNext ==
    ASSUME NEW G,
           ObjectsFine(objects', revs', G, confirmed'),
           PendingFine(pending', ref'.tip, objects', revs', G, confirmed'),
           RefFine(ref', commits', objects', stored'),
           RemoteFine(remote', objects'),
           WriterFine(writer', objects', stored', revs', G, confirmed'),
           SessionFine(session', objects', stored', revs', G, confirmed'),
           SyncFine(sync', objects'),
           ws'.source # NoSource =>
             search' = SearchAt(objects', coverage', ws'.source, ref'.tip, pending')
    PROVE  Fine(G)'
BY SearchNow DEF Fine

LEMMA LoadsRestorable ==
    ASSUME NEW objs, IsHistory(objs), NEW have, NEW tip \in DOMAIN objs,
           Loads(objs, have, tip)
    PROVE  Restorable(objs, have, tip) /\ ValidContextObject(objs[tip])
<1>1. PICK c : c = Chain(objs, tip)
  OBVIOUS
<1>2. Members(c) = History(objs, tip) /\ tip \in Members(c)
  BY <1>1, HistoryShape DEF History
<1>3. /\ Members(c) \subseteq have
      /\ \A i \in Members(c) : ValidContextObject(objs[i])
      /\ RevisionLinks(objs, c)
  BY <1>1 DEF Loads
<1>4. LinkedAlong(objs, c)
  BY <1>3 DEF RevisionLinks, LinkedAlong, LinkedUpTo, Linked
<1> QED
  BY <1>1, <1>2, <1>3, <1>4 DEF Restorable

LEMMA MoveHeadKeeps ==
    ASSUME IInv, NEW s \in world.sources, MoveHead(s)
    PROVE  IInv'
<1>1. PICK F : Fine(F)
  BY DEF IInv
<1>2. Rows
  BY DEF IInv
<1> USE DEF MoveHead, projection, commands, ghosts
<1>3. Rows'
  BY <1>2, RowsFacts DEF Rows
<1>4. OldFine(F)
  BY <1>1, <1>2, Stay
<1>5. Fine(F)'
  BY <1>4, FineNext DEF OldFine
<1> QED
  BY <1>3, <1>5 DEF IInv

LEMMA StopWriterKeeps ==
    ASSUME IInv, StopWriter
    PROVE  IInv'
<1>1. PICK F : Fine(F)
  BY DEF IInv
<1>2. Rows
  BY DEF IInv
<1> USE DEF StopWriter, projection, commands, ghosts
<1>3. Rows'
  BY <1>2 DEF Rows
<1>4. OldFine(F)
  BY <1>1, <1>2, Stay
<1>5. WriterFine(writer', objects', stored', revs', F, confirmed')
  BY DEF WriterFine
<1>6. Fine(F)'
  BY <1>4, <1>5, FineNext DEF OldFine
<1> QED
  BY <1>3, <1>6 DEF IInv

LEMMA StopSyncKeeps ==
    ASSUME IInv, StopSync
    PROVE  IInv'
<1>1. PICK F : Fine(F)
  BY DEF IInv
<1>2. Rows
  BY DEF IInv
<1> USE DEF StopSync, projection, commands, ghosts
<1>3. Rows'
  BY <1>2 DEF Rows
<1>4. OldFine(F)
  BY <1>1, <1>2, Stay
<1>5. SyncFine(sync', objects')
  BY DEF SyncFine
<1>6. Fine(F)'
  BY <1>4, <1>5, FineNext DEF OldFine
<1> QED
  BY <1>3, <1>6 DEF IInv

LEMMA StartCommitKeeps ==
    ASSUME IInv, StartCommit
    PROVE  IInv'
<1>1. PICK F : Fine(F)
  BY DEF IInv
<1>2. Rows
  BY DEF IInv
<1> USE DEF StartCommit, projection, commands, ghosts
<1>3. Rows'
  BY <1>2 DEF Rows
<1>4. OldFine(F)
  BY <1>1, <1>2, Stay
<1>5. /\ IsHistory(objects) /\ IsRow(ref, objects) /\ ws.base = ref.tip
      /\ ref.tip # 0 => ref.tip \in DOMAIN objects /\ Loads(objects, stored, ref.tip)
      /\ ws.source \in Sources
  BY <1>1, <1>2, RowLater, RowsFacts DEF Rows, InWorkingSet, Readable, Fine, RefFine
<1>6. ref.tip # 0 => Restorable(objects, stored, ref.tip)
  BY <1>5, LoadsRestorable
<1>7. PICK ps, notes : /\ ps = IF ws.base = 0 THEN <<>> ELSE <<ws.base>>
                       /\ notes = Effective(ws.base, pending)
  OBVIOUS
<1>8. writer' = [kind |-> "commit", source |-> ws.source, id |-> 0, parents |-> ps,
                 notes |-> notes, drafted |-> DOMAIN pending]
  BY <1>7
<1>9. /\ ps \in Seq(DOMAIN objects) /\ Len(ps) \in 0..2
      /\ Members(ps) = IF ref.tip = 0 THEN {} ELSE {ref.tip}
  <2>1. CASE ref.tip = 0
    BY <1>5, <1>7, <2>1 DEF Members
  <2>2. CASE ref.tip # 0
    BY <1>5, <1>7, <2>2 DEF Members
  <2> QED
    BY <2>1, <2>2
<1>10. Ancestors(objects, Members(ps)) = Below(objects, ref.tip)
  BY <1>9 DEF Ancestors, Below
<1>11. /\ Sound(pending, revs, F, confirmed)
       /\ Linked(objects, pending, Below(objects, ref.tip))
       /\ Sound(NotesAt(objects, ref.tip), revs, F, confirmed)
  BY <1>1, <1>5, NotesAtSound DEF Fine, PendingFine
<1>12. Linked(objects, NotesAt(objects, ref.tip), Below(objects, ref.tip))
  BY <1>5, <1>6, NotesAtLinked
<1>13. notes = Overlay(NotesAt(objects, ref.tip), pending)
  BY <1>5, <1>7, NotesNow
<1>14. Sound(notes, revs, F, confirmed) /\ Linked(objects, notes, Below(objects, ref.tip))
  BY <1>11, <1>12, <1>13, OverlaySound, OverlayLinked
<1>15. WriterFine(writer', objects, stored, revs, F, confirmed)
  <2>1. PICK w : w = writer'
    OBVIOUS
  <2>2. /\ w = [kind |-> w.kind, source |-> w.source, id |-> w.id,
                parents |-> w.parents, notes |-> w.notes, drafted |-> w.drafted]
        /\ w.source \in Sources /\ w.parents = ps /\ w.notes = notes /\ w.id = 0
    BY <1>5, <1>8, <2>1
  <2>3. 0 \in 0..Len(objects)
    BY <1>2, RowsFacts
  <2> HIDE DEF StartCommit
  <2>4. WriterFine(w, objects, stored, revs, F, confirmed)
    BY <1>6, <1>9, <1>10, <1>14, <2>2, <2>3 DEF WriterFine
  <2> QED
    BY <2>1, <2>4
<1>16. Fine(F)'
  BY <1>4, <1>15, FineNext DEF OldFine
<1> QED
  BY <1>3, <1>16 DEF IInv

LEMMA StartMergeCommitKeeps ==
    ASSUME IInv, StartMergeCommit
    PROVE  IInv'
<1>1. PICK F : Fine(F)
  BY DEF IInv
<1>2. Rows
  BY DEF IInv
<1> USE DEF StartMergeCommit, projection, commands, ghosts
<1>3. Rows'
  BY <1>2 DEF Rows
<1>4. OldFine(F)
  BY <1>1, <1>2, Stay
<1>5. /\ Restorable(objects, stored, session.local)
      /\ Restorable(objects, stored, session.remote)
      /\ session.local \in DOMAIN objects /\ session.remote \in DOMAIN objects
      /\ Sound(session.records, revs, F, confirmed)
      /\ Linked(objects, session.records,
                Ancestors(objects, {session.local, session.remote}))
  BY <1>1 DEF Fine, SessionFine, Restorable
<1>6. PICK ps : ps = <<session.local, session.remote>>
  OBVIOUS
<1>7. /\ ps \in Seq(DOMAIN objects) /\ Len(ps) \in 0..2
      /\ Members(ps) = {session.local, session.remote}
  BY <1>5, <1>6 DEF Members
<1>8. PICK w : w = writer'
  OBVIOUS
<1>9. /\ w = [kind |-> w.kind, source |-> w.source, id |-> w.id,
              parents |-> w.parents, notes |-> w.notes, drafted |-> w.drafted]
      /\ w.source = head /\ w.parents = ps /\ w.notes = session.records /\ w.id = 0
  BY <1>6, <1>8
<1>10. 0 \in 0..Len(objects) /\ head \in Sources
  BY <1>2, RowsFacts DEF Rows
<1>11. WriterFine(w, objects, stored, revs, F, confirmed)
  <2> HIDE DEF StartMergeCommit
  <2> QED
    BY <1>5, <1>7, <1>9, <1>10 DEF WriterFine
<1>12. Fine(F)'
  BY <1>4, <1>8, <1>11, FineNext DEF OldFine
<1> QED
  BY <1>3, <1>12 DEF IInv

\* The snapshot a writer has written is restorable.
LEMMA NewTip ==
    ASSUME NEW objs, IsHistory(objs), NEW have \in SUBSET DOMAIN objs,
           NEW rv, NEW F, NEW C, NEW w, w # None, WriterFine(w, objs, have, rv, F, C),
           w.id # 0
    PROVE  /\ Restorable(objs, have, w.id)
           /\ Members(w.parents) \subseteq History(objs, w.id)
           /\ Members(w.parents) \subseteq 1..(w.id - 1)
<1>1. /\ w.id \in have /\ w.id \in DOMAIN objs
      /\ objs[w.id] = Object(w.parents, w.source, w.notes)
  BY DEF WriterFine
<1>2. objs[w.id].parents = w.parents /\ objs[w.id].notes = w.notes
  BY <1>1 DEF Object
<1>3. Parents(objs, w.id) = Members(w.parents)
  BY <1>2 DEF Parents
<1>4. \A p \in Members(w.parents) : Restorable(objs, have, p)
  BY DEF WriterFine
<1>5. Linked(objs, objs[w.id].notes, Ancestors(objs, Parents(objs, w.id)))
  BY <1>2, <1>3 DEF WriterFine
<1>6. LinkedAlong(objs, Chain(objs, w.id))
  BY <1>1, <1>3, <1>4, <1>5, LinksOfNew DEF Restorable
<1>7. /\ History(objs, w.id) = {w.id} \union Ancestors(objs, Members(w.parents))
      /\ Members(w.parents) \subseteq 1..(w.id - 1)
  BY <1>1, <1>3, HistoryShape
<1>8. History(objs, w.id) \subseteq have
  BY <1>1, <1>4, <1>7 DEF Restorable, Ancestors
<1>9. \A p \in Members(w.parents) : p \in History(objs, p)
  BY <1>4, HistoryShape DEF Restorable
<1> QED
  BY <1>1, <1>6, <1>7, <1>8, <1>9 DEF Restorable, Ancestors

\* The ref at a restorable snapshot whose rows were written.
LEMMA RefMoved ==
    ASSUME Rows, NEW have, NEW tip, Restorable(objects, have, tip), NEW cm, tip \in cm,
           NEW v \in Nat
    PROVE  RefFine([tip |-> tip, version |-> v], cm, objects, have)
BY RowsFacts DEF RefFine, IsRow, Restorable

LEMMA AdvanceKeeps ==
    ASSUME Rows, NEW F, Fine(F), writer # None, writer.id # 0,
           ws.source \in Sources,
           Advance(writer.id),
           session' = session \/ session' = None,
           UNCHANGED <<world, objects, stored, head, coverage, candidate,
                       sync, remote, tracking, revs, confirmed>>
    PROVE  IInv'
<1>1. OldFine(F)
  BY Stay
<1>2. Restorable(objects, stored, writer.id) /\ writer.id \in 1..Len(objects)
  <2>1. stored \in SUBSET DOMAIN objects /\ IsHistory(objects)
    BY DEF Rows
  <2>2. WriterFine(writer, objects, stored, revs, F, confirmed)
    BY DEF Fine
  <2>3. Restorable(objects, stored, writer.id)
    BY <2>1, <2>2, NewTip
  <2> QED
    BY <2>3, RowsFacts DEF Restorable
<1>3. ref.version \in Nat
  BY DEF Fine, RefFine, IsRow
<1>4. /\ commits' = commits \union {writer.id}
      /\ ref' = [tip |-> writer.id, version |-> ref.version + 1]
      /\ ws' = [ws EXCEPT !.base = writer.id]
      /\ pending' = Empty /\ writer' = None
      /\ search' = SearchAt(objects, coverage, ws.source, writer.id, Empty)
  BY SearchNow DEF Advance
<1>5. ws'.source = ws.source /\ ref'.tip = writer.id
  BY <1>4 DEF Rows
<1>6. Rows'
  BY <1>2, <1>4, <1>5 DEF Rows
<1>7. RefFine(ref', commits', objects, stored)
  BY <1>2, <1>3, <1>4, RefMoved
<1>8. PendingFine(pending', ref'.tip, objects, revs, F, confirmed)
  BY <1>4, EmptySound DEF PendingFine
<1>9. /\ WriterFine(writer', objects, stored, revs, F, confirmed)
      /\ SessionFine(None, objects, stored, revs, F, confirmed)
  BY <1>4 DEF WriterFine, SessionFine
<1>10. Fine(F)'
  BY <1>1, <1>4, <1>5, <1>7, <1>8, <1>9, FineNext DEF OldFine
<1> QED
  BY <1>6, <1>10 DEF IInv

LEMMA FinalizeCommitKeeps ==
    ASSUME IInv, FinalizeCommit
    PROVE  IInv'
<1>1. PICK F : Fine(F)
  BY DEF IInv
<1>2. Rows
  BY DEF IInv
<1>3. ws.source \in Sources
  BY <1>1 DEF FinalizeCommit, Fine, WriterFine
<1>4. /\ writer # None /\ writer.id # 0 /\ Advance(writer.id)
      /\ UNCHANGED <<world, objects, stored, head, coverage, candidate, session,
                     sync, remote, tracking, revs, confirmed>>
  BY DEF FinalizeCommit, ghosts
<1> QED
  BY <1>1, <1>2, <1>3, <1>4, AdvanceKeeps

LEMMA FinalizeMergeKeeps ==
    ASSUME IInv, FinalizeMerge
    PROVE  IInv'
<1>1. PICK F : Fine(F)
  BY DEF IInv
<1>2. Rows
  BY DEF IInv
<1>3. ws.source \in Sources
  BY <1>1 DEF FinalizeMerge, Fine, WriterFine
<1>4. /\ writer # None /\ writer.id # 0 /\ Advance(writer.id)
      /\ session' = None
      /\ UNCHANGED <<world, objects, stored, head, coverage, candidate,
                     sync, remote, tracking, revs, confirmed>>
  BY DEF FinalizeMerge, ghosts
<1> QED
  BY <1>1, <1>2, <1>3, <1>4, AdvanceKeeps

LEMMA StartPushKeeps ==
    ASSUME IInv, StartPush
    PROVE  IInv'
<1>1. PICK F : Fine(F)
  BY DEF IInv
<1>2. Rows
  BY DEF IInv
<1> USE DEF StartPush, projection, commands, ghosts
<1>3. Rows'
  BY <1>2 DEF Rows
<1>4. OldFine(F)
  BY <1>1, <1>2, Stay
<1>5. /\ IsHistory(objects) /\ IsRow(ref, objects) /\ IsRow(remote, objects)
      /\ ref.tip \in DOMAIN objects /\ ws.source \in Sources
  BY <1>1, <1>2, RowLater, RowsFacts DEF Rows, InWorkingSet, Fine, RefFine, RemoteFine
<1>6. ValidContextObject(objects[ref.tip])
  BY <1>5, LoadsRestorable
<1>7. PICK y : y = sync'
  OBVIOUS
<1>8. y.kind = "push" /\ y.source = head /\ y.local = ref /\ y.remote = remote
  BY <1>7
<1>9. IsAncestor(objects, ref.tip, remote.tip) /\ ref.tip # 0 /\ head \in Sources
  BY <1>2 DEF Rows
<1>10. SyncFine(y, objects)
  <2> HIDE DEF StartPush
  <2> QED
    BY <1>5, <1>6, <1>8, <1>9 DEF SyncFine
<1>11. Fine(F)'
  BY <1>4, <1>7, <1>10, FineNext DEF OldFine
<1> QED
  BY <1>3, <1>11 DEF IInv

LEMMA FinishPushKeeps ==
    ASSUME IInv, FinishPush
    PROVE  IInv'
<1>1. PICK F : Fine(F)
  BY DEF IInv
<1>2. Rows
  BY DEF IInv
<1> USE DEF FinishPush, projection, commands, ghosts
<1>3. OldFine(F)
  BY <1>1, <1>2, Stay
<1>4. /\ IsRow(sync.local, objects) /\ sync.local.tip # 0
      /\ ValidContextObject(objects[sync.local.tip])
  BY <1>1 DEF Fine, SyncFine
<1>5. PICK r : r = remote'
  OBVIOUS
<1>6. r = [tip |-> sync.local.tip, version |-> remote.version + 1]
      /\ remote.version \in Nat /\ sync.local.tip \in 0..Len(objects)
  BY <1>1, <1>4, <1>5 DEF Fine, RemoteFine, IsRow
<1>7. IsRow(r, objects) /\ r.tip = sync.local.tip
  BY <1>6 DEF IsRow
<1>8. RemoteFine(r, objects)
  BY <1>4, <1>7 DEF RemoteFine
<1>9. IsRow(tracking', objects)
  BY <1>2, <1>5, <1>7 DEF Track, Rows
<1>10. SyncFine(sync', objects)
  BY DEF SyncFine
<1>11. Rows'
  BY <1>2, <1>9 DEF Rows
<1>12. Fine(F)'
  BY <1>3, <1>5, <1>8, <1>10, FineNext DEF OldFine
<1> QED
  BY <1>11, <1>12 DEF IInv

LEMMA FetchKeeps ==
    ASSUME IInv, Fetch
    PROVE  IInv'
<1>1. PICK F : Fine(F)
  BY DEF IInv
<1>2. Rows
  BY DEF IInv
<1> USE DEF Fetch, projection, commands, ghosts
<1>3. OldFine(F)
  BY <1>1, <1>2, Stay
<1>4. /\ IsHistory(objects) /\ IsRow(ref, objects) /\ IsRow(remote, objects)
      /\ remote.tip \in DOMAIN objects /\ ws.source \in Sources
  BY <1>1, <1>2, RowLater, RowsFacts DEF Rows, InWorkingSet, Fine, RefFine, RemoteFine
<1>5. History(objects, remote.tip) \subseteq DOMAIN objects
  <2>1. Ancestors(objects, {remote.tip}) = History(objects, remote.tip)
    BY DEF Ancestors
  <2> QED
    BY <1>2, <1>4, <2>1, AncestorsLater, RowsFacts
<1>6. IsRow(tracking', objects)
  BY <1>2, <1>4 DEF Track, Rows
<1>7. Rows'
  BY <1>2, <1>5, <1>6 DEF Rows
<1>8. PICK y : y = sync'
  OBVIOUS
<1>9. /\ y.kind = "pull" /\ y.source = head /\ y.local = ref /\ y.remote = remote
      /\ remote.tip # 0 /\ head \in Sources
  BY <1>2, <1>8 DEF Rows
<1>10. SyncFine(y, objects)
  <2> HIDE DEF Fetch
  <2> QED
    BY <1>4, <1>9 DEF SyncFine
<1>11. Fine(F)'
  BY <1>3, <1>8, <1>10, FineNext DEF OldFine
<1> QED
  BY <1>7, <1>11 DEF IInv

LEMMA FastForwardKeeps ==
    ASSUME IInv, NEW recovery \in BOOLEAN, FastForward(recovery)
    PROVE  IInv'
<1>1. PICK F : Fine(F)
  BY DEF IInv
<1>2. Rows
  BY DEF IInv
<1> USE DEF FastForward, projection, commands, ghosts
<1>3. OldFine(F)
  BY <1>1, <1>2, Stay
<1>4. PICK tip : tip = sync.remote.tip
  OBVIOUS
<1>5. /\ tip # 0 /\ tip \in DOMAIN objects /\ IsHistory(objects)
      /\ ref.version \in Nat
  <2>1. IsRow(sync.remote, objects) /\ tip # 0 /\ IsRow(ref, objects)
    BY <1>1, <1>4 DEF Fine, SyncFine, RefFine
  <2> QED
    BY <1>2, <1>4, <2>1, RowsFacts DEF IsRow, Rows
<1>6. Restorable(objects, stored, tip)
  BY <1>4, <1>5, LoadsRestorable
<1>7. /\ commits' = commits \union History(objects, tip)
      /\ ref' = [tip |-> tip, version |-> ref.version + 1]
      /\ ws' = [ws EXCEPT !.base = tip]
      /\ search' = SearchAt(objects, coverage, ws.source, tip, Empty)
      /\ pending = Empty /\ pending' = pending
  BY <1>4, SearchNow
<1>8. ws'.source = ws.source /\ ref'.tip = tip
  BY <1>2, <1>7 DEF Rows
<1>9. tip \in History(objects, tip) /\ History(objects, tip) \subseteq DOMAIN objects
  BY <1>2, <1>5, <1>6, HistoryShape DEF Restorable, Rows
<1>10. Rows'
  BY <1>2, <1>7, <1>8, <1>9 DEF Rows
<1>11. RefFine(ref', commits', objects, stored)
  BY <1>2, <1>5, <1>6, <1>7, <1>9, RefMoved
<1>12. PendingFine(pending', ref'.tip, objects, revs, F, confirmed)
  BY <1>7, EmptySound DEF PendingFine
<1>13. SyncFine(sync', objects)
  BY DEF SyncFine
<1>14. Fine(F)'
  BY <1>3, <1>7, <1>8, <1>11, <1>12, <1>13, FineNext DEF OldFine
<1> QED
  BY <1>10, <1>14 DEF IInv

LEMMA ImportCandidateKeeps ==
    ASSUME IInv, NEW v \in DOMAIN Envelopes, ImportCandidate(v)
    PROVE  IInv'
<1>1. PICK F : Fine(F)
  BY DEF IInv
<1>2. Rows
  BY DEF IInv
<1> USE DEF ImportCandidate, projection, commands, ghosts
<1>3. OldFine(F)
  BY <1>1, <1>2, Stay
<1>4. /\ Envelopes[v].notes \subseteq Drafts
      /\ v \in 0..Len(Envelopes)
  <2> HIDE DEF ImportCandidate
  <2> DEFINE E == [merged : Sources, notes : SUBSET Drafts]
  <2>1. Envelopes \in Seq(E)
    BY LocalStoreAssumption
  <2>2. DOMAIN Envelopes = 1..Len(Envelopes) /\ Len(Envelopes) \in Nat
    BY ONLY <2>1, LenProperties
  <2>3. \A i \in 1..Len(Envelopes) : Envelopes[i] \in E
    BY ONLY <2>1, ElementOfSeq
  <2>4. Envelopes[v] \in E
    BY <2>2, <2>3
  <2> QED
    BY <2>2, <2>4
<1>5. PICK kept : kept = Restrict(candidate.notes, {d \in DOMAIN candidate.notes :
                            candidate.notes[d] # "draft"})
  OBVIOUS
<1>6. DOMAIN kept \subseteq Drafts
  BY <1>2, <1>5 DEF Restrict, Rows
<1>7. PICK fresh : fresh = [d \in Envelopes[v].notes |-> "draft"]
  OBVIOUS
<1>8. PICK o : o = Overlay(fresh, kept) /\ Overlays(fresh, kept, o)
  BY OverlayShape
<1>9. candidate' = [version |-> v, notes |-> o]
  BY <1>5, <1>7, <1>8
<1>10. IsMap(o) /\ DOMAIN o \subseteq Drafts
  BY <1>4, <1>6, <1>7, <1>8 DEF Overlays
<1>11. Rows'
  <2>1. candidate'.version = v /\ candidate'.notes = o
    BY <1>9
  <2> QED
    BY <1>2, <1>4, <1>9, <1>10, <2>1 DEF Rows
<1>12. Fine(F)'
  BY <1>3, FineNext DEF OldFine
<1> QED
  BY <1>11, <1>12 DEF IInv

LEMMA LoseProjectionKeeps ==
    ASSUME IInv, LoseProjection
    PROVE  IInv'
<1>1. PICK F : Fine(F)
  BY DEF IInv
<1>2. Rows
  BY DEF IInv
<1> USE DEF LoseProjection, projection, commands, ghosts
<1>3. OldFine(F)
  BY <1>1, <1>2, Stay
<1>4. IsRow(NoRef, objects) /\ NoRef.tip = 0
  BY <1>2, RowsFacts DEF IsRow, NoRef
<1>5. /\ NoSet = [source |-> NoSet.source, base |-> NoSet.base]
      /\ NoSet.source = NoSource /\ NoSet.base = 0
      /\ NoCandidate = [version |-> NoCandidate.version, notes |-> NoCandidate.notes]
      /\ NoCandidate.version \in 0..Len(Envelopes)
      /\ IsMap(NoCandidate.notes) /\ DOMAIN NoCandidate.notes \subseteq Drafts
  <2>1. Len(Envelopes) \in Nat
    BY LocalStoreAssumption
  <2>2. IsMap(Empty) /\ DOMAIN Empty = {}
    BY DEF IsMap, Empty
  <2> QED
    BY <2>1, <2>2 DEF NoSet, NoCandidate
<1>6. Rows'
  BY <1>2, <1>4, <1>5 DEF Rows
<1>7. RefFine(ref', commits', objects, stored)
  BY <1>4 DEF RefFine
<1>8. PendingFine(pending', ref'.tip, objects, revs, F, confirmed)
  BY EmptySound DEF PendingFine
<1>9. SessionFine(session', objects, stored, revs, F, confirmed)
  BY DEF SessionFine
<1>10. ws'.source = NoSource
  BY <1>5
<1>11. Fine(F)'
  BY <1>3, <1>7, <1>8, <1>9, <1>10, FineNext DEF OldFine
<1> QED
  BY <1>6, <1>11 DEF IInv

LEMMA RebuildKeeps ==
    ASSUME IInv, NEW tip \in stored, Rebuild(tip)
    PROVE  IInv'
<1>1. PICK F : Fine(F)
  BY DEF IInv
<1>2. Rows
  BY DEF IInv
<1> USE DEF Rebuild, projection, commands, ghosts
<1>3. OldFine(F)
  BY <1>1, <1>2, Stay
<1>4. /\ tip \in DOMAIN objects /\ IsHistory(objects)
      /\ pending = Empty /\ head \in Sources
  BY <1>2 DEF Rows, NoSet
<1>5. Restorable(objects, stored, tip)
  BY <1>4, LoadsRestorable
<1>6. /\ ref' = [tip |-> tip, version |-> Len(Chain(objects, tip))]
      /\ commits' = History(objects, tip)
      /\ ws' = [source |-> head, base |-> tip]
      /\ search' = SearchAt(objects, coverage', head, tip, Empty)
  BY SearchNow DEF History
<1>7. /\ Len(Chain(objects, tip)) \in Nat
      /\ tip \in History(objects, tip) /\ History(objects, tip) \subseteq DOMAIN objects
  <2>1. Chain(objects, tip) \in Seq(1..tip)
    BY <1>4, HistoryShape
  <2> QED
    BY <1>2, <1>4, <1>5, <2>1, HistoryShape DEF Restorable, Rows
<1>8. ref'.tip = tip /\ ws'.base = tip /\ ws'.source = head
  BY <1>6
<1>9. Rows'
  BY <1>2, <1>4, <1>6, <1>7, <1>8, LocalStoreAssumption DEF Rows
<1>10. RefFine(ref', commits', objects, stored)
  BY <1>2, <1>5, <1>6, <1>7, RefMoved
<1>11. PendingFine(pending', ref'.tip, objects, revs, F, confirmed)
  BY <1>4, EmptySound DEF PendingFine
<1>12. Fine(F)'
  BY <1>3, <1>4, <1>6, <1>8, <1>10, <1>11, FineNext DEF OldFine
<1> QED
  BY <1>9, <1>12 DEF IInv

\* The active notes of the tip, followed to another source.
LEMMA ReconciledFine ==
    ASSUME Rows, NEW F, Fine(F), Readable(ref.tip), NEW cov, NEW source \in Sources
    PROVE  PendingFine(ReconciledNotes(cov, source), ref.tip, objects, revs, F, confirmed)
<1>1. PICK notes : notes = NotesAt(objects, ref.tip)
  OBVIOUS
<1>2. /\ IsRow(ref, objects) /\ (ref.tip # 0 => ref.tip \in DOMAIN objects)
      /\ ref.tip # 0 => Restorable(objects, stored, ref.tip)
  BY RowLater, RowsFacts DEF Fine, RefFine
<1>3. ref.tip # 0 => ValidContextObject(objects[ref.tip])
  BY <1>2, LoadsRestorable DEF Readable, Rows
<1>4. Sound(notes, revs, F, confirmed)
  BY <1>1, <1>2, NotesAtSound DEF Fine
<1>5. Linked(objects, notes, Below(objects, ref.tip))
  BY <1>1, <1>2, NotesAtLinked DEF Rows
<1>6. \A n \in DOMAIN notes : notes[n].src = objects[ref.tip].source
  BY <1>1, <1>3 DEF NotesAt, Empty, ValidContextObject
<1> DEFINE after(n) == Reconcile(notes[n], HashAt(objects[ref.tip].source, notes[n].entity),
                                 FreshEntities(cov, source), source)
<1>7. PICK o : o = ReconciledNotes(cov, source)
  OBVIOUS
<1>8. /\ IsMap(o) /\ DOMAIN o \subseteq DOMAIN notes
      /\ \A n \in DOMAIN o : o[n] = after(n)
  <2>1. CommittedNotes(ref.tip) = notes
    BY <1>1, NotesNow
  <2> HIDE DEF after
  <2>2. PICK moved : moved = {n \in DOMAIN notes \ DOMAIN pending :
                                 notes[n].state = "active" /\ after(n) # notes[n]}
    OBVIOUS
  <2>3. o = [n \in moved |-> after(n)]
    BY <1>7, <2>1, <2>2 DEF ReconciledNotes, after
  <2> QED
    BY <2>2, <2>3 DEF IsMap
<1>9. FreshEntities(cov, source) = Tree[source] \/ FreshEntities(cov, source) = Empty
  BY DEF FreshEntities
<1>10. ASSUME NEW n \in DOMAIN o
       PROVE  SoundNote(n, o[n], revs, F, confirmed) /\ o[n].sup = notes[n].sup
  <2>1. SoundNote(n, notes[n], revs, F, confirmed)
    BY <1>4, <1>8 DEF Sound
  <2>2. Follows(notes[n], HashAt(notes[n].src, notes[n].entity), source, o[n])
    <3>1. notes[n] \in Notes /\ notes[n].src = objects[ref.tip].source
      BY <1>6, <1>8, <2>1 DEF SoundNote
    <3>2. Follows(notes[n], HashAt(objects[ref.tip].source, notes[n].entity), source, after(n))
      BY <1>9, <3>1, ReconcileFollows
    <3> HIDE DEF after
    <3> QED
      BY <1>8, <3>1, <3>2
  <2>3. SoundNote(n, o[n], revs, F, confirmed)
    BY <2>1, <2>2, FollowsSound
  <2> QED
    BY <2>2, <2>3 DEF Follows
<1> HIDE DEF after
<1>11. Sound(o, revs, F, confirmed)
  BY <1>4, <1>8, <1>10 DEF Sound
<1>12. Linked(objects, o, Below(objects, ref.tip))
  BY <1>5, <1>8, <1>10 DEF Linked
<1> QED
  BY <1>7, <1>11, <1>12 DEF PendingFine

LEMMA ApplyIndexUpdateKeeps ==
    ASSUME IInv, NEW state, ApplyIndexUpdate(state)
    PROVE  IInv'
<1>1. PICK F : Fine(F)
  BY DEF IInv
<1>2. Rows
  BY DEF IInv
<1>3. /\ UNCHANGED <<world, objects, stored, head, ref, commits, candidate, session,
                     writer, sync, remote, tracking, revs, confirmed>>
      /\ Readable(ref.tip)
      /\ ws' = WorkingSetAt(head)
      /\ pending' = Overlay(pending, ReconciledNotes(coverage', head))
      /\ search' = SearchOf(coverage', head, ref.tip, pending')
  BY DEF ApplyIndexUpdate, commands, ghosts
<1>4. OldFine(F)
  BY <1>1, <1>2, <1>3, Stay
<1>5. head \in Sources /\ head # NoSource
  BY <1>2, LocalStoreAssumption DEF Rows
<1>6. PICK o : o = ReconciledNotes(coverage', head)
  OBVIOUS
<1>7. PendingFine(o, ref.tip, objects, revs, F, confirmed)
  BY <1>1, <1>2, <1>3, <1>5, <1>6, ReconciledFine
<1>8. PendingFine(pending', ref.tip, objects, revs, F, confirmed)
  BY <1>1, <1>3, <1>6, <1>7, OverlaySound, OverlayLinked DEF PendingFine, Fine
<1>9. ws' = [source |-> head, base |-> ref.tip]
  BY <1>2, <1>3 DEF WorkingSetAt, Rows
<1>10. Rows'
  <2>1. ws'.source = head /\ ws'.base = ref.tip
    BY <1>9
  <2> QED
    BY <1>2, <1>3, <1>5, <1>9, <2>1 DEF Rows
<1>11. search' = SearchAt(objects, coverage', ws'.source, ref.tip, pending')
  BY <1>3, <1>9, SearchNow
<1>12. Fine(F)'
  BY <1>3, <1>4, <1>8, <1>11, FineNext DEF OldFine
<1> QED
  BY <1>10, <1>12 DEF IInv

\* An automatic merge takes every note from one of the two sides.
LEMMA AutomaticFine ==
    ASSUME NEW objs, NEW rv, NEW F, NEW C, NEW ids, NEW B, NEW L, NEW R,
           Sound(L, rv, F, C), Sound(R, rv, F, C),
           Linked(objs, L, ids), Linked(objs, R, ids)
    PROVE  Sound(Automatic(B, L, R), rv, F, C) /\ Linked(objs, Automatic(B, L, R), ids)
<1> DEFINE pick(n) == IF Held(L, n) = Held(R, n) THEN Held(L, n)
                      ELSE IF Held(L, n) = Held(B, n) THEN Held(R, n)
                      ELSE Held(L, n)
           kept == {n \in (DOMAIN B \union DOMAIN L \union DOMAIN R)
                             \ Undecided(B, L, R) : pick(n) # {}}
<1>1. PICK o : o = Automatic(B, L, R)
  OBVIOUS
<1>2. o = [n \in kept |-> CHOOSE r \in pick(n) : TRUE]
  BY <1>1 DEF Automatic
<1>3. \A n : pick(n) = Held(L, n) \/ pick(n) = Held(R, n)
  OBVIOUS
<1> HIDE DEF pick
<1>4. \A n \in kept : pick(n) # {}
  OBVIOUS
<1> HIDE DEF kept
<1>5. IsMap(o) /\ DOMAIN o = kept
  BY <1>2 DEF IsMap
<1>6. ASSUME NEW n \in DOMAIN o
      PROVE  (n \in DOMAIN L /\ o[n] = L[n]) \/ (n \in DOMAIN R /\ o[n] = R[n])
  <2>1. o[n] \in pick(n)
    BY <1>2, <1>4, <1>5
  <2> QED
    BY <1>3, <2>1 DEF Held
<1>7. Sound(o, rv, F, C)
  BY <1>5, <1>6 DEF Sound
<1>8. Linked(objs, o, ids)
  BY <1>6 DEF Linked
<1> QED
  BY <1>1, <1>7, <1>8

\* The notes of a restorable tip are linked among its ancestors.
LEMMA SideFine ==
    ASSUME Rows, NEW F, Fine(F), NEW tip, Restorable(objects, stored, tip),
           NEW tips, tip \in tips
    PROVE  /\ Sound(objects[tip].notes, revs, F, confirmed)
           /\ Linked(objects, objects[tip].notes, Ancestors(objects, tips))
<1>1. tip \in DOMAIN objects /\ tip # 0 /\ IsHistory(objects)
  BY RowsFacts DEF Restorable, Rows
<1>2. objects[tip].notes = NotesAt(objects, tip) /\ Below(objects, tip) = History(objects, tip)
  BY <1>1 DEF NotesAt, Below
<1>3. Linked(objects, objects[tip].notes, History(objects, tip))
  BY <1>1, <1>2, NotesAtLinked
<1>4. History(objects, tip) \subseteq Ancestors(objects, tips)
  BY DEF Ancestors
<1> QED
  BY <1>1, <1>3, <1>4, LinkedInMore DEF Fine, ObjectsFine

LEMMA StartMergeKeeps ==
    ASSUME IInv, NEW other \in stored, StartMerge(other)
    PROVE  IInv'
<1>1. PICK F : Fine(F)
  BY DEF IInv
<1>2. Rows
  BY DEF IInv
<1>3. /\ UNCHANGED <<world, objects, stored, head, ws, coverage, pending, ref, commits,
                     search, candidate, writer, sync, remote, tracking, revs, confirmed>>
      /\ ref.tip # 0
      /\ Loads(objects, stored, ref.tip) /\ Loads(objects, stored, other)
      /\ CommonAncestors(objects, ref.tip, other) # {}
  BY DEF StartMerge, commands, ghosts
<1>4. OldFine(F)
  BY <1>1, <1>2, <1>3, Stay
<1>5. /\ IsHistory(objects) /\ other \in DOMAIN objects /\ ref.tip \in DOMAIN objects
      /\ head \in Sources
  BY <1>1, <1>2, <1>3, RowLater, RowsFacts DEF Rows, Fine, RefFine
<1>6. Restorable(objects, stored, ref.tip) /\ Restorable(objects, stored, other)
  BY <1>3, <1>5, LoadsRestorable
<1>7. PICK base : base = FindMergeBase(objects, ref.tip, other)
  OBVIOUS
<1>8. base \in History(objects, ref.tip)
  BY <1>3, <1>5, <1>7, MergeBaseIsCommon DEF CommonAncestors
<1>9. PICK ids, B, L, R : /\ ids = Ancestors(objects, {ref.tip, other})
                          /\ B = objects[base].notes /\ L = objects[ref.tip].notes
                          /\ R = objects[other].notes
  OBVIOUS
<1>10. /\ Sound(L, revs, F, confirmed) /\ Linked(objects, L, ids)
       /\ Sound(R, revs, F, confirmed) /\ Linked(objects, R, ids)
  BY <1>1, <1>2, <1>6, <1>9, SideFine
<1>11. PICK records, open : records = Automatic(B, L, R) /\ open = Undecided(B, L, R)
  OBVIOUS
<1>12. Sound(records, revs, F, confirmed) /\ Linked(objects, records, ids)
  BY <1>10, <1>11, AutomaticFine
<1>13. PICK x : x = session'
  OBVIOUS
<1>14. x = [local |-> ref.tip, remote |-> other, base |-> base,
            source |-> head, records |-> records, open |-> open]
  BY <1>7, <1>9, <1>11, <1>13 DEF StartMerge
<1>15. /\ x = [local |-> x.local, remote |-> x.remote, base |-> x.base,
               source |-> x.source, records |-> x.records, open |-> x.open]
       /\ x.local = ref.tip /\ x.remote = other /\ x.base = base
       /\ x.source = head /\ x.records = records
  BY <1>14
<1>16. SessionFine(x, objects, stored, revs, F, confirmed)
  BY <1>5, <1>6, <1>8, <1>9, <1>12, <1>15 DEF SessionFine
<1>17. Rows'
  BY <1>2, <1>3 DEF Rows
<1>18. Fine(F)'
  BY <1>3, <1>4, <1>13, <1>16, FineNext DEF OldFine
<1> QED
  BY <1>17, <1>18 DEF IInv

-----------------------------------------------------------------------------
(* Steps that write or confirm revisions.                                  *)

\* A revision is confirmed for more code.
LEMMA ConfirmedMore ==
    ASSUME Rows, NEW rev \in 1..world.revs, NEW hashes,
           confirmed' = [confirmed EXCEPT ![rev] = hashes]
    PROVE  /\ IsMap(confirmed') /\ DOMAIN confirmed' = 1..world.revs
           /\ confirmed'[rev] = hashes
           /\ \A r \in 1..world.revs : r # rev => confirmed'[r] = confirmed[r]
BY DEF Rows, IsMap

\* The ledger gets the next revision.
LEMMA OneRevision ==
    ASSUME Rows, NEW F, Fine(F), revs' = revs + 1,
           Continues(objects, objects'), stored \subseteq stored',
           \A r \in 1..revs : confirmed[r] \subseteq confirmed'[r],
           NEW n, NEW sup
    PROVE  \E G : /\ OldFine(G) /\ G[revs + 1] = <<n, sup>>
                  /\ BooksGrow(revs, F, confirmed, revs', G, confirmed')
<1> DEFINE G == [r \in 1..(revs + 1) |-> IF r = revs + 1 THEN <<n, sup>> ELSE F[r]]
<1>1. revs \in Nat
  BY RowsFacts
<1>2. G[revs + 1] = <<n, sup>> /\ \A r \in 1..revs : G[r] = F[r]
  BY <1>1
<1> HIDE DEF G
<1>3. BooksGrow(revs, F, confirmed, revs', G, confirmed')
  BY <1>1, <1>2 DEF BooksGrow
<1>4. Later(objects, stored, revs, F, confirmed, objects', stored', revs', G, confirmed')
  BY <1>3 DEF Later
<1> QED
  BY <1>2, <1>3, <1>4, Carry

\* A conflict of the session is settled with a sound record.
LEMMA ResolvedFine ==
    ASSUME NEW G, OldFine(G), session # None, NEW n \in NoteIds, NEW record,
           Resolved(n, record), SoundNote(n, record, revs', G, confirmed'),
           NEW one, one = [m \in {n} |-> record],
           Linked(objects, one, Ancestors(objects, {session.local, session.remote}))
    PROVE  Fine(G)'
<1>1. /\ UNCHANGED <<world, objects, stored, head, ws, coverage, pending, ref, commits,
                     search, candidate, writer, sync, remote, tracking>>
      /\ session' = [session EXCEPT !.records = Overlay(session.records, one),
                                    !.open = session.open \ {n}]
  BY DEF Resolved, commands
<1>2. SessionFine(session, objects, stored, revs', G, confirmed')
  BY <1>1 DEF OldFine
<1>3. /\ session = [local |-> session.local, remote |-> session.remote,
                    base |-> session.base, source |-> session.source,
                    records |-> session.records, open |-> session.open]
      /\ Sound(session.records, revs', G, confirmed')
      /\ Linked(objects, session.records,
                Ancestors(objects, {session.local, session.remote}))
  BY <1>2 DEF SessionFine
<1>4. PICK x, records, open : /\ x = session' /\ records = Overlay(session.records, one)
                              /\ open = session.open \ {n}
  OBVIOUS
<1>5. x = [session EXCEPT !.records = records, !.open = open]
  BY <1>1, <1>4
<1>6. /\ x = [local |-> x.local, remote |-> x.remote, base |-> x.base,
              source |-> x.source, records |-> x.records, open |-> x.open]
      /\ x.local = session.local /\ x.remote = session.remote /\ x.base = session.base
      /\ x.source = session.source /\ x.records = records
  BY ONLY <1>3, <1>5
<1>7. Sound(one, revs', G, confirmed')
  BY OneNote
<1>8. /\ Sound(records, revs', G, confirmed')
      /\ Linked(objects, records, Ancestors(objects, {session.local, session.remote}))
  BY <1>3, <1>4, <1>7, OverlaySound, OverlayLinked
<1>9. SessionFine(x, objects, stored, revs', G, confirmed')
  BY <1>2, <1>6, <1>8 DEF SessionFine
<1> QED
  BY <1>1, <1>4, <1>9, FineNext DEF OldFine

LEMMA ResolveMergeKeeps ==
    ASSUME IInv, NEW n \in NoteIds, ResolveMerge(n)
    PROVE  IInv'
<1>1. PICK F : Fine(F)
  BY DEF IInv
<1>2. Rows
  BY DEF IInv
<1>3. PICK side \in {session.local, session.remote} :
         n \in DOMAIN objects[side].notes /\ Resolved(n, objects[side].notes[n])
  BY DEF ResolveMerge
<1>4. session # None /\ revs' = revs /\ confirmed' = confirmed
  BY DEF ResolveMerge
<1>5. /\ UNCHANGED <<world, objects, stored, head, ws, coverage, pending, ref, commits,
                     search, candidate, writer, sync, remote, tracking>>
  BY <1>3 DEF Resolved, commands
<1>6. OldFine(F)
  BY <1>1, <1>2, <1>4, <1>5, Stay
<1>7. Restorable(objects, stored, side)
  BY <1>1, <1>3, <1>4 DEF Fine, SessionFine
<1>8. PICK ids : ids = Ancestors(objects, {session.local, session.remote})
  OBVIOUS
<1>9. PICK notes : notes = objects[side].notes
  OBVIOUS
<1>10. Sound(notes, revs, F, confirmed) /\ Linked(objects, notes, ids)
  BY <1>1, <1>2, <1>3, <1>7, <1>8, <1>9, SideFine
<1>11. SoundNote(n, notes[n], revs, F, confirmed)
  BY <1>3, <1>9, <1>10 DEF Sound
<1>12. PICK one : one = [m \in {n} |-> notes[n]]
  OBVIOUS
<1>13. Linked(objects, one, ids)
  BY <1>3, <1>9, <1>10, <1>12 DEF Linked
<1>14. Fine(F)'
  BY <1>3, <1>4, <1>6, <1>8, <1>9, <1>11, <1>12, <1>13, ResolvedFine
<1>15. Rows'
  BY <1>2, <1>4, <1>5 DEF Rows
<1> QED
  BY <1>14, <1>15 DEF IInv

LEMMA AuthorMergeKeeps ==
    ASSUME IInv, NEW n \in NoteIds, NEW k \in Keys, AuthorMerge(n, k)
    PROVE  IInv'
<1>1. PICK F : Fine(F)
  BY DEF IInv
<1>2. Rows
  BY DEF IInv
<1>3. PICK base, sup : /\ base = objects[session.base].notes
                       /\ sup = IF n \in DOMAIN base THEN base[n].rev ELSE 0
  OBVIOUS
<1>4. PICK record : record = Entry(revs + 1, sup, k, "active", session.source)
  OBVIOUS
<1>5. /\ session # None /\ revs < world.revs /\ revs' = revs + 1
      /\ Resolved(n, record)
      /\ confirmed' = [confirmed EXCEPT ![revs + 1] = HashAt(session.source, k)]
  BY <1>3, <1>4 DEF AuthorMerge
<1>6. /\ UNCHANGED <<world, objects, stored, head, ws, coverage, pending, ref, commits,
                     search, candidate, writer, sync, remote, tracking>>
  BY <1>5 DEF Resolved, commands
<1>7. revs \in Nat /\ world.revs \in Nat /\ revs + 1 \in 1..world.revs
  BY <1>2, <1>5, RowsFacts
<1>8. /\ IsMap(confirmed') /\ DOMAIN confirmed' = 1..world.revs
      /\ confirmed'[revs + 1] = HashAt(session.source, k)
      /\ \A r \in 1..world.revs : r # revs + 1 => confirmed'[r] = confirmed[r]
  BY <1>2, <1>5, <1>7, ConfirmedMore
<1>9. PICK G : OldFine(G) /\ G[revs + 1] = <<n, sup>>
  <2>1. \A r \in 1..revs : confirmed[r] \subseteq confirmed'[r]
    BY <1>7, <1>8
  <2>2. Continues(objects, objects') /\ stored \subseteq stored'
    BY <1>2, <1>6, RowsFacts
  <2> QED
    BY <1>1, <1>2, <1>5, <2>1, <2>2, OneRevision
<1>10. /\ session.source \in Sources /\ session.local \in DOMAIN objects
       /\ session.base \in DOMAIN objects
       /\ session.base \in History(objects, session.local)
  <2>1. /\ session.source \in Sources /\ session.local \in DOMAIN objects
        /\ session.base \in History(objects, session.local)
    BY <1>1, <1>5 DEF Fine, SessionFine, Restorable
  <2>2. History(objects, session.local) \subseteq 1..session.local
        /\ session.local \in 1..Len(objects)
    BY <1>2, <2>1, RowsFacts, HistoryShape DEF Rows
  <2> QED
    BY <1>2, <2>1, <2>2, RowsFacts
<1>11. Sound(base, revs, F, confirmed)
  BY <1>1, <1>3, <1>10 DEF Fine, ObjectsFine
<1>12. sup \in Nat
  BY <1>3, <1>11 DEF Sound, SoundNote, Notes
<1>13. SoundNote(n, record, revs', G, confirmed')
  <2>1. /\ record.rev = revs + 1 /\ record.sup = sup /\ record.entity = k
        /\ record.state = "active" /\ record.src = session.source
    BY <1>4 DEF Entry
  <2>2. record \in Notes
    BY <1>4, <1>7, <1>10, <1>12 DEF Entry, Notes, States
  <2>3. revs + 1 \in 1..revs'
    BY <1>5, <1>7
  <2> QED
    BY <1>8, <1>9, <2>1, <2>2, <2>3 DEF SoundNote
<1>14. PICK one : one = [m \in {n} |-> record]
  OBVIOUS
<1>15. Linked(objects, one, Ancestors(objects, {session.local, session.remote}))
  <2>1. DOMAIN one = {n} /\ one[n].sup = sup
    BY <1>4, <1>14 DEF Entry
  <2>2. session.base \in Ancestors(objects, {session.local, session.remote})
    BY <1>10 DEF Ancestors
  <2> QED
    BY <1>3, <2>1, <2>2 DEF Linked
<1>16. Fine(G)'
  BY <1>5, <1>9, <1>13, <1>14, <1>15, ResolvedFine
<1>17. Rows'
  BY <1>2, <1>5, <1>6, <1>7, <1>8 DEF Rows
<1> QED
  BY <1>16, <1>17 DEF IInv

\* A draft whose row is fine, over the lineages G.
DraftIsFine(G, n, note, one) ==
    /\ OldFine(G) /\ InWorkingSet /\ Draft(n, note)
    /\ revs' \in 0..world.revs
    /\ IsMap(confirmed') /\ DOMAIN confirmed' = 1..world.revs
    /\ SoundNote(n, note, revs', G, confirmed')
    /\ one = [m \in {n} |-> note]
    /\ Linked(objects, one, Below(objects, ref.tip))

\* A pending row is written, and the search index with it.
LEMMA DraftKeeps ==
    ASSUME Rows, NEW G, NEW n \in NoteIds, NEW note, NEW one, DraftIsFine(G, n, note, one)
    PROVE  IInv'
<1>0. /\ OldFine(G) /\ InWorkingSet /\ Draft(n, note)
      /\ revs' \in 0..world.revs
      /\ IsMap(confirmed') /\ DOMAIN confirmed' = 1..world.revs
      /\ SoundNote(n, note, revs', G, confirmed')
      /\ one = [m \in {n} |-> note]
      /\ Linked(objects, one, Below(objects, ref.tip))
  BY DEF DraftIsFine
<1>1. /\ UNCHANGED <<world, objects, stored, head, ws, coverage, ref, commits, candidate,
                     session, writer, sync, remote, tracking>>
      /\ pending' = Overlay(pending, one)
      /\ search' = SearchAt(objects, coverage, ws.source, ref.tip, pending')
  BY <1>0, SearchNow DEF Draft, commands
<1>2. ws.source # NoSource
  BY <1>0, LocalStoreAssumption DEF Rows, InWorkingSet
<1>3. Rows'
  BY <1>0, <1>1, <1>2 DEF Rows
<1>4. Sound(one, revs', G, confirmed')
  BY <1>0, OneNote
<1>5. PendingFine(pending, ref.tip, objects, revs', G, confirmed')
  BY <1>0, <1>1 DEF OldFine
<1>6. PendingFine(pending', ref.tip, objects, revs', G, confirmed')
  BY <1>0, <1>1, <1>4, <1>5, OverlaySound, OverlayLinked DEF PendingFine
<1>7. Fine(G)'
  BY <1>0, <1>1, <1>6, FineNext DEF OldFine
<1> QED
  BY <1>3, <1>7 DEF IInv

\* What a draft in the working set reads.
LEMMA InTheWorkingSet ==
    ASSUME Rows, InWorkingSet
    PROVE  /\ ws.source \in Sources /\ ws.base = ref.tip
           /\ DOMAIN FreshEntities(coverage, ws.source) \subseteq Keys
BY LocalStoreAssumption DEF Rows, InWorkingSet, FreshEntities, Empty

LEMMA AddPendingNoteKeeps ==
    ASSUME IInv, NEW n \in NoteIds, NEW k \in Keys, AddPendingNote(n, k)
    PROVE  IInv'
<1>1. PICK F : Fine(F)
  BY DEF IInv
<1>2. Rows
  BY DEF IInv
<1>3. PICK note, hashes : /\ note = Entry(revs + 1, 0, k, "active", ws.source)
                          /\ hashes = confirmed[revs + 1] \union HashAt(ws.source, k)
  OBVIOUS
<1>4. /\ revs < world.revs /\ revs' = revs + 1 /\ InWorkingSet
      /\ Draft(n, note)
      /\ confirmed' = [confirmed EXCEPT ![revs + 1] = hashes]
  BY <1>3 DEF AddPendingNote, Confirm
<1>5. revs \in Nat /\ world.revs \in Nat /\ revs + 1 \in 1..world.revs
  BY <1>2, <1>4, RowsFacts
<1>6. /\ IsMap(confirmed') /\ DOMAIN confirmed' = 1..world.revs
      /\ confirmed'[revs + 1] = hashes
      /\ \A r \in 1..world.revs : r # revs + 1 => confirmed'[r] = confirmed[r]
  BY <1>2, <1>4, <1>5, ConfirmedMore
<1>7. PICK G : OldFine(G) /\ G[revs + 1] = <<n, 0>>
  <2>1. \A r \in 1..revs : confirmed[r] \subseteq confirmed'[r]
    BY <1>5, <1>6
  <2>2. Continues(objects, objects') /\ stored \subseteq stored'
    BY <1>2, <1>4, RowsFacts DEF Draft
  <2> QED
    BY <1>1, <1>2, <1>4, <2>1, <2>2, OneRevision
<1>8. SoundNote(n, note, revs', G, confirmed')
  <2>1. /\ note.rev = revs + 1 /\ note.sup = 0 /\ note.entity = k
        /\ note.state = "active" /\ note.src = ws.source
    BY <1>3 DEF Entry
  <2>2. note \in Notes
    BY <1>2, <1>3, <1>4, <1>5, InTheWorkingSet DEF Entry, Notes, States
  <2>3. revs + 1 \in 1..revs'
    BY <1>4, <1>5
  <2> QED
    BY <1>3, <1>6, <1>7, <2>1, <2>2, <2>3 DEF SoundNote
<1>9. PICK one : one = [m \in {n} |-> note]
  OBVIOUS
<1>10. Linked(objects, one, Below(objects, ref.tip))
  BY <1>3, <1>9 DEF Linked, Entry
<1>11. revs' \in 0..world.revs
  BY <1>4, <1>5
<1>12. DraftIsFine(G, n, note, one)
  BY <1>4, <1>6, <1>7, <1>8, <1>9, <1>10, <1>11 DEF DraftIsFine
<1> QED
  BY ONLY <1>2, <1>12, n \in NoteIds, DraftKeeps

LEMMA ReviseNoteKeeps ==
    ASSUME IInv, NEW n \in NoteIds, ReviseNote(n)
    PROVE  IInv'
<1>1. PICK F : Fine(F)
  BY DEF IInv
<1>2. Rows
  BY DEF IInv
<1>3. PICK before : before = CommittedNotes(ws.base)
  OBVIOUS
<1>4. PICK parent, current : /\ parent = before[n]
                             /\ current = Overlay(before, pending)[n]
  OBVIOUS
<1>5. PICK k, note, hashes :
         /\ k = current.entity
         /\ note = Entry(revs + 1, current.rev, k, "active", ws.source)
         /\ hashes = confirmed[revs + 1] \union HashAt(ws.source, k)
  OBVIOUS
<1>6. /\ InWorkingSet /\ n \in DOMAIN before
      /\ n \in DOMAIN pending => current.rev = parent.rev
      /\ k \in DOMAIN FreshEntities(coverage, ws.source)
      /\ revs < world.revs /\ revs' = revs + 1
      /\ Draft(n, note)
      /\ confirmed' = [confirmed EXCEPT ![revs + 1] = hashes]
  BY <1>3, <1>4, <1>5 DEF ReviseNote, Confirm
<1>7. revs \in Nat /\ world.revs \in Nat /\ revs + 1 \in 1..world.revs
  BY <1>2, <1>6, RowsFacts
<1>8. /\ IsMap(confirmed') /\ DOMAIN confirmed' = 1..world.revs
      /\ confirmed'[revs + 1] = hashes
      /\ \A r \in 1..world.revs : r # revs + 1 => confirmed'[r] = confirmed[r]
  BY <1>2, <1>6, <1>7, ConfirmedMore
<1>9. current.rev = parent.rev
  <2>1. CASE n \in DOMAIN pending
    BY <1>6, <2>1
  <2>2. CASE n \notin DOMAIN pending
    <3>1. current = parent
      BY <1>4, <1>6, <2>2 DEF Overlay
    <3> QED
      BY <3>1
  <2> QED
    BY <2>1, <2>2
<1>10. /\ before = NotesAt(objects, ref.tip) /\ ref.tip # 0
       /\ before = objects[ref.tip].notes
       /\ ref.tip \in DOMAIN objects /\ ref.tip \in Below(objects, ref.tip)
  <2>1. before = NotesAt(objects, ref.tip) /\ ref.tip # 0
    BY <1>2, <1>3, <1>6, NotesNow, InTheWorkingSet DEF NotesAt, Empty
  <2>2. Restorable(objects, stored, ref.tip)
    BY <1>1, <2>1 DEF Fine, RefFine
  <2>3. ref.tip \in History(objects, ref.tip) /\ ref.tip \in DOMAIN objects
    BY <1>2, <2>2, HistoryShape DEF Restorable, Rows
  <2> QED
    BY <2>1, <2>3 DEF Below, NotesAt
<1>11. Sound(before, revs, F, confirmed)
  BY <1>1, <1>10 DEF Fine, ObjectsFine
<1>12. parent.rev \in Nat
  BY <1>4, <1>6, <1>11 DEF Sound, SoundNote, Notes
<1>13. PICK G : OldFine(G) /\ G[revs + 1] = <<n, parent.rev>>
  <2>1. \A r \in 1..revs : confirmed[r] \subseteq confirmed'[r]
    BY <1>7, <1>8
  <2>2. Continues(objects, objects') /\ stored \subseteq stored'
    BY <1>2, <1>6, RowsFacts DEF Draft
  <2> QED
    BY <1>1, <1>2, <1>6, <2>1, <2>2, OneRevision
<1>14. SoundNote(n, note, revs', G, confirmed')
  <2>1. /\ note.rev = revs + 1 /\ note.sup = parent.rev /\ note.entity = k
        /\ note.state = "active" /\ note.src = ws.source
    BY <1>5, <1>9 DEF Entry
  <2>2. k \in Keys /\ ws.source \in Sources
    BY <1>2, <1>6, InTheWorkingSet
  <2>3. note \in Notes
    BY <1>5, <1>7, <1>9, <1>12, <2>2 DEF Entry, Notes, States
  <2>4. revs + 1 \in 1..revs'
    BY <1>6, <1>7
  <2> QED
    BY <1>5, <1>8, <1>13, <2>1, <2>3, <2>4 DEF SoundNote
<1>15. PICK one : one = [m \in {n} |-> note]
  OBVIOUS
<1>16. Linked(objects, one, Below(objects, ref.tip))
  <2>1. DOMAIN one = {n} /\ one[n].sup = parent.rev
    BY <1>5, <1>9, <1>15 DEF Entry
  <2> QED
    BY <1>4, <1>6, <1>10, <2>1 DEF Linked
<1>17. revs' \in 0..world.revs
  BY <1>6, <1>7
<1>18. DraftIsFine(G, n, note, one)
  BY <1>6, <1>8, <1>13, <1>14, <1>15, <1>16, <1>17 DEF DraftIsFine
<1> QED
  BY ONLY <1>2, <1>18, n \in NoteIds, DraftKeeps

LEMMA ReviewNoteKeeps ==
    ASSUME IInv, NEW n \in NoteIds, NEW k \in Keys, ReviewNote(n, k)
    PROVE  IInv'
<1>1. PICK F : Fine(F)
  BY DEF IInv
<1>2. Rows
  BY DEF IInv
<1>3. PICK notes : notes = Overlay(NotesAt(objects, ref.tip), pending)
  OBVIOUS
<1>4. PICK current : current = notes[n]
  OBVIOUS
<1>5. PICK note, hashes :
         /\ note = Rebound(current, k, "active", ws.source)
         /\ hashes = confirmed[current.rev] \union HashAt(ws.source, k)
  OBVIOUS
<1>6. /\ InWorkingSet /\ n \in DOMAIN notes
      /\ Draft(n, note) /\ revs' = revs
      /\ confirmed' = [confirmed EXCEPT ![current.rev] = hashes]
  <2>1. Effective(ws.base, pending) = notes
    BY <1>2, <1>3, NotesNow DEF Rows
  <2> QED
    BY <1>4, <1>5, <2>1 DEF ReviewNote, Confirm
<1>7. /\ Sound(notes, revs, F, confirmed)
      /\ Linked(objects, notes, Below(objects, ref.tip))
  <2>1. /\ ref.tip # 0 => Restorable(objects, stored, ref.tip)
        /\ ref.tip # 0 => ref.tip \in DOMAIN objects
    BY <1>1 DEF Fine, RefFine, Restorable
  <2>2. Sound(NotesAt(objects, ref.tip), revs, F, confirmed)
    BY <1>1, <2>1, NotesAtSound DEF Fine
  <2>3. Linked(objects, NotesAt(objects, ref.tip), Below(objects, ref.tip))
    BY <1>2, <2>1, NotesAtLinked DEF Rows
  <2> QED
    BY <1>1, <1>3, <2>2, <2>3, OverlaySound, OverlayLinked DEF Fine, PendingFine
<1>8. SoundNote(n, current, revs, F, confirmed)
  BY <1>4, <1>6, <1>7 DEF Sound
<1>9. /\ current \in Notes /\ current.rev \in 1..revs
      /\ current.rev \in 1..world.revs /\ revs \in Nat
  BY <1>2, <1>8, RowsFacts DEF SoundNote, Rows
<1>10. /\ IsMap(confirmed') /\ DOMAIN confirmed' = 1..world.revs
       /\ confirmed'[current.rev] = hashes
       /\ \A r \in 1..world.revs : r # current.rev => confirmed'[r] = confirmed[r]
  BY <1>2, <1>6, <1>9, ConfirmedMore
<1>11. OldFine(F)
  <2>1. \A r \in 1..revs : confirmed[r] \subseteq confirmed'[r]
    <3> TAKE r \in 1..revs
    <3>1. r \in 1..world.revs
      BY <1>2, RowsFacts DEF Rows
    <3> QED
      BY <1>5, <1>10, <3>1
  <2>2. BooksGrow(revs, F, confirmed, revs', F, confirmed')
    BY <1>6, <1>9, <2>1 DEF BooksGrow
  <2>3. Later(objects, stored, revs, F, confirmed, objects', stored', revs', F, confirmed')
    BY <1>2, <1>6, <2>2, RowsFacts DEF Later, Draft
  <2> QED
    BY <1>1, <1>2, <2>3, Carry
<1>12. /\ note.rev = current.rev /\ note.sup = current.sup /\ note.entity = k
       /\ note.state = "active" /\ note.src = ws.source /\ note \in Notes
  <2>1. ws.source \in Sources /\ "active" \in States
    BY <1>2, <1>6, InTheWorkingSet DEF States
  <2> QED
    BY <1>5, <1>9, <2>1 DEF Rebound, Notes
<1>13. SoundNote(n, note, revs', F, confirmed')
  BY <1>5, <1>6, <1>8, <1>10, <1>12 DEF SoundNote
<1>14. PICK one : one = [m \in {n} |-> note]
  OBVIOUS
<1>15. Linked(objects, one, Below(objects, ref.tip))
  <2>1. DOMAIN one = {n} /\ one[n].sup = current.sup
    BY <1>12, <1>14
  <2> QED
    BY <1>4, <1>6, <1>7, <2>1 DEF Linked
<1>16. revs' \in 0..world.revs
  BY <1>2, <1>6 DEF Rows
<1>17. InWorkingSet /\ Draft(n, note)
  BY <1>6
<1>18. IsMap(confirmed') /\ DOMAIN confirmed' = 1..world.revs
  BY <1>10
<1>19. DraftIsFine(F, n, note, one)
  BY <1>11, <1>13, <1>14, <1>15, <1>16, <1>17, <1>18 DEF DraftIsFine
<1> QED
  BY ONLY <1>2, <1>19, n \in NoteIds, DraftKeeps

-----------------------------------------------------------------------------
(* Steps that write an object.                                             *)

\* All objects are fine when the new one is.
LEMMA OneMoreFine ==
    ASSUME NEW rv, NEW F, NEW C, NEW objs, IsHistory(objs), ObjectsFine(objs, rv, F, C),
           NEW parents \in Seq(DOMAIN objs), Len(parents) \in 0..2,
           NEW source \in Sources, NEW notes, Sound(notes, rv, F, C),
           NEW more, more = Append(objs, Object(parents, source, notes))
    PROVE  ObjectsFine(more, rv, F, C)
<1>1. PICK o : o = Object(parents, source, notes)
  OBVIOUS
<1>2. o.parents = parents /\ o.source = source /\ o.notes = notes
  BY <1>1 DEF Object
<1>3. /\ Len(objs) \in Nat /\ DOMAIN objs = 1..Len(objs)
      /\ DOMAIN more = 1..(Len(objs) + 1) /\ more[Len(objs) + 1] = o
      /\ \A i \in DOMAIN objs : more[i] = objs[i]
  BY <1>1, <1>2, OneMore DEF Continues
<1>4. ASSUME NEW i \in DOMAIN more
      PROVE  more[i].source \in Sources /\ Sound(more[i].notes, rv, F, C)
  <2>1. CASE i \in DOMAIN objs
    BY <1>3, <2>1 DEF ObjectsFine
  <2>2. CASE i = Len(objs) + 1
    BY <1>2, <1>3, <2>2
  <2> QED
    BY <1>3, <2>1, <2>2
<1> QED
  BY <1>4 DEF ObjectsFine

LEMMA WriteObjectKeeps ==
    ASSUME IInv, WriteObject
    PROVE  IInv'
<1>1. PICK F : Fine(F)
  BY DEF IInv
<1>2. Rows
  BY DEF IInv
<1>3. PICK o, again : /\ o = Object(writer.parents, writer.source, writer.notes)
                      /\ again = {i \in stored : writer.kind = "merge" /\ objects[i] = o}
  OBVIOUS
<1>4. /\ writer # None
      /\ UNCHANGED <<world, head, ws, coverage, pending, ref, commits, search, candidate,
                     session, sync, remote, tracking, revs, confirmed>>
      /\ \/ /\ Len(objects) < world.objects
            /\ objects' = Append(objects, o)
            /\ stored' = stored \union {Len(objects) + 1}
            /\ writer' = [writer EXCEPT !.id = Len(objects) + 1]
         \/ /\ again # {}
            /\ writer' = [writer EXCEPT !.id = CHOOSE i \in again : TRUE]
            /\ UNCHANGED <<objects, stored>>
  BY <1>3 DEF WriteObject, projection, ghosts
<1>5. /\ writer = [kind |-> writer.kind, source |-> writer.source, id |-> writer.id,
                   parents |-> writer.parents, notes |-> writer.notes,
                   drafted |-> writer.drafted]
      /\ writer.source \in Sources
      /\ writer.parents \in Seq(DOMAIN objects) /\ Len(writer.parents) \in 0..2
      /\ Sound(writer.notes, revs, F, confirmed)
  BY <1>1, <1>4 DEF Fine, WriterFine
<1>6. ASSUME OldFine(F), NEW id, id \in stored', id \in 1..Len(objects'),
             objects'[id] = o, writer' = [writer EXCEPT !.id = id]
      PROVE  WriterFine(writer', objects', stored', revs', F, confirmed')
  <2>1. PICK w : w = writer'
    OBVIOUS
  <2>2. /\ w = [kind |-> w.kind, source |-> w.source, id |-> w.id,
                parents |-> w.parents, notes |-> w.notes, drafted |-> w.drafted]
        /\ w.source = writer.source /\ w.parents = writer.parents
        /\ w.notes = writer.notes /\ w.id = id
    BY <1>5, <1>6, <2>1
  <2>3. WriterFine(writer, objects', stored', revs', F, confirmed')
    BY <1>6 DEF OldFine
  <2>4. id \in 0..Len(objects') /\ id \in stored' /\ objects'[id] = o
    BY <1>6
  <2>5. WriterFine(w, objects', stored', revs', F, confirmed')
    BY <1>3, <1>4, <2>2, <2>3, <2>4 DEF WriterFine
  <2> QED
    BY <2>1, <2>5
<1>7. CASE /\ Len(objects) < world.objects
           /\ objects' = Append(objects, o)
           /\ stored' = stored \union {Len(objects) + 1}
           /\ writer' = [writer EXCEPT !.id = Len(objects) + 1]
  <2>1. o.parents = writer.parents
    BY <1>3 DEF Object
  <2>2. /\ Continues(objects, objects')
        /\ Len(objects) \in Nat /\ Len(objects') = Len(objects) + 1
        /\ DOMAIN objects = 1..Len(objects) /\ DOMAIN objects' = 1..(Len(objects) + 1)
        /\ objects'[Len(objects) + 1] = o
    BY <1>2, <1>5, <1>7, <2>1, OneMore DEF Rows
  <2>3. OldFine(F)
    <3>1. BooksGrow(revs, F, confirmed, revs', F, confirmed')
      BY <1>2, <1>4, RowsFacts DEF BooksGrow
    <3>2. stored \subseteq stored'
      BY <1>7
    <3>3. Later(objects, stored, revs, F, confirmed, objects', stored', revs', F, confirmed')
      BY <2>2, <3>1, <3>2 DEF Later
    <3> QED
      BY <1>1, <1>2, <3>3, Carry
  <2>4. ObjectsFine(objects', revs, F, confirmed)
    BY <1>1, <1>2, <1>3, <1>5, <1>7, OneMoreFine DEF Rows, Fine
  <2>5. PICK id : id = Len(objects) + 1
    OBVIOUS
  <2>6. /\ id \in stored' /\ id \in 1..Len(objects') /\ objects'[id] = o
        /\ writer' = [writer EXCEPT !.id = id]
    BY <1>7, <2>2, <2>5
  <2>7. WriterFine(writer', objects', stored', revs', F, confirmed')
    BY <1>6, <2>3, <2>6
  <2>8. Fine(F)'
    BY <1>4, <2>3, <2>4, <2>7, FineNext DEF OldFine
  <2>9. /\ IsHistory(objects') /\ Len(objects') <= world.objects
        /\ stored' \subseteq DOMAIN objects' /\ commits' \subseteq DOMAIN objects'
    <3>1. IsHistory(objects') /\ DOMAIN objects \subseteq DOMAIN objects'
      BY <2>2 DEF Continues
    <3>2. Len(objects') <= world.objects
      BY <1>2, <1>7, <2>2, RowsFacts
    <3>3. stored' \subseteq DOMAIN objects'
      BY <1>2, <1>7, <2>2, <3>1 DEF Rows
    <3>4. commits' \subseteq DOMAIN objects'
      BY <1>2, <1>4, <3>1 DEF Rows
    <3> QED
      BY <3>1, <3>2, <3>3, <3>4
  <2>10. IsRow(tracking', objects')
    BY <1>4, <2>3 DEF OldFine
  <2>11. Rows'
    BY <1>2, <1>4, <2>9, <2>10 DEF Rows
  <2> QED
    BY <2>8, <2>11 DEF IInv
<1>8. CASE /\ again # {}
           /\ writer' = [writer EXCEPT !.id = CHOOSE i \in again : TRUE]
           /\ UNCHANGED <<objects, stored>>
  <2>1. OldFine(F)
    BY <1>1, <1>2, <1>4, <1>8, Stay
  <2>2. PICK id : id = CHOOSE i \in again : TRUE
    OBVIOUS
  <2>3. id \in again
    BY <1>8, <2>2
  <2>4. /\ id \in stored' /\ id \in 1..Len(objects') /\ objects'[id] = o
        /\ writer' = [writer EXCEPT !.id = id]
    BY <1>2, <1>3, <1>8, <2>2, <2>3, RowsFacts DEF Rows
  <2>5. WriterFine(writer', objects', stored', revs', F, confirmed')
    BY <1>6, <2>1, <2>4
  <2>6. Fine(F)'
    BY <1>4, <1>8, <2>1, <2>5, FineNext DEF OldFine
  <2>7. Rows'
    BY <1>2, <1>4, <1>8 DEF Rows
  <2> QED
    BY <2>6, <2>7 DEF IInv
<1> QED
  BY <1>4, <1>7, <1>8

\* The notes another clone carries over to a source of its own.
LEMMA CarriedSound ==
    ASSUME Rows, NEW F, Fine(F), NEW source \in Sources,
           NEW before, before = NotesAt(objects, remote.tip),
           NEW carry,
           carry = [m \in DOMAIN before |->
                      IF before[m].state = "active"
                      THEN Reconcile(before[m],
                                     HashAt(objects[remote.tip].source, before[m].entity),
                                     Tree[source], source)
                      ELSE before[m]]
    PROVE  Sound(before, revs, F, confirmed) /\ Sound(carry, revs, F, confirmed)
<1>1. remote.tip # 0 => remote.tip \in DOMAIN objects /\ ValidContextObject(objects[remote.tip])
  BY RowsFacts DEF Fine, RemoteFine, IsRow
<1>2. Sound(before, revs, F, confirmed)
  BY <1>1, NotesAtSound DEF Fine
<1>3. \A m \in DOMAIN before : before[m].src = objects[remote.tip].source
  BY <1>1 DEF NotesAt, Empty, ValidContextObject
<1> DEFINE after(m) == Reconcile(before[m],
                                 HashAt(objects[remote.tip].source, before[m].entity),
                                 Tree[source], source)
<1>4. ASSUME NEW m \in DOMAIN before
      PROVE  SoundNote(m, after(m), revs, F, confirmed)
  <2>1. SoundNote(m, before[m], revs, F, confirmed) /\ before[m] \in Notes
    BY <1>2 DEF Sound, SoundNote
  <2>2. Follows(before[m], HashAt(objects[remote.tip].source, before[m].entity),
                source, after(m))
    BY <2>1, ReconcileFollows
  <2> HIDE DEF after
  <2>3. Follows(before[m], HashAt(before[m].src, before[m].entity), source, after(m))
    BY <1>3, <2>2
  <2> QED
    BY <2>1, <2>3, FollowsSound
<1>5. carry = [m \in DOMAIN before |-> IF before[m].state = "active" THEN after(m)
                                                                     ELSE before[m]]
  OBVIOUS
<1> HIDE DEF after
<1>6. ASSUME NEW m \in DOMAIN before
      PROVE  SoundNote(m, carry[m], revs, F, confirmed)
  <2>1. SoundNote(m, before[m], revs, F, confirmed)
    BY <1>2 DEF Sound
  <2>2. carry[m] = after(m) \/ carry[m] = before[m]
    BY <1>5
  <2> QED
    BY <1>4, <2>1, <2>2
<1>7. IsMap(carry) /\ DOMAIN carry = DOMAIN before
  BY <1>5 DEF IsMap
<1> QED
  BY <1>2, <1>6, <1>7 DEF Sound

LEMMA OtherPushKeeps ==
    ASSUME IInv, NEW n \in NoteIds, NEW k \in Keys, NEW source \in world.sources,
           OtherPush(n, k, source)
    PROVE  IInv'
<1>1. PICK F : Fine(F)
  BY DEF IInv
<1>2. Rows
  BY DEF IInv
<1>3. PICK before : before = NotesAt(objects, remote.tip)
  OBVIOUS
<1>4. PICK carry :
         carry = [m \in DOMAIN before |->
                    IF before[m].state = "active"
                    THEN Reconcile(before[m],
                                   HashAt(objects[remote.tip].source, before[m].entity),
                                   Tree[source], source)
                    ELSE before[m]]
  OBVIOUS
<1>5. PICK sup, note : /\ sup = IF n \in DOMAIN before THEN before[n].rev ELSE 0
                       /\ note = Entry(revs + 1, sup, k, "active", source)
  OBVIOUS
<1>6. PICK one, parents : /\ one = [m \in {n} |-> note]
                          /\ parents = IF remote.tip = 0 THEN <<>> ELSE <<remote.tip>>
  OBVIOUS
<1>7. PICK o : o = Object(parents, source, Overlay(carry, one))
  OBVIOUS
<1>8. /\ Len(objects) < world.objects /\ revs < world.revs /\ revs' = revs + 1
      /\ ValidContextObject(o)
      /\ objects' = Append(objects, o)
      /\ remote' = [tip |-> Len(objects) + 1, version |-> remote.version + 1]
      /\ confirmed' = [confirmed EXCEPT ![revs + 1] = HashAt(source, k)]
      /\ UNCHANGED <<world, stored, head, ws, coverage, pending, ref, commits, search,
                     candidate, session, writer, sync, tracking>>
  <2>1. CommittedNotes(remote.tip) = before
    BY <1>3, NotesNow
  <2> QED
    BY <1>4, <1>5, <1>6, <1>7, <2>1 DEF OtherPush, projection, commands
<1>9. revs \in Nat /\ world.revs \in Nat /\ revs + 1 \in 1..world.revs /\ source \in Sources
  BY <1>2, <1>8, RowsFacts
<1>10. /\ remote.tip \in 0..Len(objects) /\ remote.version \in Nat
       /\ remote.tip # 0 => remote.tip \in DOMAIN objects
  BY <1>1, <1>2, RowsFacts DEF Fine, RemoteFine, IsRow
<1>11. parents \in Seq(DOMAIN objects) /\ Len(parents) \in 0..2
  <2>1. CASE remote.tip = 0
    BY <1>6, <2>1
  <2>2. CASE remote.tip # 0
    BY <1>6, <1>10, <2>2
  <2> QED
    BY <2>1, <2>2
<1>12. o.parents = parents
  BY <1>7 DEF Object
<1>13. /\ Continues(objects, objects')
       /\ Len(objects) \in Nat /\ Len(objects') = Len(objects) + 1
       /\ DOMAIN objects = 1..Len(objects) /\ DOMAIN objects' = 1..(Len(objects) + 1)
       /\ objects'[Len(objects) + 1] = o
  BY <1>2, <1>8, <1>11, <1>12, OneMore DEF Rows
<1>14. /\ IsMap(confirmed') /\ DOMAIN confirmed' = 1..world.revs
       /\ confirmed'[revs + 1] = HashAt(source, k)
       /\ \A r \in 1..world.revs : r # revs + 1 => confirmed'[r] = confirmed[r]
  BY <1>2, <1>8, <1>9, ConfirmedMore
<1>15. \A r \in 1..revs : confirmed[r] \subseteq confirmed'[r]
  BY <1>9, <1>14
<1>16. PICK G : /\ OldFine(G) /\ G[revs + 1] = <<n, sup>>
                /\ BooksGrow(revs, F, confirmed, revs', G, confirmed')
  BY <1>1, <1>2, <1>8, <1>13, <1>15, OneRevision
<1>17. Sound(before, revs, F, confirmed) /\ Sound(carry, revs, F, confirmed)
  BY <1>1, <1>2, <1>3, <1>4, <1>9, CarriedSound
<1>18. sup \in Nat
  BY <1>5, <1>17 DEF Sound, SoundNote, Notes
<1>19. SoundNote(n, note, revs', G, confirmed')
  <2>1. /\ note.rev = revs + 1 /\ note.sup = sup /\ note.entity = k
        /\ note.state = "active" /\ note.src = source
    BY <1>5 DEF Entry
  <2>2. note \in Notes
    BY <1>5, <1>9, <1>18 DEF Entry, Notes, States
  <2>3. revs + 1 \in 1..revs'
    BY <1>8, <1>9
  <2> QED
    BY <1>14, <1>16, <2>1, <2>2, <2>3 DEF SoundNote
<1>20. Sound(Overlay(carry, one), revs', G, confirmed')
  BY <1>6, <1>16, <1>17, <1>19, OneNote, SoundLater, OverlaySound
<1>21. ObjectsFine(objects', revs', G, confirmed')
  <2>1. ObjectsFine(objects, revs', G, confirmed') /\ IsHistory(objects)
    BY <1>2, <1>16 DEF OldFine, Rows
  <2>2. PICK notes : notes = Overlay(carry, one)
    OBVIOUS
  <2>3. objects' = Append(objects, Object(parents, source, notes))
    BY <1>7, <1>8, <2>2
  <2> QED
    BY <1>9, <1>11, <1>20, <2>1, <2>2, <2>3, OneMoreFine
<1>22. PICK r : r = remote'
  OBVIOUS
<1>23. /\ r = [tip |-> Len(objects) + 1, version |-> remote.version + 1]
       /\ r.tip = Len(objects) + 1
  BY <1>8, <1>22
<1>24. IsRow(r, objects')
  <2>1. Len(objects) + 1 \in 0..Len(objects') /\ remote.version + 1 \in Nat
    BY <1>10, <1>13
  <2> QED
    BY <1>23, <2>1 DEF IsRow
<1>25. RemoteFine(r, objects')
  BY <1>8, <1>13, <1>23, <1>24 DEF RemoteFine
<1>26. Fine(G)'
  BY <1>8, <1>16, <1>21, <1>22, <1>25, FineNext DEF OldFine
<1>27. Rows'
  <2>1. IsHistory(objects') /\ DOMAIN objects \subseteq DOMAIN objects'
    BY <1>13 DEF Continues
  <2>2. Len(objects') <= world.objects
    BY <1>2, <1>8, <1>13, RowsFacts
  <2>3. stored' \subseteq DOMAIN objects' /\ commits' \subseteq DOMAIN objects'
    BY <1>2, <1>8, <2>1 DEF Rows
  <2>4. IsRow(tracking', objects')
    BY <1>8, <1>16 DEF OldFine
  <2>5. revs' \in 0..world'.revs
    BY <1>8, <1>9
  <2> QED
    BY <1>2, <1>8, <1>14, <2>1, <2>2, <2>3, <2>4, <2>5 DEF Rows
<1> QED
  BY <1>26, <1>27 DEF IInv

-----------------------------------------------------------------------------
(* Promoting a candidate: several notes get an identifier and a revision   *)
(* at once.                                                                *)

\* The candidate note that got an identifier or a revision.
Given(kept, f, x) == CHOOSE d \in kept : f[d] = x

GivesBack(kept, T, f) ==
    /\ \A d \in kept : f[d] \in T /\ Given(kept, f, f[d]) = d
    /\ \A x \in Range(f) : Given(kept, f, x) \in kept /\ f[Given(kept, f, x)] = x
    /\ Range(f) \subseteq T /\ (kept = {} => Range(f) = {})

LEMMA GivenBack ==
    ASSUME NEW kept, NEW T, NEW f \in Injection(kept, T)
    PROVE  GivesBack(kept, T, f)
<1>1. f \in [kept -> T] /\ DOMAIN f = kept
  BY DEF Injection
<1>2. \A a, b \in kept : f[a] = f[b] => a = b
  BY <1>1 DEF Injection, IsInjective
<1>3. \A d \in kept : f[d] \in T
  BY <1>1
<1>4. \A x : (\E d \in kept : f[d] = x) =>
                Given(kept, f, x) \in kept /\ f[Given(kept, f, x)] = x
  BY DEF Given
<1>5. Range(f) = {f[x] : x \in kept}
  BY <1>1 DEF Range
<1>6. \A d \in kept : Given(kept, f, f[d]) = d
  BY <1>2, <1>4
<1> QED
  BY <1>3, <1>4, <1>5, <1>6 DEF GivesBack

Promoted(kept, id, rev) ==
    [n \in Range(id) |->
       Entry(rev[Given(kept, id, n)], 0, DraftOf[Given(kept, id, n)].entity,
             IF FreshEntities(coverage, ws.source)[DraftOf[Given(kept, id, n)].entity]
                  = DraftOf[Given(kept, id, n)].hash
             THEN "active" ELSE "needs_review",
             ws.source)]
ConfirmedBy(kept, rev) ==
    [r \in DOMAIN confirmed |->
       IF \E d \in kept : rev[d] = r
       THEN {DraftOf[Given(kept, rev, r)].hash} ELSE confirmed[r]]

PromotionFine(F, new) ==
    /\ revs' \in 0..world.revs
    /\ IsMap(confirmed') /\ DOMAIN confirmed' = 1..world.revs
    /\ \E G : /\ BooksGrow(revs, F, confirmed, revs', G, confirmed')
              /\ Sound(new, revs', G, confirmed')
              /\ Linked(objects, new, Below(objects, ref.tip))

\* The rows a promotion writes are sound.
LEMMA PromotedSound ==
    ASSUME Rows, NEW F, Fine(F), InWorkingSet,
           NEW kept, kept \subseteq Drafts,
           \A d \in kept : DraftOf[d].entity \in DOMAIN FreshEntities(coverage, ws.source),
           revs + Cardinality(kept) <= world.revs,
           NEW id \in Injection(kept, FreshIds),
           NEW rev \in Injection(kept, (revs + 1)..(revs + Cardinality(kept))),
           NEW new, new = Promoted(kept, id, rev),
           confirmed' = ConfirmedBy(kept, rev),
           revs' = revs + Cardinality(kept)
    PROVE  PromotionFine(F, new)
<1>1. Cardinality(kept) \in Nat
  BY LocalStoreAssumption, FS_Subset, FS_CardinalityType
<1>2. PICK m \in Nat : m = Cardinality(kept)
  BY <1>1
<1>3. revs \in Nat /\ world.revs \in Nat /\ revs' = revs + m /\ revs + m <= world.revs
  BY <1>2, RowsFacts
<1>4. /\ \A d \in kept : rev[d] \in (revs + 1)..(revs + m) /\ Given(kept, rev, rev[d]) = d
      /\ Range(id) \subseteq FreshIds
      /\ \A n \in Range(id) : Given(kept, id, n) \in kept /\ id[Given(kept, id, n)] = n
  <2>1. GivesBack(kept, (revs + 1)..(revs + m), rev)
    BY <1>2, GivenBack
  <2>2. GivesBack(kept, FreshIds, id)
    BY GivenBack
  <2> QED
    BY <2>1, <2>2 DEF GivesBack
<1>5. IsMap(confirmed') /\ DOMAIN confirmed' = 1..world.revs
  BY DEF Rows, IsMap, ConfirmedBy
<1>6. \A r \in 1..world.revs : (\A d \in kept : rev[d] # r) => confirmed'[r] = confirmed[r]
  BY DEF Rows, ConfirmedBy
<1>7. \A d \in kept : confirmed'[rev[d]] = {DraftOf[d].hash}
  <2> TAKE d \in kept
  <2>1. rev[d] \in DOMAIN confirmed /\ Given(kept, rev, rev[d]) = d
    BY <1>3, <1>4 DEF Rows
  <2> QED
    BY <2>1 DEF ConfirmedBy
<1> DEFINE G == [r \in 1..(revs + m) |->
                   IF \E d \in kept : rev[d] = r
                   THEN <<id[Given(kept, rev, r)], 0>> ELSE F[r]]
<1>8. \A r \in 1..(revs + m) : (\A d \in kept : rev[d] # r) => G[r] = F[r]
  OBVIOUS
<1>9. \A d \in kept : G[rev[d]] = <<id[d], 0>>
  <2> TAKE d \in kept
  <2>1. rev[d] \in 1..(revs + m) /\ Given(kept, rev, rev[d]) = d
    BY <1>3, <1>4
  <2> QED
    BY <2>1
<1> HIDE DEF G
<1>10. BooksGrow(revs, F, confirmed, revs', G, confirmed')
  <2>1. ASSUME NEW r \in 1..revs
        PROVE  G[r] = F[r] /\ confirmed[r] \subseteq confirmed'[r]
    <3>1. \A d \in kept : rev[d] # r
      BY <1>3, <1>4
    <3>2. r \in 1..(revs + m) /\ r \in 1..world.revs
      BY <1>3
    <3>3. G[r] = F[r] /\ confirmed'[r] = confirmed[r]
      BY <1>6, <1>8, <3>1, <3>2
    <3> QED
      BY <3>3
  <2> QED
    BY <1>3, <2>1 DEF BooksGrow
<1>11. ASSUME NEW n \in DOMAIN new
       PROVE  SoundNote(n, new[n], revs', G, confirmed') /\ new[n].sup = 0
  <2>1. PICK d : d = Given(kept, id, n)
    OBVIOUS
  <2>2. d \in kept /\ id[d] = n
    <3>1. n \in Range(id)
      BY DEF Promoted
    <3> QED
      BY <1>4, <2>1, <3>1
  <2>3. PICK k, state :
           /\ k = DraftOf[d].entity
           /\ state = IF FreshEntities(coverage, ws.source)[k] = DraftOf[d].hash
                      THEN "active" ELSE "needs_review"
    OBVIOUS
  <2>4. PICK x : x = Entry(rev[d], 0, k, state, ws.source)
    OBVIOUS
  <2>5. new[n] = x
    BY <2>1, <2>3, <2>4 DEF Promoted
  <2>6. /\ x.rev = rev[d] /\ x.sup = 0 /\ x.entity = k /\ x.state = state
        /\ x.src = ws.source
    BY <2>4 DEF Entry
  <2>7. k \in Keys /\ ws.source \in Sources /\ k \in DOMAIN FreshEntities(coverage, ws.source)
    BY <2>2, <2>3, InTheWorkingSet
  <2>8. rev[d] \in 1..revs' /\ rev[d] \in Nat
    BY <1>3, <1>4, <2>2
  <2>9. x \in Notes
    BY <2>3, <2>4, <2>7, <2>8 DEF Entry, Notes, States
  <2>10. state = "active" => HashAt(ws.source, k) \subseteq confirmed'[rev[d]]
    <3> SUFFICES ASSUME state = "active"
                 PROVE  HashAt(ws.source, k) \subseteq confirmed'[rev[d]]
      OBVIOUS
    <3>1. FreshEntities(coverage, ws.source)[k] = DraftOf[d].hash
      BY <2>3
    <3>2. FreshEntities(coverage, ws.source) = Tree[ws.source]
      BY <2>7 DEF FreshEntities, Empty
    <3>3. HashAt(ws.source, k) = {DraftOf[d].hash}
      BY <2>7, <3>1, <3>2 DEF HashAt
    <3> QED
      BY <1>7, <2>2, <3>3
  <2> QED
    BY <1>9, <2>2, <2>5, <2>6, <2>8, <2>9, <2>10 DEF SoundNote
<1>12. Sound(new, revs', G, confirmed')
  <2>1. IsMap(new) /\ DOMAIN new = Range(id)
    BY DEF IsMap, Promoted
  <2>2. FreshIds \subseteq NoteIds
    BY DEF FreshIds
  <2> QED
    BY <1>4, <1>11, <2>1, <2>2 DEF Sound
<1>13. Linked(objects, new, Below(objects, ref.tip))
  BY <1>11 DEF Linked
<1>14. revs' \in 0..world.revs
  BY <1>3
<1> QED
  BY <1>5, <1>10, <1>12, <1>13, <1>14 DEF PromotionFine

LEMMA PromoteCandidateKeeps ==
    ASSUME IInv, PromoteCandidate
    PROVE  IInv'
<1>1. PICK F : Fine(F)
  BY DEF IInv
<1>2. Rows
  BY DEF IInv
<1> DEFINE drafts == {d \in DOMAIN candidate.notes : candidate.notes[d] = "draft"}
           kept == {d \in drafts :
                      DraftOf[d].entity \in DOMAIN FreshEntities(coverage, ws.source)}
           outcome(d) == CASE d \in kept -> "promoted"
                           [] d \in drafts \ kept -> "historical"
                           [] OTHER -> candidate.notes[d]
<1>3. kept \subseteq DOMAIN candidate.notes
  OBVIOUS
<1>4. PICK id \in Injection(kept, FreshIds),
           rev \in Injection(kept, (revs + 1)..(revs + Cardinality(kept))) :
         /\ pending' = Overlay(pending, Promoted(kept, id, rev))
         /\ confirmed' = ConfirmedBy(kept, rev)
  BY DEF PromoteCandidate, Promoted, ConfirmedBy, Given
<1>5. PICK new : new = Promoted(kept, id, rev)
  OBVIOUS
<1>6. /\ InWorkingSet
      /\ revs + Cardinality(kept) <= world.revs
      /\ candidate' = [candidate EXCEPT !.notes =
                         [d \in DOMAIN candidate.notes |-> outcome(d)]]
      /\ revs' = revs + Cardinality(kept)
      /\ search' = IF kept = {} THEN search
                   ELSE SearchOf(coverage, ws.source, ref.tip, pending')
      /\ UNCHANGED <<world, objects, stored, head, ws, coverage, ref, commits, session,
                     writer, sync, remote, tracking>>
  BY DEF PromoteCandidate, commands
<1>7. \A d \in kept : DraftOf[d].entity \in DOMAIN FreshEntities(coverage, ws.source)
  OBVIOUS
<1> HIDE DEF outcome, kept
<1>8. kept \subseteq Drafts
  BY <1>2, <1>3 DEF Rows
<1>9. PromotionFine(F, new)
  BY <1>1, <1>2, <1>4, <1>5, <1>6, <1>7, <1>8, PromotedSound
<1>10. PICK G : /\ BooksGrow(revs, F, confirmed, revs', G, confirmed')
               /\ Sound(new, revs', G, confirmed')
               /\ Linked(objects, new, Below(objects, ref.tip))
  BY <1>9 DEF PromotionFine
<1>11. /\ revs' \in 0..world.revs
      /\ IsMap(confirmed') /\ DOMAIN confirmed' = 1..world.revs
  BY <1>9 DEF PromotionFine
<1>12. OldFine(G)
  <2>1. Later(objects, stored, revs, F, confirmed, objects', stored', revs', G, confirmed')
    BY <1>2, <1>6, <1>10, RowsFacts DEF Later
  <2> QED
    BY <1>1, <1>2, <2>1, Carry
<1>13. pending' = Overlay(pending, new)
  BY <1>4, <1>5
<1>14. PendingFine(pending', ref.tip, objects, revs', G, confirmed')
  <2>1. PendingFine(pending, ref.tip, objects, revs', G, confirmed')
    BY <1>6, <1>12 DEF OldFine
  <2> QED
    BY <1>10, <1>13, <2>1, OverlaySound, OverlayLinked DEF PendingFine
<1>15. ws.source # NoSource =>
         search' = SearchAt(objects, coverage, ws.source, ref.tip, pending')
  <2>1. CASE kept = {}
    <3>1. DOMAIN new = {}
      <4>1. Range(id) = {}
        BY <2>1, GivenBack DEF GivesBack
      <4> QED
        BY <1>5, <4>1 DEF Promoted
    <3>2. IsMap(pending)
      BY <1>1 DEF Fine, PendingFine, Sound
    <3>3. pending' = pending
      BY <1>13, <3>1, <3>2 DEF Overlay, IsMap
    <3> QED
      BY <1>6, <1>12, <2>1, <3>3 DEF OldFine
  <2>2. CASE kept # {}
    BY <1>6, <2>2, SearchNow
  <2> QED
    BY <2>1, <2>2
<1>16. Fine(G)'
  BY <1>6, <1>12, <1>14, <1>15, FineNext DEF OldFine
<1>17. PICK o : o = [d \in DOMAIN candidate.notes |-> outcome(d)]
  OBVIOUS
<1>18. IsMap(o) /\ DOMAIN o = DOMAIN candidate.notes
  BY <1>17 DEF IsMap
<1>19. candidate' = [version |-> candidate.version, notes |-> o]
  BY <1>2, <1>6, <1>17 DEF Rows
<1>20. candidate'.version = candidate.version /\ candidate'.notes = o
  BY <1>19
<1>21. ws.source # NoSource
  BY <1>2, <1>6, LocalStoreAssumption DEF Rows, InWorkingSet
<1>22. Rows'
  BY <1>2, <1>6, <1>11, <1>18, <1>19, <1>20, <1>21 DEF Rows
<1> QED
  BY <1>16, <1>22 DEF IInv

-----------------------------------------------------------------------------
(* The invariant.                                                          *)

LEMMA InitFine ==
    ASSUME Init
    PROVE  IInv
<1> USE DEF Init
<1>1. IsHistory(objects) /\ Len(objects) = 0 /\ DOMAIN objects = {}
  BY DEF IsHistory, Members
<1>2. world.objects \in Nat /\ world.revs \in Nat /\ world.sources \subseteq Sources
  BY LocalStoreAssumption
<1>3. IsRow(NoRef, objects) /\ NoRef.tip = 0
  BY <1>1 DEF IsRow, NoRef
<1>4. /\ ws = [source |-> ws.source, base |-> ws.base]
      /\ ws.source = NoSource /\ ws.base = 0
  BY DEF NoSet
<1>5. /\ candidate = [version |-> candidate.version, notes |-> candidate.notes]
      /\ candidate.version \in 0..Len(Envelopes)
      /\ IsMap(candidate.notes) /\ DOMAIN candidate.notes \subseteq Drafts
  <2>1. Len(Envelopes) \in Nat
    BY LocalStoreAssumption
  <2>2. /\ candidate = [version |-> 0, notes |-> Empty]
        /\ candidate.version = 0 /\ candidate.notes = Empty
    BY DEF NoCandidate
  <2>3. IsMap(Empty) /\ DOMAIN Empty = {}
    BY DEF IsMap, Empty
  <2> QED
    BY <2>1, <2>2, <2>3
<1>6. IsMap(confirmed) /\ DOMAIN confirmed = 1..world.revs
  BY DEF IsMap
<1>7. Rows
  BY <1>1, <1>2, <1>3, <1>4, <1>5, <1>6 DEF Rows
<1>8. ASSUME NEW F
      PROVE  Fine(F)
  <2>1. ObjectsFine(objects, revs, F, confirmed)
    BY <1>1 DEF ObjectsFine
  <2>2. PendingFine(pending, ref.tip, objects, revs, F, confirmed)
    BY EmptySound DEF PendingFine
  <2>3. RefFine(ref, commits, objects, stored) /\ RemoteFine(remote, objects)
    BY <1>3 DEF RefFine, RemoteFine
  <2>4. /\ WriterFine(writer, objects, stored, revs, F, confirmed)
        /\ SessionFine(session, objects, stored, revs, F, confirmed)
        /\ SyncFine(sync, objects)
    BY DEF WriterFine, SessionFine, SyncFine
  <2>5. SearchIsCurrent
    BY <1>4 DEF SearchIsCurrent
  <2> QED
    BY <2>1, <2>2, <2>3, <2>4, <2>5 DEF Fine
<1> QED
  BY <1>7, <1>8 DEF IInv

LEMMA NothingHappens ==
    ASSUME IInv, UNCHANGED vars
    PROVE  IInv'
<1>1. PICK F : Fine(F)
  BY DEF IInv
<1>2. Rows
  BY DEF IInv
<1> USE DEF vars, projection, commands, ghosts
<1>3. Rows'
  BY <1>2 DEF Rows
<1>4. OldFine(F)
  BY <1>1, <1>2, Stay
<1>5. Fine(F)'
  BY <1>4, FineNext DEF OldFine
<1> QED
  BY <1>3, <1>5 DEF IInv

\* The rows, the objects and the ledger of revisions agree in every state.
THEOREM Invariance == Spec => []IInv
<1>1. Init => IInv
  BY InitFine
<1>2. ASSUME IInv, [Next]_vars
      PROVE  IInv'
  <2>1. CASE \E n \in NoteIds, k \in Keys :
                AddPendingNote(n, k) \/ ReviewNote(n, k) \/ AuthorMerge(n, k)
    BY <1>2, <2>1, AddPendingNoteKeeps, ReviewNoteKeeps, AuthorMergeKeeps
  <2>2. CASE \E n \in NoteIds : ReviseNote(n) \/ ResolveMerge(n)
    BY <1>2, <2>2, ReviseNoteKeeps, ResolveMergeKeeps
  <2>3. CASE \E n \in NoteIds, k \in Keys, s \in world.sources : OtherPush(n, k, s)
    BY <1>2, <2>3, OtherPushKeeps
  <2>4. CASE \E s \in world.sources : MoveHead(s)
    BY <1>2, <2>4, MoveHeadKeeps
  <2>5. CASE \E state \in {"indexed", "failed"} : ApplyIndexUpdate(state)
    BY <1>2, <2>5, ApplyIndexUpdateKeeps
  <2>6. CASE StartCommit \/ WriteObject \/ FinalizeCommit \/ StopWriter
    BY <1>2, <2>6, StartCommitKeeps, WriteObjectKeeps, FinalizeCommitKeeps, StopWriterKeeps
  <2>7. CASE \E i \in stored : StartMerge(i) \/ Rebuild(i)
    BY <1>2, <2>7, StartMergeKeeps, RebuildKeeps
  <2>8. CASE StartMergeCommit \/ FinalizeMerge
    BY <1>2, <2>8, StartMergeCommitKeeps, FinalizeMergeKeeps
  <2>9. CASE StartPush \/ FinishPush \/ Fetch \/ StopSync
    BY <1>2, <2>9, StartPushKeeps, FinishPushKeeps, FetchKeeps, StopSyncKeeps
  <2>10. CASE \E recovery \in BOOLEAN : FastForward(recovery)
    BY <1>2, <2>10, FastForwardKeeps
  <2>11. CASE \E v \in DOMAIN Envelopes : ImportCandidate(v)
    BY <1>2, <2>11, ImportCandidateKeeps
  <2>12. CASE PromoteCandidate
    BY <1>2, <2>12, PromoteCandidateKeeps
  <2>13. CASE LoseProjection
    BY <1>2, <2>13, LoseProjectionKeeps
  <2>14. CASE UNCHANGED vars
    BY <1>2, <2>14, NothingHappens
  <2> QED
    BY <1>2, <2>1, <2>2, <2>3, <2>4, <2>5, <2>6, <2>7, <2>8, <2>9, <2>10, <2>11, <2>12,
       <2>13, <2>14 DEF Next
<1> QED
  BY <1>1, <1>2, PTL DEF Spec

-----------------------------------------------------------------------------
(* What follows in every state.                                            *)

LEMMA RowInBounds ==
    ASSUME Rows, NEW r, IsRow(r, objects)
    PROVE  r \in RefRow /\ r.tip \in 0..world.objects
<1>1. r \in [tip : 0..Len(objects), version : Nat]
  BY DEF IsRow
<1>2. 0..Len(objects) \subseteq 0..world.objects
  BY RowsFacts DEF Rows
<1> QED
  BY <1>1, <1>2 DEF RefRow

\* Every row and every object has its shape: parents are older objects, the
\* rows of the ref, of the remote and of its tracking copy name objects, and
\* pending rows are notes.
THEOREM TypeCorrect == Spec => []TypeOK
<1>1. ASSUME IInv
      PROVE  TypeOK
  <2>1. PICK F : Fine(F)
    BY <1>1 DEF IInv
  <2>2. Rows
    BY <1>1 DEF IInv
  <2>3. ASSUME NEW i \in DOMAIN objects
        PROVE  objects[i].source \in Sources /\ Members(objects[i].parents) \subseteq 1..(i - 1)
    <3>1. objects[i].parents \in Seq(1..(i - 1))
      BY <2>2 DEF Rows, IsHistory
    <3>2. Members(objects[i].parents) \subseteq 1..(i - 1)
      BY <3>1, MembersOfSeq
    <3> QED
      BY <2>1, <3>2 DEF Fine, ObjectsFine
  <2>4. IsRow(ref, objects) /\ IsRow(remote, objects) /\ IsRow(tracking, objects)
    BY <2>1, <2>2 DEF Fine, RefFine, RemoteFine, Rows
  <2>5. /\ ref \in RefRow /\ remote \in RefRow /\ tracking \in RefRow
        /\ ref.tip \in 0..world.objects
    BY <2>2, <2>4, RowInBounds
  <2>6. DOMAIN pending \subseteq NoteIds /\ \A n \in DOMAIN pending : pending[n] \in Notes
    BY <2>1 DEF Fine, PendingFine, Sound, SoundNote
  <2> QED
    BY <2>2, <2>3, <2>5, <2>6 DEF TypeOK, Rows
<1> QED
  BY <1>1, Invariance, PTL

\* Two rows of one revision are of the same note and supersede the same one.
LEMMA OneContent ==
    ASSUME NEW F, Fine(F),
           NEW i \in DOMAIN objects, NEW n \in DOMAIN objects[i].notes,
           NEW j \in DOMAIN objects, NEW m \in DOMAIN objects[j].notes,
           objects[j].notes[m].rev = objects[i].notes[n].rev
    PROVE  m = n /\ objects[j].notes[m].sup = objects[i].notes[n].sup
<1>1. /\ SoundNote(n, objects[i].notes[n], revs, F, confirmed)
      /\ SoundNote(m, objects[j].notes[m], revs, F, confirmed)
  BY DEF Fine, ObjectsFine, Sound
<1> QED
  BY <1>1 DEF SoundNote

\* Whatever the ref names can be restored after a crash at any point, the
\* chain of every revision included: an object is written with its parents
\* there, and a transaction sets the ref only to such an object.
THEOREM CommittedCanBeRestored == Spec => []CommittedIsRestorable
<1>1. ASSUME IInv
      PROVE  CommittedIsRestorable
  <2>1. PICK F : Fine(F)
    BY <1>1 DEF IInv
  <2>2. Rows
    BY <1>1 DEF IInv
  <2>3. ASSUME ref.tip # 0
        PROVE  /\ History(objects, ref.tip) \subseteq stored
               /\ ref.tip \in commits
               /\ RevisionLinks(objects, Chain(objects, ref.tip))
    <3>1. Restorable(objects, stored, ref.tip) /\ ref.tip \in commits
      BY <2>1, <2>3 DEF Fine, RefFine
    <3>2. PICK c : c = Chain(objects, ref.tip)
      OBVIOUS
    <3>3. LinkedAlong(objects, c) /\ History(objects, ref.tip) \subseteq DOMAIN objects
      BY <2>2, <3>1, <3>2 DEF Restorable, Rows
    <3>4. \A k \in DOMAIN c : c[k] \in DOMAIN objects
      BY <3>2, <3>3 DEF History, Members
    <3>5. c \in Seq(1..ref.tip) /\ DOMAIN c = 1..Len(c) /\ Len(c) \in Nat
      BY <2>2, <3>1, <3>2, HistoryShape, LenProperties DEF Restorable, Rows
    <3>6. ASSUME NEW k \in DOMAIN c, NEW n \in DOMAIN objects[c[k]].notes
          PROVE  /\ objects[c[k]].notes[n].sup # 0 =>
                      \E j \in 1..(k - 1) :
                         /\ n \in DOMAIN objects[c[j]].notes
                         /\ objects[c[j]].notes[n].rev = objects[c[k]].notes[n].sup
                 /\ \A j \in 1..(k - 1) : \A m \in DOMAIN objects[c[j]].notes :
                      objects[c[j]].notes[m].rev = objects[c[k]].notes[n].rev =>
                         /\ m = n
                         /\ objects[c[j]].notes[m].sup = objects[c[k]].notes[n].sup
      <4>1. Linked(objects, objects[c[k]].notes, {c[j] : j \in 1..(k - 1)})
        BY <3>3 DEF LinkedAlong, LinkedUpTo
      <4>2. objects[c[k]].notes[n].sup # 0 =>
               \E j \in 1..(k - 1) :
                  /\ n \in DOMAIN objects[c[j]].notes
                  /\ objects[c[j]].notes[n].rev = objects[c[k]].notes[n].sup
        BY <4>1 DEF Linked
      <4>3. \A j \in 1..(k - 1) : c[j] \in DOMAIN objects
        BY <3>4, <3>5
      <4> QED
        BY <2>1, <3>4, <4>2, <4>3, OneContent
    <3>7. RevisionLinks(objects, c)
      BY <3>6 DEF RevisionLinks
    <3> QED
      BY <3>1, <3>2, <3>7 DEF Restorable
  <2> QED
    BY <2>2, <2>3 DEF CommittedIsRestorable, Rows
<1> QED
  BY <1>1, Invariance, PTL

\* An active note is bound to an entity whose hash its revision was written or
\* confirmed for, whatever updates, merges, pulls and promotions came between.
THEOREM ActiveIsConfirmed == Spec => []ActiveMeansConfirmed
<1>1. ASSUME IInv
      PROVE  ActiveMeansConfirmed
  <2>1. PICK F : Fine(F)
    BY <1>1 DEF IInv
  <2>2. Rows
    BY <1>1 DEF IInv
  <2>3. ref.tip # 0 => ref.tip \in DOMAIN objects
    BY <2>1 DEF Fine, RefFine, Restorable
  <2>4. /\ Sound(NotesAt(objects, ref.tip), revs, F, confirmed)
        /\ Sound(pending, revs, F, confirmed)
    BY <2>1, <2>3, NotesAtSound DEF Fine, PendingFine
  <2>5. PICK notes : notes = Effective(ref.tip, pending)
    OBVIOUS
  <2>6. Sound(notes, revs, F, confirmed)
    BY <2>4, <2>5, NotesNow, OverlaySound
  <2>7. \A n \in DOMAIN notes : notes[n].state = "active" =>
           HashAt(notes[n].src, notes[n].entity) \subseteq confirmed[notes[n].rev]
    BY <2>6 DEF Sound, SoundNote
  <2> QED
    BY <2>5, <2>7 DEF ActiveMeansConfirmed
<1> QED
  BY <1>1, Invariance, PTL

\* Every transaction leaves the search index as a rebuild would make it.
THEOREM SearchStaysCurrent == Spec => []SearchIsCurrent
<1>1. IInv => SearchIsCurrent
  BY DEF IInv, Fine
<1> QED
  BY <1>1, Invariance, PTL

-----------------------------------------------------------------------------
(* What no step may do.                                                    *)

LocalMovesOn ==
    lost' = lost /\ ref.tip \notin {0, ref'.tip} => ref.tip \in History(objects', ref'.tip)
RemoteMovesOn ==
    remote.tip \notin {0, remote'.tip} => remote.tip \in History(objects', remote'.tip)

\* The writer's object continues the commit the working set is based on.
LEMMA CommitMovesOn ==
    ASSUME IInv, FinalizeCommit
    PROVE  /\ LocalMovesOn /\ RemoteMovesOn
           /\ ref' = [tip |-> writer.id, version |-> ref.version + 1]
           /\ writer.id # ref.tip /\ objects'[writer.id].notes = writer.notes
<1>1. PICK F : Fine(F)
  BY DEF IInv
<1>2. Rows
  BY DEF IInv
<1>3. /\ WriterFine(writer, objects, stored, revs, F, confirmed)
      /\ writer # None /\ writer.id # 0
      /\ IsHistory(objects) /\ stored \in SUBSET DOMAIN objects
  BY <1>1, <1>2 DEF Fine, FinalizeCommit, Rows
<1>4. /\ Members(writer.parents) \subseteq History(objects, writer.id)
      /\ Members(writer.parents) \subseteq 1..(writer.id - 1)
      /\ Restorable(objects, stored, writer.id)
  BY <1>3, NewTip
<1>5. ref.tip # 0 => ref.tip \in Members(writer.parents)
  <2> SUFFICES ASSUME ref.tip # 0
               PROVE  ref.tip \in Members(writer.parents)
    OBVIOUS
  <2>1. writer.parents # <<>> /\ ref.tip = writer.parents[1]
    BY DEF FinalizeCommit
  <2>2. writer.parents \in Seq(DOMAIN objects)
    BY <1>3 DEF WriterFine
  <2>3. 1 \in DOMAIN writer.parents
    BY <2>1, <2>2
  <2> QED
    BY <2>1, <2>3 DEF Members
<1>6. ref' = [tip |-> writer.id, version |-> ref.version + 1] /\ ref'.tip = writer.id
      /\ UNCHANGED <<objects, remote>>
  BY DEF FinalizeCommit, Advance
<1>7. writer.id # ref.tip
  <2>1. writer.id \in Nat
    BY <1>2, <1>4, RowsFacts DEF Restorable
  <2>2. ref.tip # 0 => ref.tip \in 1..(writer.id - 1)
    BY <1>4, <1>5
  <2> QED
    BY <1>3, <2>1, <2>2
<1>8. objects[writer.id].notes = writer.notes
  BY <1>3 DEF WriterFine, Object
<1> QED
  BY <1>4, <1>5, <1>6, <1>7, <1>8 DEF LocalMovesOn, RemoteMovesOn

LEMMA MergeMovesOn ==
    ASSUME IInv, FinalizeMerge
    PROVE  LocalMovesOn /\ RemoteMovesOn
<1>1. PICK F : Fine(F)
  BY DEF IInv
<1>2. /\ WriterFine(writer, objects, stored, revs, F, confirmed)
      /\ writer # None /\ writer.id # 0
      /\ IsHistory(objects) /\ stored \in SUBSET DOMAIN objects
  BY <1>1 DEF IInv, Fine, FinalizeMerge, Rows
<1>3. Members(writer.parents) \subseteq History(objects, writer.id)
  BY <1>2, NewTip
<1>4. ref.tip \in Members(writer.parents)
  <2>1. writer.parents = <<session.local, session.remote>> /\ ref.tip = session.local
    BY DEF FinalizeMerge
  <2> QED
    BY <2>1 DEF Members
<1>5. ref'.tip = writer.id /\ UNCHANGED <<objects, remote>>
  BY DEF FinalizeMerge, Advance
<1> QED
  BY <1>3, <1>4, <1>5 DEF LocalMovesOn, RemoteMovesOn

LEMMA PushMovesOn ==
    ASSUME IInv, FinishPush
    PROVE  LocalMovesOn /\ RemoteMovesOn
<1>1. PICK F : Fine(F)
  BY DEF IInv
<1>2. /\ IsAncestor(objects, sync.local.tip, sync.remote.tip)
      /\ remote = sync.remote /\ remote'.tip = sync.local.tip
      /\ UNCHANGED <<objects, ref>>
  BY <1>1 DEF FinishPush, Fine, SyncFine, projection
<1> QED
  BY <1>2 DEF LocalMovesOn, RemoteMovesOn, IsAncestor

LEMMA PullMovesOn ==
    ASSUME IInv, NEW recovery, FastForward(recovery)
    PROVE  LocalMovesOn /\ RemoteMovesOn
<1>1. /\ IsAncestor(objects, sync.remote.tip, sync.local.tip)
      /\ ref = sync.local /\ ref'.tip = sync.remote.tip
      /\ UNCHANGED <<objects, remote>>
  BY DEF FastForward
<1> QED
  BY <1>1 DEF LocalMovesOn, RemoteMovesOn, IsAncestor

LEMMA OtherPushMovesOn ==
    ASSUME IInv, NEW n \in NoteIds, NEW k \in Keys, NEW source \in world.sources,
           OtherPush(n, k, source)
    PROVE  LocalMovesOn /\ RemoteMovesOn
<1>1. PICK F : Fine(F)
  BY DEF IInv
<1>2. Rows
  BY DEF IInv
<1>3. PICK parents : parents = IF remote.tip = 0 THEN <<>> ELSE <<remote.tip>>
  OBVIOUS
<1>4. PICK notes : objects' = Append(objects, Object(parents, source, notes))
  BY <1>3 DEF OtherPush
<1>5. /\ remote' = [tip |-> Len(objects) + 1, version |-> remote.version + 1]
      /\ ref' = ref
  BY DEF OtherPush, projection
<1>6. remote'.tip = Len(objects) + 1
  BY <1>5
<1>7. remote.tip # 0 => remote.tip \in DOMAIN objects
  BY <1>1, <1>2, RowsFacts DEF Fine, RemoteFine, IsRow
<1> SUFFICES ASSUME remote.tip # 0
             PROVE  remote.tip \in History(objects', Len(objects) + 1)
  BY <1>5, <1>6 DEF LocalMovesOn, RemoteMovesOn
<1>8. PICK o : o = Object(parents, source, notes)
  OBVIOUS
<1>9. o.parents = parents
  BY <1>8 DEF Object
<1>10. /\ parents \in Seq(DOMAIN objects) /\ Len(parents) \in 0..2
      /\ Members(parents) = {remote.tip}
  BY <1>3, <1>7 DEF Members
<1>11. /\ Continues(objects, objects')
       /\ Len(objects) \in Nat /\ DOMAIN objects' = 1..(Len(objects) + 1)
       /\ objects'[Len(objects) + 1] = o
  <2>1. IsHistory(objects) /\ objects' = Append(objects, o)
    BY <1>2, <1>4, <1>8 DEF Rows
  <2>2. o.parents \in Seq(DOMAIN objects) /\ Len(o.parents) \in 0..2
    BY <1>9, <1>10
  <2> QED
    BY <2>1, <2>2, OneMore
<1>12. PICK more, id : more = objects' /\ id = Len(objects) + 1
  OBVIOUS
<1>13. /\ IsHistory(more) /\ id \in DOMAIN more /\ remote.tip \in DOMAIN more
       /\ Parents(more, id) = {remote.tip}
  BY <1>7, <1>9, <1>10, <1>11, <1>12 DEF Continues, Parents
<1>14. /\ History(more, id) = {id} \union Ancestors(more, {remote.tip})
       /\ remote.tip \in History(more, remote.tip)
  <2>1. History(more, id) = {id} \union Ancestors(more, Parents(more, id))
    BY <1>13, HistoryShape
  <2>2. remote.tip \in History(more, remote.tip)
    BY <1>13, HistoryShape
  <2> QED
    BY <1>13, <2>1, <2>2
<1> QED
  BY <1>12, <1>14 DEF Ancestors

LEMMA RebuildMovesOn ==
    ASSUME IInv, NEW tip, Rebuild(tip)
    PROVE  LocalMovesOn /\ RemoteMovesOn
<1>1. ref.tip = 0 /\ remote' = remote
  BY DEF IInv, Rows, Rebuild, NoSet
<1> QED
  BY <1>1 DEF LocalMovesOn, RemoteMovesOn

\* A commit, merge, push or pull of this clone, or a push of another, never
\* drops history its ref already had.
THEOREM RefsAdvance == Spec => RefsOnlyAdvance
<1>1. ASSUME IInv, [Next]_vars
      PROVE  LocalMovesOn /\ RemoteMovesOn
  <2>1. CASE UNCHANGED <<ref, remote>>
    BY <2>1 DEF LocalMovesOn, RemoteMovesOn
  <2> USE DEF projection, commands, ghosts, vars
  <2>2. CASE \E n \in NoteIds, k \in Keys :
                AddPendingNote(n, k) \/ ReviewNote(n, k) \/ AuthorMerge(n, k)
    BY <2>1, <2>2 DEF AddPendingNote, ReviewNote, AuthorMerge, Draft, Resolved
  <2>3. CASE \E n \in NoteIds : ReviseNote(n) \/ ResolveMerge(n)
    BY <2>1, <2>3 DEF ReviseNote, ResolveMerge, Draft, Resolved
  <2>4. CASE \E n \in NoteIds, k \in Keys, s \in world.sources : OtherPush(n, k, s)
    BY <1>1, <2>4, OtherPushMovesOn
  <2>5. CASE \E s \in world.sources : MoveHead(s)
    BY <2>1, <2>5 DEF MoveHead
  <2>6. CASE \E state \in {"indexed", "failed"} : ApplyIndexUpdate(state)
    BY <2>1, <2>6 DEF ApplyIndexUpdate
  <2>7. CASE StartCommit \/ WriteObject \/ StopWriter \/ StartMergeCommit
    BY <2>1, <2>7 DEF StartCommit, WriteObject, StopWriter, StartMergeCommit
  <2>8. CASE FinalizeCommit \/ FinalizeMerge
    BY <1>1, <2>8, CommitMovesOn, MergeMovesOn
  <2>9. CASE \E i \in stored : StartMerge(i) \/ Rebuild(i)
    BY <1>1, <2>1, <2>9, RebuildMovesOn DEF StartMerge
  <2>10. CASE StartPush \/ Fetch \/ StopSync
    BY <2>1, <2>10 DEF StartPush, Fetch, StopSync
  <2>11. CASE FinishPush
    BY <1>1, <2>11, PushMovesOn
  <2>12. CASE \E recovery \in BOOLEAN : FastForward(recovery)
    BY <1>1, <2>12, PullMovesOn
  <2>13. CASE \E v \in DOMAIN Envelopes : ImportCandidate(v)
    BY <2>1, <2>13 DEF ImportCandidate
  <2>14. CASE PromoteCandidate
    BY <2>1, <2>14 DEF PromoteCandidate
  <2>15. CASE LoseProjection
    BY <2>15 DEF LoseProjection, LocalMovesOn, RemoteMovesOn
  <2>16. CASE UNCHANGED vars
    BY <2>1, <2>16
  <2> HIDE DEF projection, commands, ghosts, vars
  <2> QED
    BY <1>1, <2>2, <2>3, <2>4, <2>5, <2>6, <2>7, <2>8, <2>9, <2>10, <2>11, <2>12, <2>13,
       <2>14, <2>15, <2>16 DEF Next
<1> QED
  BY <1>1, Invariance, PTL DEF Spec, RefsOnlyAdvance, LocalMovesOn, RemoteMovesOn

\* What becomes of one pending change.
StaysOrLands(n) ==
    \/ /\ n \in DOMAIN pending'
       /\ \/ pending'[n].rev = pending[n].rev
          \/ pending'[n].sup = pending[n].rev
    \/ /\ ref'.tip # ref.tip
       /\ objects'[ref'.tip].notes[n] = pending[n]

\* Rows of other notes leave the pending ones alone.
LEMMA OthersStay ==
    ASSUME NEW rows, pending' = Overlay(pending, rows),
           NEW n \in DOMAIN pending, n \notin DOMAIN rows
    PROVE  StaysOrLands(n)
<1>1. Overlays(pending, rows, pending')
  BY OverlayShape
<1>2. n \in DOMAIN pending' /\ pending'[n] = pending[n]
  BY <1>1 DEF Overlays
<1> QED
  BY <1>2 DEF StaysOrLands

\* The row of the drafted note keeps its revision or supersedes it.
LEMMA DraftStays ==
    ASSUME NEW m, NEW note, Draft(m, note), NEW n \in DOMAIN pending,
           m \in DOMAIN pending => note.rev = pending[m].rev \/ note.sup = pending[m].rev
    PROVE  StaysOrLands(n)
<1>1. PICK one : one = [x \in {m} |-> note]
  OBVIOUS
<1>2. pending' = Overlay(pending, one) /\ DOMAIN one = {m} /\ one[m] = note
  BY <1>1 DEF Draft
<1>3. CASE n # m
  BY <1>2, <1>3, OthersStay
<1>4. CASE n = m
  <2>1. Overlays(pending, one, pending')
    BY <1>2, OverlayShape
  <2>2. n \in DOMAIN pending' /\ pending'[n] = note
    BY <1>2, <1>4, <2>1 DEF Overlays
  <2> QED
    BY <1>4, <2>2 DEF StaysOrLands
<1> QED
  BY <1>3, <1>4

LEMMA FreshIsNotPending == FreshIds \intersect DOMAIN pending = {}
BY DEF FreshIds, UsedIds

\* A pending change leaves the table only into the new tip or by being
\* succeeded: the finalizing transactions compare the pending rows with the
\* ones that were read, and every other row is written under its identifier.
THEOREM PendingStays == Spec => PendingIsNeverLost
<1>1. ASSUME IInv, [Next]_vars, lost' = lost, NEW n \in DOMAIN pending
      PROVE  StaysOrLands(n)
  <2>1. CASE pending' = pending
    BY <2>1 DEF StaysOrLands
  <2>2. CASE pending = Empty
    BY <1>1, <2>2 DEF Empty
  <2> USE DEF projection, commands, ghosts, vars
  <2>3. ASSUME NEW m \in NoteIds, NEW k \in Keys, AddPendingNote(m, k)
        PROVE  StaysOrLands(n)
    BY <1>1, <2>3, DraftStays, FreshIsNotPending DEF AddPendingNote
  <2>4. ASSUME NEW m \in NoteIds, NEW k \in Keys, ReviewNote(m, k)
        PROVE  StaysOrLands(n)
    <3>1. PICK current : current = Effective(ws.base, pending)[m]
      OBVIOUS
    <3>2. PICK note : note = Rebound(current, k, "active", ws.source)
      OBVIOUS
    <3>3. Draft(m, note) /\ m \in DOMAIN Effective(ws.base, pending)
      BY <2>4, <3>1, <3>2 DEF ReviewNote
    <3>4. m \in DOMAIN pending => current = pending[m]
      BY <3>1 DEF Effective, Overlay
    <3>5. m \in DOMAIN pending => note.rev = current.rev
      <4>1. PICK F : Fine(F)
        BY <1>1 DEF IInv
      <4>2. m \in DOMAIN pending => current \in Notes
        BY <3>4, <4>1 DEF Fine, PendingFine, Sound, SoundNote
      <4> QED
        BY <3>2, <4>2 DEF Rebound, Notes
    <3> QED
      BY <1>1, <3>3, <3>4, <3>5, DraftStays
  <2>5. ASSUME NEW m \in NoteIds, ReviseNote(m)
        PROVE  StaysOrLands(n)
    <3>1. PICK current : current = Overlay(CommittedNotes(ws.base), pending)[m]
      OBVIOUS
    <3>2. PICK note : note = Entry(revs + 1, current.rev, current.entity, "active", ws.source)
      OBVIOUS
    <3>3. Draft(m, note)
      BY <2>5, <3>1, <3>2 DEF ReviseNote
    <3>5. note.sup = current.rev
      BY <3>2 DEF Entry
    <3>4. m \in DOMAIN pending => note.sup = pending[m].rev
      BY <3>1, <3>5 DEF Overlay
    <3>6. m \in DOMAIN pending => note.rev = pending[m].rev \/ note.sup = pending[m].rev
      BY <3>4
    <3> HIDE <3>4
    <3> QED
      BY <1>1, <3>3, <3>6, DraftStays
  <2>6. CASE \E m \in NoteIds, k \in Keys : AuthorMerge(m, k)
    BY <2>1, <2>6 DEF AuthorMerge, Resolved
  <2>7. CASE \E m \in NoteIds : ResolveMerge(m)
    BY <2>1, <2>7 DEF ResolveMerge, Resolved
  <2>8. CASE \E m \in NoteIds, k \in Keys, s \in world.sources : OtherPush(m, k, s)
    <3>1. PICK m \in NoteIds, k \in Keys, s \in world.sources : OtherPush(m, k, s)
      BY <2>8
    <3>2. pending' = pending
      BY <3>1 DEF OtherPush
    <3> QED
      BY <2>1, <3>2
  <2>9. CASE \E s \in world.sources : MoveHead(s)
    BY <2>1, <2>9 DEF MoveHead
  <2>10. CASE \E state \in {"indexed", "failed"} : ApplyIndexUpdate(state)
    <3>1. PICK rows : rows = ReconciledNotes(coverage', head)
      OBVIOUS
    <3>2. pending' = Overlay(pending, rows)
      BY <2>10, <3>1 DEF ApplyIndexUpdate
    <3>3. n \notin DOMAIN rows
      BY <1>1, <3>1 DEF ReconciledNotes
    <3> QED
      BY <1>1, <3>2, <3>3, OthersStay
  <2>11. CASE StartCommit \/ WriteObject \/ StopWriter \/ StartMergeCommit
    BY <2>1, <2>11 DEF StartCommit, WriteObject, StopWriter, StartMergeCommit
  <2>12. CASE FinalizeCommit
    <3>1. /\ ref' = [tip |-> writer.id, version |-> ref.version + 1]
          /\ writer.id # ref.tip /\ objects'[writer.id].notes = writer.notes
      BY <1>1, <2>12, CommitMovesOn
    <3>2. ref'.tip = writer.id
      BY <3>1
    <3>3. writer.notes[n] = pending[n]
      BY <1>1, <2>12 DEF FinalizeCommit, SamePending
    <3> QED
      BY <3>1, <3>2, <3>3 DEF StaysOrLands
  <2>13. CASE FinalizeMerge
    BY <2>2, <2>13 DEF FinalizeMerge
  <2>14. CASE \E i \in stored : StartMerge(i) \/ Rebuild(i)
    BY <2>1, <2>14 DEF StartMerge, Rebuild
  <2>15. CASE StartPush \/ FinishPush \/ Fetch \/ StopSync
    BY <2>1, <2>15 DEF StartPush, FinishPush, Fetch, StopSync
  <2>16. CASE \E recovery \in BOOLEAN : FastForward(recovery)
    BY <2>1, <2>16 DEF FastForward
  <2>17. CASE \E v \in DOMAIN Envelopes : ImportCandidate(v)
    BY <2>1, <2>17 DEF ImportCandidate
  <2>18. CASE PromoteCandidate
    <3> DEFINE drafts == {d \in DOMAIN candidate.notes : candidate.notes[d] = "draft"}
               kept == {d \in drafts :
                          DraftOf[d].entity \in DOMAIN FreshEntities(coverage, ws.source)}
    <3>1. PICK id \in Injection(kept, FreshIds),
               rev \in Injection(kept, (revs + 1)..(revs + Cardinality(kept))) :
             pending' = Overlay(pending, Promoted(kept, id, rev))
      BY <2>18 DEF PromoteCandidate, Promoted, Given
    <3> HIDE DEF kept
    <3>2. Range(id) \subseteq FreshIds
      BY GivenBack DEF GivesBack
    <3>3. n \notin DOMAIN Promoted(kept, id, rev)
      BY <1>1, <3>2, FreshIsNotPending DEF Promoted
    <3> QED
      BY <1>1, <3>1, <3>3, OthersStay
  <2>19. CASE LoseProjection
    BY <1>1, <2>19 DEF LoseProjection
  <2>20. CASE UNCHANGED vars
    BY <2>1, <2>20
  <2> HIDE DEF projection, commands, ghosts, vars
  <2> QED
    BY <1>1, <2>3, <2>4, <2>5, <2>6, <2>7, <2>8, <2>9, <2>10, <2>11, <2>12, <2>13,
       <2>14, <2>15, <2>16, <2>17, <2>18, <2>19, <2>20 DEF Next
<1>2. ASSUME IInv, [Next]_vars
      PROVE  lost' = lost => \A n \in DOMAIN pending : StaysOrLands(n)
  BY <1>1, <1>2
<1> QED
  BY <1>2, Invariance, PTL DEF Spec, PendingIsNeverLost, StaysOrLands
=============================================================================

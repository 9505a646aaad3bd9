-------------------------- MODULE MbxMsgPoolProofs --------------------------
(***************************************************************************)
(* Proofs about MbxMsgPool, for any clients, classes, contents, sizes and  *)
(* number of slots.                                                        *)
(***************************************************************************)
EXTENDS MbxMsgPool, FiniteSetTheorems, SequenceTheorems, WellFoundedInduction, TLAPS

-----------------------------------------------------------------------------
(* Linked lists.                                                           *)

Elems(q) == {q[i] : i \in 1 .. Len(q)}

\* The links from s lead through q, without a repetition, and end there.
Path(next, s, q) ==
  /\ \A i, j \in 1 .. Len(q) : q[i] = q[j] => i = j
  /\ Len(q) = 0 => s = NULL
  /\ Len(q) > 0 => s = q[1]
  /\ \A i \in 1 .. Len(q) : next[q[i]] = IF i < Len(q) THEN q[i + 1] ELSE NULL

\* A set of naturals that is not empty has a least element.
LEMMA LeastOf ==
  ASSUME NEW S \in SUBSET Nat, S # {}
  PROVE  \E x \in S : \A y \in S : x <= y
<1> DEFINE R == OpToRel(<, Nat)
<1>1. \A x, y \in Nat : y < x => <<y, x>> \in R
  BY DEF OpToRel
<1>2. IsWellFoundedOn(R, Nat)
  BY NatLessThanWellFounded
<1> HIDE DEF R
<1>3. PICK x \in S : \A y \in S : ~(<<y, x>> \in R)
  BY <1>2, WFMin
<1>4. ASSUME NEW y \in S PROVE x <= y
  <2>1. x \in Nat /\ y \in Nat /\ ~(y < x)
    BY <1>1, <1>3
  <2> QED
    BY <2>1
<1> QED
  BY <1>4

\* The recursion of Follow, of which g is a solution.
Follows(g, next, s, n) ==
  g = [i \in 0 .. n |-> IF i = 0 THEN s
                        ELSE IF g[i - 1] = NULL THEN NULL ELSE next[g[i - 1]]]

\* There is at most one.
LEMMA FollowUnique ==
  ASSUME NEW next, NEW s, NEW n \in Nat, NEW f, NEW g,
         Follows(f, next, s, n), Follows(g, next, s, n), NEW i \in 0 .. n
  PROVE  f[i] = g[i]
<1> USE DEF Follows
<1> DEFINE Bad == {j \in 0 .. n : f[j] # g[j]}
<1>1. SUFFICES ASSUME Bad # {} PROVE FALSE
  OBVIOUS
<1>2. Bad \in SUBSET Nat
  OBVIOUS
<1>3. PICK x \in Bad : \A y \in Bad : x <= y
  BY <1>1, <1>2, LeastOf
<1>4. x \in 0 .. n /\ f[x] # g[x]
  BY <1>3
<1>5. x # 0
  BY <1>4
<1>6. x - 1 \in 0 .. n /\ ~(x <= x - 1)
  BY <1>4, <1>5
<1>7. f[x - 1] = g[x - 1]
  BY <1>3, <1>6
<1> QED
  BY <1>4, <1>5, <1>6, <1>7

LEMMA FollowPath ==
  ASSUME NEW D, NEW next \in [D -> D \cup {NULL}], NULL \notin D,
         IsFiniteSet(D), NEW s, NEW q \in Seq(D), Path(next, s, q)
  PROVE  \A i \in 0 .. Cardinality(D) :
           Follow(next, s)[i] = IF i < Len(q) THEN q[i + 1] ELSE NULL
<1>1. PICK n \in Nat : n = Cardinality(D)
  BY FS_CardinalityType
<1>2. DOMAIN next = D
  OBVIOUS
<1> DEFINE f == [i \in 0 .. n |-> IF i < Len(q) THEN q[i + 1] ELSE NULL]
           h == CHOOSE g : Follows(g, next, s, n)
<1>3. Follows(f, next, s, n)
  <2>1. f[0] = s
    BY DEF Path
  <2>2. ASSUME NEW i \in 1 .. n
        PROVE  f[i] = IF f[i - 1] = NULL THEN NULL ELSE next[f[i - 1]]
    <3>1. i - 1 \in 0 .. n /\ i \in 0 .. n
      OBVIOUS
    <3>2. CASE i < Len(q)
      <4>1. f[i - 1] = q[i] /\ q[i] \in D /\ next[q[i]] = q[i + 1] /\ f[i] = q[i + 1]
        BY <3>1, <3>2 DEF Path
      <4> QED
        BY <4>1
    <3>3. CASE i = Len(q)
      <4>1. f[i - 1] = q[i] /\ next[q[i]] = NULL /\ f[i] = NULL /\ q[i] \in D
        BY <3>1, <3>3 DEF Path
      <4> QED
        BY <4>1
    <3>4. CASE i > Len(q)
      BY <3>1, <3>4
    <3> QED
      BY <3>2, <3>3, <3>4
  <2>3. f = [i \in 0 .. n |-> f[i]]
    OBVIOUS
  <2> HIDE DEF f
  <2>4. \A i \in 0 .. n : i # 0 => i \in 1 .. n
    OBVIOUS
  <2> QED
    BY <2>1, <2>2, <2>3, <2>4 DEF Follows
<1>4. Follows(h, next, s, n)
  <2> HIDE DEF f
  <2> QED
    BY <1>3
<1>5. Follow(next, s) = h
  BY <1>1, <1>2 DEF Follow, Follows
<1>6. ASSUME NEW i \in 0 .. n PROVE h[i] = f[i]
  <2> HIDE DEF f, h
  <2> QED
    BY <1>3, <1>4, FollowUnique
<1> QED
  BY <1>1, <1>5, <1>6

\* The list has as many elements as it is long, and not more than there are.
LEMMA PathLength ==
  ASSUME NEW D, IsFiniteSet(D), NEW next, NEW s, NEW q \in Seq(D), Path(next, s, q)
  PROVE  /\ Len(q) \in Nat /\ Len(q) <= Cardinality(D)
         /\ IsFiniteSet(Elems(q)) /\ Cardinality(Elems(q)) = Len(q)
         /\ Elems(q) \subseteq D
<1>1. PICK n \in Nat : n = Len(q)
  OBVIOUS
<1>2. Elems(q) \subseteq D
  BY DEF Elems
<1>3. IsFiniteSet(Elems(q)) /\ Cardinality(Elems(q)) <= Cardinality(D)
  BY <1>2, FS_Subset
<1> DEFINE f == [i \in 1 .. n |-> q[i]]
<1>4. f \in Bijection(1 .. n, Elems(q))
  <2>1. f \in [1 .. n -> Elems(q)] /\ IsInjective(f)
    BY <1>1 DEF Elems, IsInjective, Path
  <2>2. \A x \in Elems(q) : \E i \in 1 .. n : f[i] = x
    BY <1>1 DEF Elems
  <2> QED
    BY <2>1, <2>2 DEF Bijection, Injection, Surjection
<1>5. Cardinality(Elems(q)) = n
  <2>1. ExistsBijection(1 .. n, Elems(q))
    BY <1>4 DEF ExistsBijection
  <2> QED
    BY <2>1, FS_CountingElements
<1> QED
  BY <1>1, <1>2, <1>3, <1>5

LEMMA ChainPath ==
  ASSUME NEW D, NEW next \in [D -> D \cup {NULL}], NULL \notin D,
         IsFiniteSet(D), NEW s, NEW q \in Seq(D), Path(next, s, q)
  PROVE  Chain(next, s) = Elems(q)
<1>1. PICK n \in Nat : n = Cardinality(D)
  BY FS_CardinalityType
<1>0. PICK h : h = Follow(next, s)
  OBVIOUS
<1>2. \A i \in 0 .. n : h[i] = IF i < Len(q) THEN q[i + 1] ELSE NULL
  BY <1>0, <1>1, FollowPath
<1>3. Len(q) \in Nat /\ Len(q) <= n
  BY <1>1, PathLength
<1>4. Chain(next, s) = {h[i] : i \in 0 .. n} \ {NULL}
  BY <1>0, <1>1 DEF Chain
<1>5. ASSUME NEW i \in 0 .. n, h[i] # NULL PROVE h[i] \in Elems(q)
  <2>1. i < Len(q) /\ h[i] = q[i + 1] /\ i + 1 \in 1 .. Len(q)
    BY <1>2, <1>3, <1>5
  <2> QED
    BY <2>1 DEF Elems
<1>6. ASSUME NEW i \in 1 .. Len(q) PROVE q[i] \in {h[j] : j \in 0 .. n} \ {NULL}
  <2>1. i - 1 \in 0 .. n /\ i - 1 < Len(q) /\ (i - 1) + 1 = i
    BY <1>3
  <2>2. h[i - 1] = q[i] /\ q[i] \in D
    BY <1>2, <2>1
  <2> QED
    BY <2>1, <2>2
<1> QED
  BY <1>4, <1>5, <1>6 DEF Elems

-----------------------------------------------------------------------------
(* Changing lists.                                                         *)

\* Only the links of the nodes on a list matter.
LEMMA PathFrame ==
  ASSUME NEW next, NEW s, NEW q, Path(next, s, q),
         NEW next2, \A x \in Elems(q) : next2[x] = next[x]
  PROVE  Path(next2, s, q)
<1>1. \A i \in 1 .. Len(q) : next2[q[i]] = next[q[i]]
  BY DEF Elems
<1> QED
  BY <1>1 DEF Path

LEMMA EmptyElems ==
  ASSUME NEW q, Len(q) = 0
  PROVE  Elems(q) = {}
BY DEF Elems

LEMMA PathEmpty ==
  ASSUME NEW next
  PROVE  Path(next, NULL, <<>>) /\ Elems(<<>>) = {} /\ Len(<<>>) = 0
<1>1. PICK q : q = <<>>
  OBVIOUS
<1>2. Len(q) = 0
  BY <1>1
<1>3. Path(next, NULL, q) /\ Elems(q) = {}
  BY <1>2 DEF Path, Elems
<1> QED
  BY <1>1, <1>2, <1>3

\* A node is linked to the last one, or becomes the first.
LEMMA PathAppend ==
  ASSUME NEW D, NEW next, NEW s, NEW q \in Seq(D), Path(next, s, q),
         NEW x \in D, x \notin Elems(q),
         NEW next2, next2[x] = NULL,
         \A i \in 1 .. Len(q) : next2[q[i]] = IF i < Len(q) THEN next[q[i]] ELSE x
  PROVE  /\ Path(next2, IF Len(q) > 0 THEN s ELSE x, Append(q, x))
         /\ Elems(Append(q, x)) = Elems(q) \cup {x}
<1>0. Len(q) \in Nat /\ Append(q, x) \in Seq(D)
  OBVIOUS
<1>1. PICK n \in Nat, r \in Seq(D) : n = Len(q) /\ r = Append(q, x)
  BY <1>0
<1>2. /\ Len(r) = n + 1 /\ r[n + 1] = x /\ \A i \in 1 .. n : r[i] = q[i]
      /\ \A i \in 1 .. n + 1 : i = n + 1 \/ i \in 1 .. n
  BY <1>1
<1>3. ASSUME NEW i \in 1 .. n + 1, NEW j \in 1 .. n + 1, r[i] = r[j] PROVE i = j
  <2>1. \A l \in 1 .. n : q[l] # x
    BY <1>1 DEF Elems
  <2>2. \A l, m \in 1 .. n : q[l] = q[m] => l = m
    BY <1>1 DEF Path
  <2> QED
    BY <1>2, <1>3, <2>1, <2>2
<1>4. (IF n > 0 THEN s ELSE x) = r[1]
  <2>1. CASE n > 0
    BY <1>1, <1>2, <2>1 DEF Path
  <2>2. CASE n = 0
    BY <1>2, <2>2
  <2> QED
    BY <2>1, <2>2
<1>5. ASSUME NEW i \in 1 .. n + 1
      PROVE  next2[r[i]] = IF i < n + 1 THEN r[i + 1] ELSE NULL
  <2>1. CASE i = n + 1
    BY <1>2, <2>1
  <2>2. CASE i \in 1 .. n /\ i < n
    <3>1. next2[q[i]] = next[q[i]] /\ next[q[i]] = q[i + 1]
      BY <1>1, <2>2 DEF Path
    <3> QED
      BY <1>2, <2>2, <3>1
  <2>3. CASE i = n /\ i \in 1 .. n
    BY <1>1, <1>2, <2>3
  <2> QED
    BY <1>2, <2>1, <2>2, <2>3
<1>6. Path(next2, IF n > 0 THEN s ELSE x, r)
  BY <1>2, <1>3, <1>4, <1>5 DEF Path
<1>7. Elems(r) = Elems(q) \cup {x}
  <2>1. \A i \in 1 .. n + 1 : r[i] \in Elems(q) \cup {x}
    BY <1>1, <1>2 DEF Elems
  <2>2. \A i \in 1 .. n : q[i] \in Elems(r)
    BY <1>2 DEF Elems
  <2>3. x \in Elems(r)
    BY <1>2 DEF Elems
  <2> QED
    BY <1>1, <1>2, <2>1, <2>2, <2>3 DEF Elems
<1> QED
  BY <1>1, <1>6, <1>7

\* The first node is taken off.
LEMMA PathTail ==
  ASSUME NEW D, NEW next, NEW s, NEW q \in Seq(D), Path(next, s, q), Len(q) > 0,
         NEW next2, \A x \in Elems(q) : x # s => next2[x] = next[x]
  PROVE  /\ s = q[1] /\ s \in Elems(q)
         /\ Tail(q) \in Seq(D) /\ Len(Tail(q)) = Len(q) - 1
         /\ Path(next2, next[s], Tail(q))
         /\ Elems(Tail(q)) = Elems(q) \ {s}
         /\ Len(q) > 1 => Tail(q)[Len(q) - 1] = q[Len(q)]
<1>0. Len(q) \in Nat /\ Tail(q) \in Seq(D)
  OBVIOUS
<1>1. PICK n \in Nat, r \in Seq(D) : n = Len(q) /\ r = Tail(q)
  BY <1>0
<1>2. /\ Len(r) = n - 1 /\ \A i \in 1 .. n - 1 : r[i] = q[i + 1]
  BY <1>1
<1>3. s = q[1] /\ \A i, j \in 1 .. n : q[i] = q[j] => i = j
  BY <1>1 DEF Path
<1>4. s \in Elems(q)
  BY <1>1, <1>3 DEF Elems
<1>5. ASSUME NEW i \in 1 .. n - 1
      PROVE  /\ i + 1 \in 1 .. n /\ r[i] = q[i + 1] /\ q[i + 1] # s
             /\ q[i + 1] \in Elems(q) /\ next2[r[i]] = next[q[i + 1]]
  <2>1. i + 1 \in 1 .. n /\ i + 1 # 1 /\ 1 \in 1 .. n
    OBVIOUS
  <2>2. q[i + 1] # s /\ q[i + 1] \in Elems(q)
    BY <1>1, <1>3, <2>1 DEF Elems
  <2> QED
    BY <1>2, <2>1, <2>2
<1>6. ASSUME NEW i \in 1 .. n - 1, NEW j \in 1 .. n - 1, r[i] = r[j] PROVE i = j
  BY <1>3, <1>5, <1>6
<1>7. next[s] = IF n > 1 THEN q[2] ELSE NULL
  BY <1>1, <1>3 DEF Path
<1>8. ASSUME NEW i \in 1 .. n - 1
      PROVE  next2[r[i]] = IF i < n - 1 THEN r[i + 1] ELSE NULL
  <2>1. next[q[i + 1]] = IF i + 1 < n THEN q[(i + 1) + 1] ELSE NULL
    BY <1>1, <1>5 DEF Path
  <2>2. CASE i < n - 1
    <3>1. i + 1 \in 1 .. n - 1 /\ i + 1 < n
      BY <2>2
    <3> QED
      BY <1>2, <1>5, <2>1, <2>2, <3>1
  <2>3. CASE i = n - 1
    BY <1>5, <2>1, <2>3
  <2> QED
    BY <2>2, <2>3
<1>9. Path(next2, next[s], r)
  <2>1. n - 1 = 0 => next[s] = NULL
    BY <1>7
  <2>2. n - 1 > 0 => next[s] = r[1]
    BY <1>2, <1>7
  <2> QED
    BY <1>2, <1>6, <1>8, <2>1, <2>2 DEF Path
<1>10. Elems(r) = Elems(q) \ {s}
  <2>1. \A i \in 1 .. n - 1 : r[i] \in Elems(q) \ {s}
    BY <1>5
  <2>2. ASSUME NEW i \in 1 .. n, q[i] # s PROVE q[i] \in Elems(r)
    <3>1. i - 1 \in 1 .. n - 1 /\ (i - 1) + 1 = i
      BY <1>3, <2>2
    <3>2. r[i - 1] = q[i]
      BY <1>2, <3>1
    <3> QED
      BY <1>2, <3>1, <3>2 DEF Elems
  <2>3. Elems(r) \subseteq Elems(q) \ {s}
    <3>1. Elems(r) = {r[i] : i \in 1 .. n - 1}
      BY <1>2 DEF Elems
    <3> QED
      BY <2>1, <3>1
  <2>4. Elems(q) \ {s} \subseteq Elems(r)
    <3>1. Elems(q) = {q[i] : i \in 1 .. n}
      BY <1>1 DEF Elems
    <3> QED
      BY <2>2, <3>1
  <2> QED
    BY <2>3, <2>4
<1>11. n > 1 => r[n - 1] = q[n]
  BY <1>2
<1> QED
  BY <1>1, <1>2, <1>3, <1>4, <1>9, <1>10, <1>11

-----------------------------------------------------------------------------
(* The inductive invariants.                                               *)

Latest == [c : Classes, k : Kinds, s : Slots]

PoolTyped ==
  /\ pool \in [used : SUBSET Slots, next : [Slots -> Slots \cup {NULL}],
               msg : [Slots -> Contents \cup {NULL}], free : Int]
  /\ first \in [Classes -> [Kinds -> Slots \cup {NULL}]]
  /\ end \in [Classes -> [Kinds -> Slots \cup {NULL}]]
  /\ num \in [Classes -> [Kinds -> Nat]]
LinksTyped ==
  /\ notifier \in [Classes -> Clients \cup {NULL}]
  /\ nextq \in [Classes -> Classes \cup {NULL}]
  /\ qfirst \in [Clients -> Classes \cup {NULL}]
ClassTyped ==
  /\ LinksTyped
  /\ status \in [Classes -> {"INVALID", "EMPTY", "NORMAL", "OVERFLOW"}]
  /\ size \in [Classes -> Nat]
  /\ checked \in [Clients -> Latest \cup {NULL}]

\* The slots of class c and kind k are those of q, in that order.
IsList(c, k, q) ==
  /\ Path(pool.next, first[c][k], q)
  /\ Len(q) = num[c][k]
  /\ num[c][k] > 0 => end[c][k] = q[num[c][k]]

\* Q says for all classes and kinds which slots they have; no slot is in two
\* lists, none is lost, and the others are counted as free.
Lists(Q) ==
  /\ Q \in [Classes -> [Kinds -> Seq(Slots)]]
  /\ \A c \in Classes, k \in Kinds : IsList(c, k, Q[c][k])
  /\ \A c, d \in Classes, k, l \in Kinds, s \in Slots :
       s \in Elems(Q[c][k]) /\ s \in Elems(Q[d][l]) => c = d /\ k = l
  /\ \A s \in Slots : s \in pool.used <=> \E c \in Classes, k \in Kinds : s \in Elems(Q[c][k])
  /\ pool.free = u16Slots - Cardinality(pool.used)

-----------------------------------------------------------------------------
(* The slots.                                                              *)

LEMMA SlotsFinite ==
  /\ Slots \subseteq Nat /\ NULL \notin Slots /\ IsFiniteSet(Slots)
  /\ Cardinality(Slots) = u16Slots /\ u16Slots \in Nat
<1>1. u16Slots \in Nat /\ u16Slots - 1 \in Int /\ ~(0 > u16Slots - 1)
  BY SizesAssumption
<1>2. IsFiniteSet(Slots) /\ Cardinality(Slots) = (u16Slots - 1) - 0 + 1
  BY <1>1, FS_Interval DEF Slots
<1>3. Slots \subseteq Nat /\ NULL \notin Slots
  BY <1>1, NullAssumption DEF Slots
<1> QED
  BY <1>1, <1>2, <1>3

LEMMA UsedFinite ==
  ASSUME PoolTyped
  PROVE  /\ IsFiniteSet(pool.used) /\ Cardinality(pool.used) \in Nat
         /\ Cardinality(pool.used) <= u16Slots
<1>1. pool.used \in SUBSET Slots
  BY DEF PoolTyped
<1> QED
  BY <1>1, SlotsFinite, FS_Subset, FS_CardinalityType

\* The lists that Chain follows are those of Q.
LEMMA ListOfIs ==
  ASSUME PoolTyped, NEW Q, Lists(Q), NEW c \in Classes, NEW k \in Kinds
  PROVE  /\ ListOf(c, k) = Elems(Q[c][k])
         /\ Elems(Q[c][k]) \subseteq pool.used
         /\ Cardinality(Elems(Q[c][k])) = num[c][k]
<1>1. Q[c][k] \in Seq(Slots) /\ IsList(c, k, Q[c][k])
  BY DEF Lists
<1>2. Path(pool.next, first[c][k], Q[c][k]) /\ Len(Q[c][k]) = num[c][k]
  BY <1>1 DEF IsList
<1>3. pool.next \in [Slots -> Slots \cup {NULL}]
  BY DEF PoolTyped
<1>4. ListOf(c, k) = Elems(Q[c][k])
  BY <1>1, <1>2, <1>3, SlotsFinite, ChainPath DEF ListOf
<1>5. Cardinality(Elems(Q[c][k])) = num[c][k] /\ Elems(Q[c][k]) \subseteq Slots
  BY <1>1, <1>2, SlotsFinite, PathLength
<1>6. Elems(Q[c][k]) \subseteq pool.used
  BY <1>5 DEF Lists
<1> QED
  BY <1>4, <1>5, <1>6

\* What the lists say when they are read as sets of slots.
LEMMA ListsAccount ==
  ASSUME PoolTyped, NEW Q, Lists(Q)
  PROVE  SlotsAccounted
<1>1. pool.used = Listed
  <2>1. pool.used \subseteq Slots
    BY DEF PoolTyped
  <2>2. ASSUME NEW s \in pool.used
        PROVE  \E c \in Classes, k \in Kinds : s \in ListOf(c, k)
    <3>1. PICK c \in Classes, k \in Kinds : s \in Elems(Q[c][k])
      BY <2>1, <2>2 DEF Lists
    <3> QED
      BY <3>1, ListOfIs
  <2>3. \A c \in Classes, k \in Kinds : ListOf(c, k) \subseteq pool.used
    BY ListOfIs
  <2> QED
    BY <2>2, <2>3 DEF Listed
<1>2. ASSUME NEW c \in Classes, NEW d \in Classes, NEW k \in Kinds, NEW l \in Kinds,
             <<c, k>> # <<d, l>>
      PROVE  ListOf(c, k) \cap ListOf(d, l) = {}
  <2>1. pool.used \subseteq Slots
    BY DEF PoolTyped
  <2>2. Elems(Q[c][k]) \cap Elems(Q[d][l]) = {}
    <3>1. Elems(Q[c][k]) \subseteq Slots
      BY <2>1, ListOfIs
    <3> QED
      BY <1>2, <3>1 DEF Lists
  <2> QED
    BY <2>2, ListOfIs
<1>3. ASSUME NEW c \in Classes, NEW k \in Kinds, num[c][k] > 0
      PROVE  end[c][k] \in ListOf(c, k) /\ pool.next[end[c][k]] = NULL
  <2>1. PICK n \in Nat : n = num[c][k]
    BY DEF PoolTyped
  <2>2. /\ Q[c][k] \in Seq(Slots) /\ Len(Q[c][k]) = n /\ end[c][k] = Q[c][k][n]
        /\ Path(pool.next, first[c][k], Q[c][k])
    BY <1>3, <2>1 DEF Lists, IsList
  <2>3. n \in 1 .. n /\ ~(n < n)
    BY <1>3, <2>1
  <2>4. pool.next[Q[c][k][n]] = NULL
    BY <2>2, <2>3 DEF Path
  <2>5. Q[c][k][n] \in Elems(Q[c][k])
    BY <2>2, <2>3 DEF Elems
  <2> QED
    BY <2>2, <2>4, <2>5, ListOfIs
<1>4. \A c \in Classes, k \in Kinds : Cardinality(ListOf(c, k)) = num[c][k]
  BY ListOfIs
<1>5. pool.free = u16Slots - Cardinality(pool.used)
  BY DEF Lists
<1> QED
  BY <1>1, <1>2, <1>3, <1>4, <1>5 DEF SlotsAccounted, Unshared

\* The lists after a step, part by part.
LEMMA ListsNext ==
  ASSUME NEW R \in [Classes -> [Kinds -> Seq(Slots)]],
         \A c \in Classes, k \in Kinds : IsList(c, k, R[c][k])',
         \A c, d \in Classes, k, l \in Kinds, s \in Slots :
           s \in Elems(R[c][k]) /\ s \in Elems(R[d][l]) => c = d /\ k = l,
         \A s \in Slots :
           s \in pool'.used <=> \E c \in Classes, k \in Kinds : s \in Elems(R[c][k]),
         pool'.free = u16Slots - Cardinality(pool'.used)
  PROVE  Lists(R)'
BY DEF Lists

\* A step that leaves the pool and the ends of the lists alone.
LEMMA ListsFrame ==
  ASSUME NEW Q, Lists(Q), UNCHANGED <<pool, first, end, num>>
  PROVE  Lists(Q)'
BY DEF Lists, IsList

-----------------------------------------------------------------------------
(* Taking a slot and giving slots back.                                    *)

\* What Link does to the pool, slot by slot.
CountUp(c, k) == num' = [num EXCEPT ![c][k] = @ + 1]
Linked(c, k, s, m) ==
  /\ PoolTyped'
  /\ pool'.used = pool.used \cup {s} /\ pool'.free = pool.free - 1
  /\ pool'.msg = [pool.msg EXCEPT ![s] = m]
  /\ \A x \in Slots : pool'.next[x] =
       IF num[c][k] > 0 /\ x = end[c][k] THEN s
       ELSE IF x = s THEN NULL ELSE pool.next[x]
  /\ first' = IF num[c][k] > 0 THEN first ELSE [first EXCEPT ![c][k] = s]
  /\ end' = [end EXCEPT ![c][k] = s]

LEMMA LinkEffect ==
  ASSUME PoolTyped, NEW c \in Classes, NEW k \in Kinds, NEW s \in Slots, NEW m \in Contents,
         Link(c, k, s, m), CountUp(c, k), num[c][k] > 0 => end[c][k] \in Slots
  PROVE  Linked(c, k, s, m)
<1> DEFINE nn == IF num[c][k] > 0
                 THEN [pool.next EXCEPT ![s] = NULL, ![end[c][k]] = s]
                 ELSE [pool.next EXCEPT ![s] = NULL]
<1>1. /\ pool.next \in [Slots -> Slots \cup {NULL}] /\ pool.used \subseteq Slots
      /\ pool.msg \in [Slots -> Contents \cup {NULL}] /\ pool.free \in Int
      /\ pool = [used |-> pool.used, next |-> pool.next, msg |-> pool.msg, free |-> pool.free]
  BY DEF PoolTyped
<1>2. pool' = [used |-> pool.used \cup {s}, next |-> nn,
               msg |-> [pool.msg EXCEPT ![s] = m], free |-> pool.free - 1]
  BY <1>1 DEF Link
<1>3. \A x \in Slots : nn[x] = IF num[c][k] > 0 /\ x = end[c][k] THEN s
                               ELSE IF x = s THEN NULL ELSE pool.next[x]
  BY <1>1
<1>4. nn \in [Slots -> Slots \cup {NULL}]
  BY <1>1
<1> HIDE DEF nn
<1>5. pool' \in [used : SUBSET Slots, next : [Slots -> Slots \cup {NULL}],
                 msg : [Slots -> Contents \cup {NULL}], free : Int]
  <2>1. [pool.msg EXCEPT ![s] = m] \in [Slots -> Contents \cup {NULL}]
    BY <1>1
  <2>2. pool.used \cup {s} \in SUBSET Slots /\ pool.free - 1 \in Int
    BY <1>1
  <2> QED
    BY <1>2, <1>4, <2>1, <2>2
<1>6. /\ first' = IF num[c][k] > 0 THEN first ELSE [first EXCEPT ![c][k] = s]
      /\ end' = [end EXCEPT ![c][k] = s]
  BY DEF Link
<1>7. /\ first' \in [Classes -> [Kinds -> Slots \cup {NULL}]]
      /\ end' \in [Classes -> [Kinds -> Slots \cup {NULL}]]
  BY <1>6 DEF PoolTyped
<1>8. num' \in [Classes -> [Kinds -> Nat]]
  BY DEF PoolTyped, CountUp
<1> QED
  BY <1>2, <1>3, <1>5, <1>6, <1>7, <1>8 DEF PoolTyped, Linked

\* A free slot is linked to the end of one list; the others do not notice.
LEMMA LinkLists ==
  ASSUME PoolTyped, NEW Q, Lists(Q), NEW c \in Classes, NEW k \in Kinds,
         NEW s \in Slots, s \notin pool.used, NEW m \in Contents,
         Link(c, k, s, m), CountUp(c, k)
  PROVE  PoolTyped' /\ Lists([Q EXCEPT ![c][k] = Append(@, s)])'
<1> DEFINE R == [Q EXCEPT ![c][k] = Append(@, s)]
<1>1. PICK q \in Seq(Slots), n \in Nat : q = Q[c][k] /\ n = num[c][k]
  BY DEF Lists, PoolTyped
<1>2. /\ Path(pool.next, first[c][k], q) /\ Len(q) = n /\ (n > 0 => end[c][k] = q[n])
      /\ Elems(q) \subseteq pool.used /\ pool.used \subseteq Slots
  BY <1>1, ListOfIs DEF Lists, IsList, PoolTyped
<1>3. n > 0 => end[c][k] \in Slots /\ end[c][k] \in pool.used
  BY <1>2 DEF Elems
<1>4. /\ PoolTyped'
      /\ pool'.used = pool.used \cup {s} /\ pool'.free = pool.free - 1
      /\ \A x \in Slots : pool'.next[x] =
           IF n > 0 /\ x = end[c][k] THEN s
           ELSE IF x = s THEN NULL ELSE pool.next[x]
      /\ first' = IF n > 0 THEN first ELSE [first EXCEPT ![c][k] = s]
      /\ end' = [end EXCEPT ![c][k] = s]
  <2>1. num[c][k] > 0 => end[c][k] \in Slots
    BY <1>1, <1>3
  <2>2. Linked(c, k, s, m)
    BY <2>1, LinkEffect
  <2> QED
    BY <1>1, <2>2 DEF Linked
<1>5. /\ R \in [Classes -> [Kinds -> Seq(Slots)]]
      /\ R[c][k] = Append(q, s)
      /\ \A d \in Classes, l \in Kinds : d # c \/ l # k => R[d][l] = Q[d][l]
  BY <1>1 DEF Lists
<1> HIDE DEF R
<1>6. /\ Path(pool'.next, IF Len(q) > 0 THEN first[c][k] ELSE s, Append(q, s))
      /\ Elems(Append(q, s)) = Elems(q) \cup {s}
  <2>1. pool'.next[s] = NULL
    BY <1>3, <1>4
  <2>2. ASSUME NEW i \in 1 .. Len(q)
        PROVE  pool'.next[q[i]] = IF i < Len(q) THEN pool.next[q[i]] ELSE s
    <3>1. q[i] \in Slots /\ q[i] \in Elems(q) /\ n > 0 /\ n \in 1 .. Len(q)
      BY <1>2 DEF Elems
    <3>2. q[i] # s
      BY <1>2, <3>1
    <3>3. q[i] = q[n] <=> i = n
      BY <1>2, <3>1 DEF Path
    <3> QED
      BY <1>2, <1>4, <3>1, <3>2, <3>3
  <2>3. s \notin Elems(q)
    BY <1>2
  <2> QED
    BY <1>2, <2>1, <2>2, <2>3, PathAppend
<1>7. ASSUME NEW d \in Classes, NEW l \in Kinds
      PROVE  IsList(d, l, R[d][l])'
  <2>1. CASE d = c /\ l = k
    <3>1. first'[c][k] = IF Len(q) > 0 THEN first[c][k] ELSE s
      BY <1>2, <1>4 DEF PoolTyped
    <3>2. num'[c][k] = n + 1 /\ end'[c][k] = s
      BY <1>1, <1>4 DEF PoolTyped, CountUp
    <3>3. Len(Append(q, s)) = n + 1 /\ Append(q, s)[n + 1] = s
      BY <1>2
    <3> QED
      BY <1>5, <1>6, <2>1, <3>1, <3>2, <3>3 DEF IsList
  <2>2. CASE d # c \/ l # k
    <3>1. R[d][l] = Q[d][l] /\ IsList(d, l, Q[d][l])
      BY <1>5, <2>2 DEF Lists
    <3>2. first'[d][l] = first[d][l] /\ end'[d][l] = end[d][l] /\ num'[d][l] = num[d][l]
      BY <1>4, <2>2 DEF PoolTyped, CountUp
    <3>3. ASSUME NEW x \in Elems(Q[d][l])
          PROVE  pool'.next[x] = pool.next[x]
      <4>1. x \in pool.used /\ x \in Slots
        BY <1>2, ListOfIs
      <4>2. x \notin Elems(q)
        BY <1>1, <2>2, <4>1 DEF Lists
      <4>3. n > 0 => end[c][k] \in Elems(q)
        BY <1>2 DEF Elems
      <4> QED
        BY <1>4, <4>1, <4>2, <4>3
    <3>4. Path(pool'.next, first[d][l], Q[d][l])
      BY <3>1, <3>3, PathFrame DEF IsList
    <3> QED
      BY <3>1, <3>2, <3>4 DEF IsList
  <2> QED
    BY <2>1, <2>2
<1>8. ASSUME NEW d \in Classes, NEW l \in Kinds, NEW x \in Slots
      PROVE  x \in Elems(R[d][l]) <=> x \in Elems(Q[d][l]) \/ (d = c /\ l = k /\ x = s)
  <2>1. CASE d = c /\ l = k
    <3>1. Elems(R[d][l]) = Elems(Q[d][l]) \cup {s}
      BY <1>1, <1>5, <1>6, <2>1
    <3> QED
      BY <2>1, <3>1
  <2>2. CASE d # c \/ l # k
    <3>1. R[d][l] = Q[d][l]
      BY <1>5, <2>2
    <3> QED
      BY <2>2, <3>1
  <2> QED
    BY <2>1, <2>2
<1>9. ASSUME NEW d \in Classes, NEW l \in Kinds
      PROVE  s \notin Elems(Q[d][l])
  BY ListOfIs
<1>10. ASSUME NEW d \in Classes, NEW e \in Classes, NEW l \in Kinds, NEW j \in Kinds,
              NEW x \in Slots, x \in Elems(R[d][l]), x \in Elems(R[e][j])
       PROVE  d = e /\ l = j
  <2>1. CASE x = s
    <3>1. d = c /\ l = k
      BY <1>8, <1>9, <1>10, <2>1
    <3>2. e = c /\ j = k
      BY <1>8, <1>9, <1>10, <2>1
    <3> QED
      BY <3>1, <3>2
  <2>2. CASE x # s
    <3>1. x \in Elems(Q[d][l]) /\ x \in Elems(Q[e][j])
      BY <1>8, <1>10, <2>2
    <3> QED
      BY <3>1 DEF Lists
  <2> QED
    BY <2>1, <2>2
<1>11. ASSUME NEW x \in Slots
       PROVE  x \in pool'.used <=> \E d \in Classes, l \in Kinds : x \in Elems(R[d][l])
  BY <1>4, <1>8 DEF Lists
<1>12. pool'.free = u16Slots - Cardinality(pool'.used)
  <2>1. Cardinality(pool'.used) = Cardinality(pool.used) + 1
    BY <1>4, UsedFinite, FS_AddElement
  <2> QED
    BY <1>4, <2>1, UsedFinite, SlotsFinite DEF Lists
<1>13. Lists(R)'
  <2>1. (\A d \in Classes, l \in Kinds : IsList(d, l, R[d][l]))'
    BY <1>7
  <2>2. (\A d, e \in Classes, l, j \in Kinds, x \in Slots :
           x \in Elems(R[d][l]) /\ x \in Elems(R[e][j]) => d = e /\ l = j)'
    BY <1>10
  <2>3. (\A x \in Slots :
           x \in pool.used <=> \E d \in Classes, l \in Kinds : x \in Elems(R[d][l]))'
    BY <1>11
  <2> QED
    BY <1>5, <1>12, <2>1, <2>2, <2>3 DEF Lists
<1> QED
  BY <1>4, <1>13 DEF R

\* What FreeSlots does to the pool, for slots that are in use.
Freed(ss) ==
  /\ pool' \in [used : SUBSET Slots, next : [Slots -> Slots \cup {NULL}],
                msg : [Slots -> Contents \cup {NULL}], free : Int]
  /\ pool'.used = pool.used \ ss
  /\ \A x \in Slots : x \notin ss => /\ pool'.next[x] = pool.next[x]
                                     /\ pool'.msg[x] = pool.msg[x]
  /\ pool'.free = u16Slots - Cardinality(pool'.used)

\* The slots that stay in use keep their messages.
Kept == \A x \in pool'.used : pool'.msg[x] = pool.msg[x]

LEMMA FreedKept ==
  ASSUME NEW ss, Freed(ss)
  PROVE  Kept
<1>1. pool'.used \subseteq Slots /\ pool'.used = pool.used \ ss
  BY DEF Freed
<1> QED
  BY <1>1 DEF Freed, Kept

LEMMA FreeEffect ==
  ASSUME PoolTyped, NEW ss, ss \subseteq pool.used,
         pool.free = u16Slots - Cardinality(pool.used), pool' = FreeSlots(ss)
  PROVE  Freed(ss)
<1>1. /\ pool.next \in [Slots -> Slots \cup {NULL}] /\ pool.used \subseteq Slots
      /\ pool.msg \in [Slots -> Contents \cup {NULL}] /\ pool.free \in Int
      /\ pool = [used |-> pool.used, next |-> pool.next, msg |-> pool.msg, free |-> pool.free]
      /\ ss \cap pool.used = ss
  BY DEF PoolTyped
<1> DEFINE nn == [s \in Slots |-> IF s \in ss THEN NULL ELSE pool.next[s]]
           mm == [s \in Slots |-> IF s \in ss THEN NULL ELSE pool.msg[s]]
<1>2. pool' = [used |-> pool.used \ ss, next |-> nn, msg |-> mm,
               free |-> pool.free + Cardinality(ss)]
  BY <1>1 DEF FreeSlots
<1>3. /\ nn \in [Slots -> Slots \cup {NULL}] /\ mm \in [Slots -> Contents \cup {NULL}]
      /\ \A x \in Slots : x \notin ss => nn[x] = pool.next[x] /\ mm[x] = pool.msg[x]
  BY <1>1
<1> HIDE DEF nn, mm
<1>4. /\ IsFiniteSet(ss) /\ Cardinality(ss) \in Nat
      /\ Cardinality(pool.used \ ss) = Cardinality(pool.used) - Cardinality(ss)
  <2>1. IsFiniteSet(ss)
    BY UsedFinite, FS_Subset
  <2>2. pool.used \cap ss = ss
    OBVIOUS
  <2> QED
    BY <2>1, <2>2, UsedFinite, FS_Difference, FS_CardinalityType
<1>5. pool.free + Cardinality(ss) = u16Slots - Cardinality(pool.used \ ss)
  BY <1>1, <1>4, UsedFinite, SlotsFinite
<1>6. pool.free + Cardinality(ss) \in Int /\ pool.used \ ss \in SUBSET Slots
  BY <1>1, <1>4
<1> QED
  BY <1>2, <1>3, <1>5, <1>6 DEF Freed

\* A list that is not touched stays what it is when slots of others are freed.
LEMMA UntouchedList ==
  ASSUME PoolTyped, NEW Q, Lists(Q), NEW ss, ss \subseteq pool.used,
         pool' = FreeSlots(ss), NEW d \in Classes, NEW l \in Kinds,
         \A x \in Elems(Q[d][l]) : x \notin ss,
         first'[d][l] = first[d][l], end'[d][l] = end[d][l], num'[d][l] = num[d][l]
  PROVE  IsList(d, l, Q[d][l])'
<1>1. IsList(d, l, Q[d][l]) /\ Elems(Q[d][l]) \subseteq Slots
  BY ListOfIs DEF Lists, PoolTyped
<1>2. \A x \in Elems(Q[d][l]) : pool'.next[x] = pool.next[x]
  <2>1. Freed(ss)
    BY FreeEffect DEF Lists
  <2> QED
    BY <1>1, <2>1 DEF Freed
<1>3. Path(pool'.next, first[d][l], Q[d][l])
  BY <1>1, <1>2, PathFrame DEF IsList
<1> QED
  BY <1>1, <1>3 DEF IsList

\* The first slot of one list is given back.
LEMMA DequeueLists ==
  ASSUME PoolTyped, NEW Q, Lists(Q), NEW c \in Classes, NEW k \in Kinds,
         num[c][k] > 0, NEW s, s = first[c][k], Dequeue(c, k, s)
  PROVE  PoolTyped' /\ Lists([Q EXCEPT ![c][k] = Tail(@)])' /\ Kept
<1> DEFINE R == [Q EXCEPT ![c][k] = Tail(@)]
<1>1. PICK q \in Seq(Slots), n \in Nat : q = Q[c][k] /\ n = num[c][k]
  BY DEF Lists, PoolTyped
<1>2. /\ Path(pool.next, s, q) /\ Len(q) = n /\ n > 0 /\ end[c][k] = q[n]
      /\ Elems(q) \subseteq pool.used /\ pool.used \subseteq Slots
  BY <1>1, ListOfIs DEF Lists, IsList, PoolTyped
<1>3. /\ pool' = FreeSlots({s})
      /\ first' = [first EXCEPT ![c][k] = pool.next[s]]
      /\ end' = IF n = 1 THEN [end EXCEPT ![c][k] = NULL] ELSE end
      /\ num' = [num EXCEPT ![c][k] = @ - 1]
  BY <1>1 DEF Dequeue
<1>4. s \in Elems(q) /\ {s} \subseteq pool.used /\ s \in Slots
  BY <1>2, PathTail
<1>5. /\ pool' \in [used : SUBSET Slots, next : [Slots -> Slots \cup {NULL}],
                    msg : [Slots -> Contents \cup {NULL}], free : Int]
      /\ pool'.used = pool.used \ {s}
      /\ \A x \in Slots : x \notin {s} => pool'.next[x] = pool.next[x]
      /\ pool'.free = u16Slots - Cardinality(pool'.used) /\ Kept
  <2>1. PICK ss : ss = {s}
    OBVIOUS
  <2>2. ss \subseteq pool.used /\ pool' = FreeSlots(ss)
    BY <1>3, <1>4, <2>1
  <2>3. pool.free = u16Slots - Cardinality(pool.used)
    BY DEF Lists
  <2>4. Freed(ss)
    BY <2>2, <2>3, FreeEffect
  <2> QED
    BY <2>1, <2>4, FreedKept DEF Freed
<1>6. PoolTyped'
  <2>1. first' \in [Classes -> [Kinds -> Slots \cup {NULL}]]
    BY <1>3, <1>4 DEF PoolTyped
  <2>2. end' \in [Classes -> [Kinds -> Slots \cup {NULL}]]
    BY <1>3 DEF PoolTyped
  <2>3. num' \in [Classes -> [Kinds -> Nat]]
    <3>1. num[c][k] - 1 \in Nat
      BY <1>1, <1>2
    <3> QED
      BY <1>3, <3>1 DEF PoolTyped
  <2> QED
    BY <1>5, <2>1, <2>2, <2>3 DEF PoolTyped
<1>7. /\ Tail(q) \in Seq(Slots) /\ Len(Tail(q)) = n - 1
      /\ Path(pool'.next, pool.next[s], Tail(q))
      /\ Elems(Tail(q)) = Elems(q) \ {s}
      /\ n > 1 => Tail(q)[n - 1] = q[n]
  <2>1. \A x \in Elems(q) : x # s => pool'.next[x] = pool.next[x]
    BY <1>2, <1>5
  <2> QED
    BY <1>2, <2>1, PathTail
<1>8. /\ R \in [Classes -> [Kinds -> Seq(Slots)]]
      /\ R[c][k] = Tail(q)
      /\ \A d \in Classes, l \in Kinds : d # c \/ l # k => R[d][l] = Q[d][l]
  BY <1>1, <1>7 DEF Lists
<1> HIDE DEF R
<1>9. ASSUME NEW d \in Classes, NEW l \in Kinds, d # c \/ l # k
      PROVE  \A x \in Elems(Q[d][l]) : x # s
  BY <1>1, <1>4, <1>9 DEF Lists
<1>10. ASSUME NEW d \in Classes, NEW l \in Kinds
       PROVE  IsList(d, l, R[d][l])'
  <2>1. CASE d = c /\ l = k
    <3>1. first'[c][k] = pool.next[s] /\ num'[c][k] = n - 1
      BY <1>1, <1>3 DEF PoolTyped
    <3>2. n - 1 > 0 => end'[c][k] = Tail(q)[n - 1]
      BY <1>2, <1>3, <1>7
    <3> QED
      BY <1>7, <1>8, <2>1, <3>1, <3>2 DEF IsList
  <2>2. CASE d # c \/ l # k
    <3>1. first'[d][l] = first[d][l] /\ end'[d][l] = end[d][l] /\ num'[d][l] = num[d][l]
      BY <1>3, <2>2 DEF PoolTyped
    <3>2. \A x \in Elems(Q[d][l]) : x \notin {s}
      BY <1>9, <2>2
    <3>3. IsList(d, l, Q[d][l])'
      BY <1>3, <1>4, <3>1, <3>2, UntouchedList
    <3> QED
      BY <1>8, <2>2, <3>3
  <2> QED
    BY <2>1, <2>2
<1>11. ASSUME NEW d \in Classes, NEW l \in Kinds, NEW x \in Slots
       PROVE  x \in Elems(R[d][l]) <=> x \in Elems(Q[d][l]) /\ x # s
  <2>1. CASE d = c /\ l = k
    <3>1. Elems(R[d][l]) = Elems(Q[d][l]) \ {s}
      BY <1>1, <1>7, <1>8, <2>1
    <3> QED
      BY <3>1
  <2>2. CASE d # c \/ l # k
    <3>1. R[d][l] = Q[d][l]
      BY <1>8, <2>2
    <3> QED
      BY <1>9, <2>2, <3>1
  <2> QED
    BY <2>1, <2>2
<1>12. ASSUME NEW d \in Classes, NEW e \in Classes, NEW l \in Kinds, NEW j \in Kinds,
              NEW x \in Slots, x \in Elems(R[d][l]), x \in Elems(R[e][j])
       PROVE  d = e /\ l = j
  <2>1. x \in Elems(Q[d][l]) /\ x \in Elems(Q[e][j])
    BY <1>11, <1>12
  <2> QED
    BY <2>1 DEF Lists
<1>13. ASSUME NEW x \in Slots
       PROVE  x \in pool'.used <=> \E d \in Classes, l \in Kinds : x \in Elems(R[d][l])
  BY <1>5, <1>11 DEF Lists
<1>14. Lists(R)'
  <2>1. \A d \in Classes, l \in Kinds : IsList(d, l, R[d][l])'
    BY <1>10
  <2>2. \A d, e \in Classes, l, j \in Kinds, x \in Slots :
          x \in Elems(R[d][l]) /\ x \in Elems(R[e][j]) => d = e /\ l = j
    BY <1>12
  <2>3. pool'.free = u16Slots - Cardinality(pool'.used)
    BY <1>5
  <2>4. \A x \in Slots : x \in pool'.used <=> \E d \in Classes, l \in Kinds : x \in Elems(R[d][l])
    BY <1>13
  <2> QED
    BY <1>8, <2>1, <2>2, <2>3, <2>4 DEF Lists
<1> QED
  BY <1>5, <1>6, <1>14 DEF R

\* The lists without those of the classes cs.
Without(Q, cs) ==
  [c \in Classes |-> IF c \in cs THEN [k \in Kinds |-> <<>>] ELSE Q[c]]

\* All slots of some classes are given back.
LEMMA ClearLists ==
  ASSUME PoolTyped, NEW Q, Lists(Q), NEW cs \in SUBSET Classes,
         pool' = FreeMSGPoolItemQ(cs),
         first' = [c \in Classes |-> IF c \in cs THEN NoSlot ELSE first[c]],
         end' = [c \in Classes |-> IF c \in cs THEN NoSlot ELSE end[c]],
         num' = [c \in Classes |-> IF c \in cs THEN NoMsg ELSE num[c]]
  PROVE  PoolTyped' /\ Lists(Without(Q, cs))' /\ Kept
<1>0. PICK R : R = Without(Q, cs)
  OBVIOUS
<1> DEFINE ss == UNION {Chain(pool.next, first[c][k]) : c \in cs, k \in Kinds}
<1>1. pool' = FreeSlots(ss)
  BY DEF FreeMSGPoolItemQ
<1>2. ASSUME NEW x
      PROVE  x \in ss <=> \E c \in cs, k \in Kinds : x \in Elems(Q[c][k])
  <2>1. \A c \in cs, k \in Kinds : Chain(pool.next, first[c][k]) = Elems(Q[c][k])
    BY ListOfIs DEF ListOf
  <2> QED
    BY <2>1
<1> HIDE DEF ss
<1>3. ss \subseteq pool.used /\ pool.used \subseteq Slots
  BY <1>2, ListOfIs DEF PoolTyped
<1>4. /\ pool' \in [used : SUBSET Slots, next : [Slots -> Slots \cup {NULL}],
                    msg : [Slots -> Contents \cup {NULL}], free : Int]
      /\ pool'.used = pool.used \ ss
      /\ pool'.free = u16Slots - Cardinality(pool'.used) /\ Kept
  <2>1. Freed(ss)
    BY <1>1, <1>3, FreeEffect DEF Lists
  <2> QED
    BY <2>1, FreedKept DEF Freed
<1>5. NoSlot \in [Kinds -> Slots \cup {NULL}] /\ NoMsg \in [Kinds -> Nat]
  BY DEF NoSlot, NoMsg
<1>6. PoolTyped'
  BY <1>4, <1>5 DEF PoolTyped
<1>7. R \in [Classes -> [Kinds -> Seq(Slots)]]
  BY <1>0 DEF Without, Lists
<1>8. /\ \A d \in cs, l \in Kinds : R[d][l] = <<>>
      /\ \A d \in Classes \ cs, l \in Kinds : R[d][l] = Q[d][l]
  BY <1>0 DEF Without
<1>9. ASSUME NEW d \in Classes, d \notin cs, NEW l \in Kinds
      PROVE  \A x \in Elems(Q[d][l]) : x \notin ss
  <2>1. Elems(Q[d][l]) \subseteq Slots
    BY <1>3, ListOfIs
  <2> QED
    BY <1>2, <1>9, <2>1 DEF Lists
<1>10. ASSUME NEW d \in Classes, NEW l \in Kinds
       PROVE  IsList(d, l, R[d][l])'
  <2>1. CASE d \in cs
    <3>1. first'[d][l] = NULL /\ num'[d][l] = 0
      BY <2>1 DEF NoSlot, NoMsg
    <3>2. Path(pool'.next, NULL, <<>>) /\ Len(<<>>) = 0
      BY PathEmpty
    <3>3. ~(0 > 0)
      OBVIOUS
    <3> QED
      BY <1>8, <2>1, <3>1, <3>2, <3>3 DEF IsList
  <2>2. CASE d \notin cs
    <3>1. first'[d][l] = first[d][l] /\ end'[d][l] = end[d][l] /\ num'[d][l] = num[d][l]
      BY <2>2
    <3>2. IsList(d, l, Q[d][l])'
      BY <1>1, <1>3, <1>9, <2>2, <3>1, UntouchedList
    <3> QED
      BY <1>8, <2>2, <3>2
  <2> QED
    BY <2>1, <2>2
<1>11. ASSUME NEW d \in Classes, NEW l \in Kinds, NEW x \in Slots
       PROVE  x \in Elems(R[d][l]) <=> x \in Elems(Q[d][l]) /\ x \notin ss
  <2>1. CASE d \in cs
    <3>1. Elems(R[d][l]) = {}
      BY <1>8, <2>1, PathEmpty
    <3> QED
      BY <1>2, <2>1, <3>1
  <2>2. CASE d \notin cs
    BY <1>8, <1>9, <2>2
  <2> QED
    BY <2>1, <2>2
<1>12. ASSUME NEW d \in Classes, NEW e \in Classes, NEW l \in Kinds, NEW j \in Kinds,
              NEW x \in Slots, x \in Elems(R[d][l]), x \in Elems(R[e][j])
       PROVE  d = e /\ l = j
  <2>1. x \in Elems(Q[d][l]) /\ x \in Elems(Q[e][j])
    BY <1>11, <1>12
  <2> QED
    BY <2>1 DEF Lists
<1>13. ASSUME NEW x \in Slots
       PROVE  x \in pool'.used <=> \E d \in Classes, l \in Kinds : x \in Elems(R[d][l])
  BY <1>4, <1>11 DEF Lists
<1>14. Lists(R)'
  BY <1>4, <1>7, <1>10, <1>12, <1>13, ListsNext
<1>15. Lists(Without(Q, cs))'
  BY <1>0, <1>14
<1> QED
  BY <1>4, <1>6, <1>15

-----------------------------------------------------------------------------
(* The classes of a client.                                                *)

\* A node is put in front.
LEMMA PathCons ==
  ASSUME NEW D, NEW next, NEW s, NEW q \in Seq(D), Path(next, s, q),
         NEW x \in D, x \notin Elems(q),
         NEW next2, next2[x] = s, \A y \in Elems(q) : next2[y] = next[y]
  PROVE  \E r \in Seq(D) : Path(next2, x, r) /\ Elems(r) = Elems(q) \cup {x}
<1>1. PICK n \in Nat : n = Len(q)
  OBVIOUS
<1> DEFINE r == [i \in 1 .. n + 1 |-> IF i = 1 THEN x ELSE q[i - 1]]
<1>2. r \in Seq(D) /\ Len(r) = n + 1
  <2>1. r \in [1 .. n + 1 -> D]
    BY <1>1
  <2> QED
    BY <2>1
<1>3. r[1] = x /\ \A i \in 1 .. n : r[i + 1] = q[i]
  OBVIOUS
<1>4. \A i \in 1 .. n + 1 : i = 1 \/ (i - 1 \in 1 .. n /\ r[i] = q[i - 1])
  OBVIOUS
<1> HIDE DEF r
<1>5. /\ \A i \in 1 .. n : q[i] # x /\ q[i] \in Elems(q)
      /\ \A i, j \in 1 .. n : q[i] = q[j] => i = j
      /\ \A i \in 1 .. n : next2[q[i]] = IF i < n THEN q[i + 1] ELSE NULL
      /\ n = 0 => s = NULL
      /\ n > 0 => s = q[1]
  BY <1>1 DEF Elems, Path
<1>6. ASSUME NEW i \in 1 .. n + 1, NEW j \in 1 .. n + 1, r[i] = r[j] PROVE i = j
  <2>1. CASE i = 1 /\ j = 1
    BY <2>1
  <2>2. CASE i = 1 /\ j # 1
    BY <1>3, <1>4, <1>5, <1>6, <2>2
  <2>3. CASE i # 1 /\ j = 1
    BY <1>3, <1>4, <1>5, <1>6, <2>3
  <2>4. CASE i # 1 /\ j # 1
    <3>1. i - 1 = j - 1
      BY <1>4, <1>5, <1>6, <2>4
    <3> QED
      BY <3>1
  <2> QED
    BY <2>1, <2>2, <2>3, <2>4
<1>7. ASSUME NEW i \in 1 .. n + 1
      PROVE  next2[r[i]] = IF i < n + 1 THEN r[i + 1] ELSE NULL
  <2>1. CASE i = 1
    <3>1. CASE n = 0
      BY <1>3, <1>5, <2>1, <3>1
    <3>2. CASE n > 0
      <4>1. r[1 + 1] = q[1] /\ 1 < n + 1
        BY <1>3, <3>2
      <4> QED
        BY <1>3, <1>5, <2>1, <3>2, <4>1
    <3> QED
      BY <3>1, <3>2
  <2>2. CASE i # 1 /\ i < n + 1
    <3>1. i - 1 \in 1 .. n /\ i \in 1 .. n /\ i - 1 < n /\ (i - 1) + 1 = i
      BY <2>2
    <3> QED
      BY <1>3, <1>4, <1>5, <2>2, <3>1
  <2>3. CASE i # 1 /\ i = n + 1
    <3>1. n \in 1 .. n /\ r[i] = q[n]
      BY <1>4, <2>3
    <3> QED
      BY <1>5, <2>3, <3>1
  <2> QED
    BY <2>1, <2>2, <2>3
<1>8. Path(next2, x, r)
  BY <1>2, <1>3, <1>6, <1>7 DEF Path
<1>9. Elems(r) = Elems(q) \cup {x}
  <2>1. Elems(r) \subseteq Elems(q) \cup {x}
    <3>1. \A i \in 1 .. n + 1 : r[i] \in Elems(q) \cup {x}
      BY <1>3, <1>4, <1>5
    <3> QED
      BY <1>2, <3>1 DEF Elems
  <2>2. Elems(q) \subseteq Elems(r)
    <3>1. \A i \in 1 .. n : q[i] \in Elems(r)
      <4>1. \A i \in 1 .. n : i + 1 \in 1 .. n + 1
        OBVIOUS
      <4> QED
        BY <1>2, <1>3, <4>1 DEF Elems
    <3> QED
      BY <1>1, <3>1 DEF Elems
  <2>3. x \in Elems(r)
    BY <1>2, <1>3 DEF Elems
  <2> QED
    BY <2>1, <2>2, <2>3
<1> QED
  BY <1>2, <1>8, <1>9

\* The node after d is taken out.
LEMMA PathRemove ==
  ASSUME NEW D, NULL \notin D, NEW next, NEW s, NEW q \in Seq(D), Path(next, s, q),
         NEW d \in Elems(q), NEW x \in D, next[d] = x,
         NEW next2, next2[d] = next[x],
         \A y \in Elems(q) : y # d /\ y # x => next2[y] = next[y]
  PROVE  /\ x \in Elems(q)
         /\ \E r \in Seq(D) : Path(next2, s, r) /\ Elems(r) = Elems(q) \ {x}
<1>1. PICK n \in Nat : n = Len(q)
  OBVIOUS
<1>2. /\ \A i, j \in 1 .. n : q[i] = q[j] => i = j
      /\ \A i \in 1 .. n : q[i] \in Elems(q)
      /\ \A i \in 1 .. n : next[q[i]] = IF i < n THEN q[i + 1] ELSE NULL
      /\ n > 0 => s = q[1]
  BY <1>1 DEF Elems, Path
<1>3. PICK m \in 1 .. n : d = q[m]
  BY <1>1 DEF Elems
<1>4. m < n /\ x = q[m + 1] /\ m + 1 \in 1 .. n
  BY <1>2, <1>3
<1>5. x \in Elems(q)
  BY <1>2, <1>4
<1> DEFINE r == [i \in 1 .. n - 1 |-> IF i <= m THEN q[i] ELSE q[i + 1]]
<1>6. r \in Seq(D) /\ Len(r) = n - 1
  <2>1. r \in [1 .. n - 1 -> D] /\ n - 1 \in Nat
    BY <1>1, <1>4
  <2>2. PICK l \in Nat : l = n - 1
    BY <2>1
  <2> HIDE DEF r
  <2> QED
    BY <2>1, <2>2
<1>7. /\ \A i \in 1 .. n - 1 : i <= m => i \in 1 .. n /\ r[i] = q[i]
      /\ \A i \in 1 .. n - 1 : i > m => i + 1 \in 1 .. n /\ i + 1 # m + 1 /\ r[i] = q[i + 1]
  OBVIOUS
<1> HIDE DEF r
<1>8. ASSUME NEW i \in 1 .. n - 1, NEW j \in 1 .. n - 1, r[i] = r[j] PROVE i = j
  <2>1. CASE i <= m /\ j <= m
    BY <1>2, <1>7, <1>8, <2>1
  <2>2. CASE i <= m /\ j > m
    <3>1. i = j + 1
      BY <1>2, <1>7, <1>8, <2>2
    <3> QED
      BY <2>2, <3>1
  <2>3. CASE i > m /\ j <= m
    <3>1. j = i + 1
      BY <1>2, <1>7, <1>8, <2>3
    <3> QED
      BY <2>3, <3>1
  <2>4. CASE i > m /\ j > m
    <3>1. i + 1 = j + 1
      BY <1>2, <1>7, <1>8, <2>4
    <3> QED
      BY <3>1
  <2> QED
    BY <2>1, <2>2, <2>3, <2>4
<1>9. ASSUME NEW i \in 1 .. n, i # m, i # m + 1
      PROVE  next2[q[i]] = IF i < n THEN q[i + 1] ELSE NULL
  <2>1. q[i] # d /\ q[i] # x
    BY <1>2, <1>3, <1>4, <1>9
  <2> QED
    BY <1>2, <2>1
<1>10. ASSUME NEW i \in 1 .. n - 1
       PROVE  next2[r[i]] = IF i < n - 1 THEN r[i + 1] ELSE NULL
  <2>1. CASE i < m
    <3>1. i \in 1 .. n /\ i # m /\ i # m + 1 /\ i < n /\ i < n - 1
      BY <1>4, <2>1
    <3>2. r[i] = q[i] /\ r[i + 1] = q[i + 1]
      BY <1>7, <2>1, <3>1
    <3> QED
      BY <1>9, <3>1, <3>2
  <2>2. CASE i = m
    <3>1. next2[r[i]] = next[q[m + 1]]
      BY <1>3, <1>4, <1>7, <2>2
    <3>2. next[q[m + 1]] = IF m + 1 < n THEN q[(m + 1) + 1] ELSE NULL
      BY <1>2, <1>4
    <3>3. CASE m + 1 < n
      <4>1. m + 1 \in 1 .. n - 1 /\ m + 1 > m /\ m < n - 1
        BY <1>4, <3>3
      <4>2. r[m + 1] = q[(m + 1) + 1]
        BY <1>7, <4>1
      <4> QED
        BY <2>2, <3>1, <3>2, <3>3, <4>1, <4>2
    <3>4. CASE ~(m + 1 < n)
      BY <1>4, <2>2, <3>1, <3>2, <3>4
    <3> QED
      BY <3>3, <3>4
  <2>3. CASE i > m
    <3>1. i + 1 \in 1 .. n /\ i + 1 # m /\ i + 1 # m + 1 /\ r[i] = q[i + 1]
      BY <1>7, <2>3
    <3>2. next2[r[i]] = IF i + 1 < n THEN q[(i + 1) + 1] ELSE NULL
      BY <1>9, <3>1
    <3>3. CASE i + 1 < n
      <4>1. i + 1 \in 1 .. n - 1 /\ i + 1 > m
        BY <2>3, <3>3
      <4>2. r[i + 1] = q[(i + 1) + 1]
        BY <1>7, <4>1
      <4> QED
        BY <3>2, <3>3, <4>2
    <3>4. CASE ~(i + 1 < n)
      BY <3>2, <3>4
    <3> QED
      BY <3>3, <3>4
  <2> QED
    BY <2>1, <2>2, <2>3
<1>11. Path(next2, s, r)
  <2>1. n - 1 > 0 /\ 1 \in 1 .. n - 1 /\ 1 <= m /\ n > 0
    BY <1>4
  <2>2. r[1] = q[1]
    BY <1>7, <2>1
  <2>3. s = q[1]
    BY <1>2, <2>1
  <2> QED
    BY <1>6, <1>8, <1>10, <2>1, <2>2, <2>3 DEF Path
<1>12. Elems(r) = Elems(q) \ {x}
  <2>1. ASSUME NEW i \in 1 .. n - 1 PROVE r[i] \in Elems(q) \ {x}
    <3>1. CASE i <= m
      BY <1>2, <1>4, <1>7, <3>1
    <3>2. CASE i > m
      BY <1>2, <1>4, <1>7, <3>2
    <3> QED
      BY <3>1, <3>2
  <2>2. ASSUME NEW i \in 1 .. n, q[i] # x PROVE q[i] \in Elems(r)
    <3>1. CASE i <= m
      <4>1. i \in 1 .. n - 1 /\ r[i] = q[i]
        BY <1>4, <1>7, <3>1
      <4> QED
        BY <1>6, <4>1 DEF Elems
    <3>2. CASE i > m
      <4>1. i # m + 1
        BY <1>4, <2>2
      <4>2. i - 1 \in 1 .. n - 1 /\ i - 1 > m /\ (i - 1) + 1 = i
        BY <3>2, <4>1
      <4>3. r[i - 1] = q[i]
        BY <1>7, <4>2
      <4> QED
        BY <1>6, <4>2, <4>3 DEF Elems
    <3> QED
      BY <3>1, <3>2
  <2>3. Elems(r) = {r[i] : i \in 1 .. n - 1} /\ Elems(q) = {q[i] : i \in 1 .. n}
    BY <1>1, <1>6 DEF Elems
  <2>4. Elems(r) \subseteq Elems(q) \ {x}
    BY <2>1, <2>3
  <2>5. Elems(q) \ {x} \subseteq Elems(r)
    BY <2>2, <2>3
  <2> QED
    BY <2>4, <2>5
<1> QED
  BY <1>5, <1>6, <1>11, <1>12

\* The list of a client's notifier, and the classes that name the client.
Owns(n, q) ==
  /\ Path(nextq, qfirst[n], q)
  /\ \A c \in Classes : c \in Elems(q) <=> notifier[c] = n

\* Every client has a list of its own classes.
Owners == \A n \in Clients : \E q \in Seq(Classes) : Owns(n, q)

LEMMA ChainOwned ==
  ASSUME LinksTyped, NEW n \in Clients, NEW q \in Seq(Classes), Owns(n, q)
  PROVE  /\ Elems(q) \subseteq Classes
         /\ Chain(nextq, qfirst[n]) = Elems(q)
         /\ Chain(nextq, qfirst[n]) = {c \in Classes : notifier[c] = n}
<1>1. nextq \in [Classes -> Classes \cup {NULL}] /\ NULL \notin Classes
  BY NullAssumption DEF LinksTyped
<1>2. Path(nextq, qfirst[n], q)
  BY DEF Owns
<1>3. Chain(nextq, qfirst[n]) = Elems(q) /\ Elems(q) \subseteq Classes
  BY <1>1, <1>2, ClassesAssumption, ChainPath, PathLength
<1> QED
  BY <1>3 DEF Owns

LEMMA ChainOfOwner ==
  ASSUME LinksTyped, Owners, NEW n \in Clients
  PROVE  Chain(nextq, qfirst[n]) = {c \in Classes : notifier[c] = n}
<1>1. PICK q \in Seq(Classes) : Owns(n, q)
  BY DEF Owners
<1> QED
  BY <1>1, ChainOwned

LEMMA OwnersMatch ==
  ASSUME LinksTyped, Owners
  PROVE  ListsMatchOwners
BY ChainOfOwner DEF ListsMatchOwners

\* The list of another client, none of whose links change.
LEMMA OthersOwn ==
  ASSUME LinksTyped, NEW n \in Clients, NEW q \in Seq(Classes), Owns(n, q),
         qfirst'[n] = qfirst[n],
         \A c \in Classes : notifier[c] = n => nextq'[c] = nextq[c],
         \A c \in Classes : notifier'[c] = n <=> notifier[c] = n
  PROVE  Owns(n, q)'
<1>1. Elems(q) \subseteq Classes
  BY ChainOwned
<1>2. \A c \in Elems(q) : nextq'[c] = nextq[c]
  BY <1>1 DEF Owns
<1>3. Path(nextq', qfirst[n], q)
  BY <1>2, PathFrame DEF Owns
<1> QED
  BY <1>3 DEF Owns

\* A class that nobody has becomes the first one of client n.
LEMMA RegisterOwners ==
  ASSUME LinksTyped, Owners, NEW n \in Clients, NEW c \in Classes, notifier[c] = NULL,
         notifier' = [notifier EXCEPT ![c] = n],
         nextq' = [nextq EXCEPT ![c] = qfirst[n]],
         qfirst' = [qfirst EXCEPT ![n] = c]
  PROVE  Owners'
<1>1. ASSUME NEW m \in Clients PROVE \E q \in Seq(Classes) : Owns(m, q)'
  <2>1. PICK q \in Seq(Classes) : Owns(m, q)
    BY DEF Owners
  <2>2. m # NULL /\ Elems(q) \subseteq Classes
    BY <2>1, ChainOwned, NullAssumption
  <2>3. CASE m # n
    <3>1. qfirst'[m] = qfirst[m]
      BY <2>3 DEF LinksTyped
    <3>2. \A e \in Classes : notifier[e] = m => nextq'[e] = nextq[e]
      BY <2>2 DEF LinksTyped
    <3>3. \A e \in Classes : notifier'[e] = m <=> notifier[e] = m
      BY <2>2, <2>3 DEF LinksTyped
    <3> QED
      BY <2>1, <3>1, <3>2, <3>3, OthersOwn
  <2>4. CASE m = n
    <3>1. c \notin Elems(q)
      BY <2>1, <2>2 DEF Owns
    <3>2. nextq'[c] = qfirst[m] /\ \A e \in Elems(q) : nextq'[e] = nextq[e]
      BY <2>2, <2>4, <3>1 DEF LinksTyped
    <3>3. PICK r \in Seq(Classes) : Path(nextq', c, r) /\ Elems(r) = Elems(q) \cup {c}
      <4>1. PICK nx : nx = nextq'
        OBVIOUS
      <4>2. Path(nextq, qfirst[m], q)
        BY <2>1 DEF Owns
      <4>3. nx[c] = qfirst[m] /\ \A e \in Elems(q) : nx[e] = nextq[e]
        BY <3>2, <4>1
      <4>4. \E r \in Seq(Classes) : Path(nx, c, r) /\ Elems(r) = Elems(q) \cup {c}
        BY <3>1, <4>2, <4>3, PathCons
      <4> QED
        BY <4>1, <4>4
    <3>4. qfirst'[m] = c
      BY <2>4 DEF LinksTyped
    <3>5. ASSUME NEW e \in Classes PROVE e \in Elems(r) <=> notifier'[e] = m
      BY <2>1, <2>4, <3>3 DEF Owns, LinksTyped
    <3> QED
      BY <3>3, <3>4, <3>5 DEF Owns
  <2> QED
    BY <2>3, <2>4
<1> QED
  BY <1>1 DEF Owners

\* A class is taken out of the list of its client.
LEMMA UnlinkOwners ==
  ASSUME LinksTyped, Owners, NEW n \in Clients, NEW c \in Classes, notifier[c] = n,
         notifier' = [e \in Classes |-> IF e \in {c} THEN NULL ELSE notifier[e]],
         Unlink(n, c)
  PROVE  /\ Owners'
         /\ nextq' \in [Classes -> Classes \cup {NULL}]
         /\ qfirst' \in [Clients -> Classes \cup {NULL}]
<1>1. PICK q \in Seq(Classes) : Owns(n, q)
  BY DEF Owners
<1>2. /\ Elems(q) \subseteq Classes /\ c \in Elems(q) /\ n # NULL
      /\ Chain(nextq, qfirst[n]) = Elems(q) /\ NULL \notin Classes
      /\ Path(nextq, qfirst[n], q)
  BY <1>1, ChainOwned, NullAssumption DEF Owns
<1>3. ASSUME NEW e \in Classes
      PROVE  /\ e \in Elems(q) \ {c} <=> notifier'[e] = n
             /\ \A m \in Clients : m # n => (notifier'[e] = m <=> notifier[e] = m)
  <2>1. \A m \in Clients : m # NULL
    BY NullAssumption
  <2> QED
    BY <1>1, <1>2, <2>1 DEF Owns
<1>4. ASSUME NEW m \in Clients, m # n, qfirst'[m] = qfirst[m],
             \A e \in Classes : e \notin Elems(q) => nextq'[e] = nextq[e]
      PROVE  \E r \in Seq(Classes) : Owns(m, r)'
  <2>1. PICK r \in Seq(Classes) : Owns(m, r)
    BY DEF Owners
  <2>2. \A e \in Classes : notifier[e] = m => nextq'[e] = nextq[e]
    BY <1>1, <1>4 DEF Owns
  <2> QED
    BY <1>3, <1>4, <2>1, <2>2, OthersOwn
<1>5. CASE qfirst[n] = c
  <2>1. qfirst' = [qfirst EXCEPT ![n] = nextq[c]] /\ nextq' = [nextq EXCEPT ![c] = NULL]
    BY <1>5 DEF Unlink
  <2>2. Len(q) > 0
    <3>1. Len(q) \in Nat /\ Len(q) # 0
      BY <1>2, EmptyElems
    <3> QED
      BY <3>1
  <2>3. \A e \in Elems(q) : e # c => nextq'[e] = nextq[e]
    BY <1>2, <2>1 DEF LinksTyped
  <2>4. PICK r \in Seq(Classes) : Path(nextq', nextq[c], r) /\ Elems(r) = Elems(q) \ {c}
    <3>1. PICK nx : nx = nextq'
      OBVIOUS
    <3>2. Path(nextq, c, q) /\ \A e \in Elems(q) : e # c => nx[e] = nextq[e]
      BY <1>2, <1>5, <2>3, <3>1
    <3>3. /\ Tail(q) \in Seq(Classes) /\ Path(nx, nextq[c], Tail(q))
          /\ Elems(Tail(q)) = Elems(q) \ {c}
      BY <2>2, <3>2, PathTail
    <3> QED
      BY <3>1, <3>3
  <2>5. qfirst'[n] = nextq[c] /\ \A m \in Clients : m # n => qfirst'[m] = qfirst[m]
    BY <2>1 DEF LinksTyped
  <2>6. Owns(n, r)'
    BY <1>3, <2>4, <2>5 DEF Owns
  <2>7. \A e \in Classes : e \notin Elems(q) => nextq'[e] = nextq[e]
    BY <1>2, <2>1 DEF LinksTyped
  <2>8. Owners'
    BY <1>4, <2>5, <2>6, <2>7 DEF Owners
  <2> QED
    BY <2>1, <2>8 DEF LinksTyped
<1>6. CASE qfirst[n] # c
  <2>1. PICK d \in Elems(q) :
          /\ nextq[d] = c
          /\ nextq' = [nextq EXCEPT ![d] = nextq[c], ![c] = NULL]
          /\ qfirst' = qfirst
    BY <1>2, <1>6 DEF Unlink
  <2>2. d \in Classes
    BY <1>2
  <2>4. d # c
    <3>1. PICK i \in 1 .. Len(q) : d = q[i]
      BY DEF Elems
    <3>2. i < Len(q) /\ nextq[q[i]] = q[i + 1] /\ i + 1 \in 1 .. Len(q)
      BY <1>2, <2>1, <3>1 DEF Path
    <3> QED
      BY <1>2, <2>1, <3>1, <3>2 DEF Path
  <2>5. nextq'[d] = nextq[c] /\ \A e \in Classes : e # d /\ e # c => nextq'[e] = nextq[e]
    BY <2>1, <2>2, <2>4 DEF LinksTyped
  <2>6. \A e \in Elems(q) : e # d /\ e # c => nextq'[e] = nextq[e]
    BY <1>2, <2>5
  <2>7. PICK r \in Seq(Classes) : Path(nextq', qfirst[n], r) /\ Elems(r) = Elems(q) \ {c}
    <3>1. PICK nx : nx = nextq'
      OBVIOUS
    <3>2. /\ nx[d] = nextq[c]
          /\ \A e \in Elems(q) : e # d /\ e # c => nx[e] = nextq[e]
      BY <2>5, <2>6, <3>1
    <3>3. \E r \in Seq(Classes) : Path(nx, qfirst[n], r) /\ Elems(r) = Elems(q) \ {c}
      BY <1>2, <1>6, <2>1, <3>2, PathRemove
    <3> QED
      BY <3>1, <3>3
  <2>8. Owns(n, r)'
    BY <1>3, <2>1, <2>7 DEF Owns
  <2>9. \A e \in Classes : e \notin Elems(q) => nextq'[e] = nextq[e]
    BY <1>2, <2>5
  <2>10. Owners'
    BY <1>4, <2>1, <2>8, <2>9 DEF Owners
  <2> QED
    BY <2>1, <2>2, <2>10 DEF LinksTyped
<1> QED
  BY <1>5, <1>6

\* All classes of a client are taken out.
LEMMA UnlinkAllOwners ==
  ASSUME LinksTyped, Owners, NEW n \in Clients, NEW mine,
         mine = {c \in Classes : notifier[c] = n},
         notifier' = [e \in Classes |-> IF e \in mine THEN NULL ELSE notifier[e]],
         nextq' = [e \in Classes |-> IF e \in mine THEN NULL ELSE nextq[e]],
         qfirst' = [qfirst EXCEPT ![n] = NULL]
  PROVE  Owners'
<1>1. \A m \in Clients : m # NULL
  BY NullAssumption
<1>2. ASSUME NEW m \in Clients PROVE \E q \in Seq(Classes) : Owns(m, q)'
  <2>1. CASE m = n
    <3>1. Path(nextq', NULL, <<>>) /\ Elems(<<>>) = {} /\ <<>> \in Seq(Classes)
      BY PathEmpty
    <3>2. qfirst'[m] = NULL
      BY <2>1 DEF LinksTyped
    <3>3. \A e \in Classes : notifier'[e] # m
      BY <1>1, <2>1
    <3>4. PICK q \in Seq(Classes) : q = <<>>
      BY <3>1
    <3>5. Path(nextq', NULL, q) /\ Elems(q) = {}
      BY <3>1, <3>4
    <3>6. Owns(m, q)'
      BY <3>2, <3>3, <3>5 DEF Owns
    <3> QED
      BY <3>6
  <2>2. CASE m # n
    <3>1. PICK q \in Seq(Classes) : Owns(m, q)
      BY DEF Owners
    <3>2. qfirst'[m] = qfirst[m]
      BY <2>2 DEF LinksTyped
    <3>3. \A e \in Classes : notifier[e] = m => nextq'[e] = nextq[e]
      BY <2>2
    <3>4. \A e \in Classes : notifier'[e] = m <=> notifier[e] = m
      BY <1>1, <2>2
    <3> QED
      BY <3>1, <3>2, <3>3, <3>4, OthersOwn
  <2> QED
    BY <2>1, <2>2
<1> QED
  BY <1>2 DEF Owners

-----------------------------------------------------------------------------
(* Sums of sizes, counted as the cells of a table with z[c] cells for c.   *)

Cells(z, S) == {p \in S \X Nat : 1 <= p[2] /\ p[2] <= z[p[1]]}

\* The cells of one class.
LEMMA RowCells ==
  ASSUME NEW z, NEW c, z[c] \in Nat
  PROVE  /\ IsFiniteSet(Cells(z, {c}))
         /\ Cardinality(Cells(z, {c})) = z[c]
<1>1. PICK n \in Nat : n = z[c]
  OBVIOUS
<1>2. IsFiniteSet(1 .. n) /\ Cardinality(1 .. n) = n
  BY FS_Interval
<1> DEFINE f == [i \in 1 .. n |-> <<c, i>>]
<1>3. f \in [1 .. n -> Cells(z, {c})]
  BY <1>1 DEF Cells
<1>4. IsInjective(f)
  BY DEF IsInjective
<1>5. ASSUME NEW p \in Cells(z, {c}) PROVE \E i \in 1 .. n : f[i] = p
  <2>1. p = <<c, p[2]>> /\ p[2] \in 1 .. n
    BY <1>1 DEF Cells
  <2> QED
    BY <2>1
<1>6. f \in Bijection(1 .. n, Cells(z, {c}))
  <2> HIDE DEF f
  <2> QED
    BY <1>3, <1>4, <1>5 DEF Bijection, Injection, Surjection
<1>7. ExistsBijection(1 .. n, Cells(z, {c}))
  BY <1>6 DEF ExistsBijection
<1>8. IsFiniteSet(Cells(z, {c})) /\ Cardinality(Cells(z, {c})) = n
  BY <1>2, <1>7, FS_Bijection
<1> QED
  BY <1>1, <1>8

LEMMA CellsFinite ==
  ASSUME NEW D, IsFiniteSet(D), NEW z \in [D -> Nat]
  PROVE  IsFiniteSet(Cells(z, D))
<1> DEFINE Rows == {Cells(z, {c}) : c \in D}
           f == [c \in D |-> Cells(z, {c})]
<1>1. f \in Surjection(D, Rows)
  <2>1. f \in [D -> Rows] /\ \A T \in Rows : \E c \in D : f[c] = T
    OBVIOUS
  <2> HIDE DEF f, Rows
  <2> QED
    BY <2>1 DEF Surjection
<1>2. IsFiniteSet(Rows)
  <2> HIDE DEF f, Rows
  <2> QED
    BY <1>1, FS_Surjection
<1>3. \A T \in Rows : IsFiniteSet(T)
  BY RowCells
<1>4. IsFiniteSet(UNION Rows)
  <2> HIDE DEF Rows
  <2> QED
    BY <1>2, <1>3, FS_UNION
<1>5. Cells(z, D) \in SUBSET (UNION Rows)
  BY DEF Cells
<1> QED
  <2> HIDE DEF Rows
  <2> QED
    BY <1>4, <1>5, FS_Subset

\* One class is taken out of a sum.
LEMMA CellsSplit ==
  ASSUME NEW D, IsFiniteSet(D), NEW z \in [D -> Nat], NEW S \in SUBSET D, NEW c \in S
  PROVE  /\ Cardinality(Cells(z, S)) = z[c] + Cardinality(Cells(z, S \ {c}))
         /\ Cardinality(Cells(z, S \ {c})) \in Nat
<1>1. IsFiniteSet(Cells(z, D))
  BY CellsFinite
<1>2. Cells(z, S) \in SUBSET Cells(z, D) /\ Cells(z, S \ {c}) \in SUBSET Cells(z, D)
      /\ Cells(z, {c}) \in SUBSET Cells(z, D)
  BY DEF Cells
<1>3. PICK A, B : A = Cells(z, {c}) /\ B = Cells(z, S \ {c})
  OBVIOUS
<1>4. IsFiniteSet(A) /\ IsFiniteSet(B)
  BY <1>1, <1>2, <1>3, FS_Subset
<1>5. A \cup B = Cells(z, S) /\ A \cap B = {}
  BY <1>3 DEF Cells
<1>6. Cardinality(A \cup B) = Cardinality(A) + Cardinality(B) - Cardinality(A \cap B)
  BY <1>4, FS_Union
<1>7. Cardinality(A) \in Nat /\ Cardinality(B) \in Nat /\ Cardinality(A \cap B) = 0
  BY <1>4, <1>5, FS_CardinalityType, FS_EmptySet
<1>8. Cardinality(A) = z[c]
  BY <1>3, RowCells
<1>9. Cardinality(A \cup B) = z[c] + Cardinality(B)
  BY <1>6, <1>7, <1>8
<1> QED
  BY <1>3, <1>5, <1>7, <1>9

\* The recursion of MapThenSumSet, of which g is a solution.
Sums(g, z, C) ==
  g = [s \in SUBSET C |-> IF s = {} THEN 0
                          ELSE z[CHOOSE x \in s : TRUE] + g[s \ {CHOOSE x \in s : TRUE}]]

SumOf(z, C) == (CHOOSE g : Sums(g, z, C))[C]

\* It counts cells.
LEMMA SumIs ==
  ASSUME NEW D, IsFiniteSet(D), NEW z \in [D -> Nat], NEW C \in SUBSET D
  PROVE  SumOf(z, C) = Cardinality(Cells(z, C))
<1> DEFINE f == [s \in SUBSET C |-> Cardinality(Cells(z, s))]
           h == CHOOSE g : Sums(g, z, C)
<1>1. ASSUME NEW s \in SUBSET C, s # {}
      PROVE  /\ (CHOOSE x \in s : TRUE) \in s
             /\ Cardinality(Cells(z, s)) = z[CHOOSE x \in s : TRUE]
                  + Cardinality(Cells(z, s \ {CHOOSE x \in s : TRUE}))
  <2> HIDE DEF f, h
  <2>1. s \in SUBSET D
    OBVIOUS
  <2>2. ASSUME NEW x \in s
        PROVE  Cardinality(Cells(z, s)) = z[x] + Cardinality(Cells(z, s \ {x}))
    BY <2>1, CellsSplit
  <2>3. PICK x \in s : x = CHOOSE y \in s : TRUE
    BY <1>1
  <2> QED
    BY <2>2, <2>3
<1>2. Cardinality(Cells(z, {})) = 0
  <2>1. Cells(z, {}) = {}
    BY DEF Cells
  <2> QED
    BY <2>1, FS_EmptySet
<1>3. Sums(f, z, C)
  <2>1. ASSUME NEW s \in SUBSET C
        PROVE  f[s] = IF s = {} THEN 0
                      ELSE z[CHOOSE x \in s : TRUE] + f[s \ {CHOOSE x \in s : TRUE}]
    <3>1. CASE s = {}
      BY <1>2, <3>1
    <3>2. CASE s # {}
      <4>1. PICK x : x = CHOOSE y \in s : TRUE
        OBVIOUS
      <4>2. f[s \ {x}] = Cardinality(Cells(z, s \ {x}))
        OBVIOUS
      <4>3. f[s] = z[x] + f[s \ {x}]
        BY <1>1, <3>2, <4>1, <4>2
      <4> QED
        BY <3>2, <4>1, <4>3
    <3> QED
      BY <3>1, <3>2
  <2> QED
    BY <2>1 DEF Sums
<1>4. Sums(h, z, C)
  <2> HIDE DEF f
  <2> QED
    BY <1>3
<1>5. SumOf(z, C) = h[C]
  BY DEF SumOf
<1> HIDE DEF f, h
<1>6. \A s \in SUBSET C : h[s] = Cardinality(Cells(z, s))
  <2> DEFINE Bad == {n \in Nat : \E s \in SUBSET C :
                       Cardinality(s) = n /\ h[s] # Cardinality(Cells(z, s))}
  <2>1. SUFFICES ASSUME NEW s \in SUBSET C, h[s] # Cardinality(Cells(z, s)) PROVE FALSE
    OBVIOUS
  <2>2. IsFiniteSet(C) /\ \A t \in SUBSET C : IsFiniteSet(t) /\ Cardinality(t) \in Nat
    BY FS_Subset, FS_CardinalityType
  <2>3. Bad # {} /\ Bad \in SUBSET Nat
    BY <2>1, <2>2
  <2>4. PICK n \in Bad : \A m \in Bad : n <= m
    BY <2>3, LeastOf
  <2>5. PICK t \in SUBSET C : n = Cardinality(t) /\ h[t] # Cardinality(Cells(z, t)) /\ n \in Nat
    BY <2>4
  <2>6. t # {}
    BY <1>2, <1>4, <2>5 DEF Sums
  <2>7. PICK x \in t : x = CHOOSE y \in t : TRUE
    BY <2>6
  <2>8. h[t] = z[x] + h[t \ {x}]
    BY <1>4, <2>6, <2>7 DEF Sums
  <2>9. t \ {x} \in SUBSET C /\ Cardinality(t \ {x}) = n - 1 /\ n - 1 \in Nat
    <3>1. IsFiniteSet(t) /\ t \ {x} \in SUBSET C
      BY <2>2
    <3>2. Cardinality(t \ {x}) = Cardinality(t) - 1
      BY <2>7, <3>1, FS_RemoveElement
    <3>3. Cardinality(t \ {x}) \in Nat
      BY <2>2, <3>1
    <3> QED
      BY <2>5, <3>1, <3>2, <3>3
  <2>10. n - 1 \notin Bad
    BY <2>4, <2>9
  <2>11. h[t \ {x}] = Cardinality(Cells(z, t \ {x}))
    BY <2>9, <2>10
  <2> QED
    BY <1>1, <2>5, <2>6, <2>7, <2>8, <2>11
<1> QED
  BY <1>5, <1>6

LEMMA SumOfSizes ==
  ASSUME NEW C
  PROVE  MapThenSumSet(LAMBDA c : size[c], C) = SumOf(size, C)
BY DEF MapThenSumSet, MapThenFoldSet, SumOf, Sums

LEMMA CellsWhole ==
  ASSUME NEW D, IsFiniteSet(D), NEW z \in [D -> Nat], NEW c \in D
  PROVE  /\ Cardinality(Cells(z, D)) = z[c] + Cardinality(Cells(z, D \ {c}))
         /\ Cardinality(Cells(z, D \ {c})) \in Nat
BY CellsSplit

\* A class gets a size.
LEMMA CellsSet ==
  ASSUME NEW D, IsFiniteSet(D), NEW z \in [D -> Nat], NEW c \in D, z[c] = 0,
         NEW s \in Nat, NEW y, y = [z EXCEPT ![c] = s]
  PROVE  Cardinality(Cells(y, D)) = Cardinality(Cells(z, D)) + s
<1>1. y \in [D -> Nat] /\ y[c] = s /\ D \in SUBSET D
  OBVIOUS
<1>2. \A d \in D \ {c} : y[d] = z[d]
  OBVIOUS
<1>3. Cells(y, D \ {c}) = Cells(z, D \ {c})
  BY <1>2 DEF Cells
<1>4. /\ Cardinality(Cells(z, D)) = z[c] + Cardinality(Cells(z, D \ {c}))
      /\ Cardinality(Cells(z, D \ {c})) \in Nat
  BY CellsWhole
<1>5. Cardinality(Cells(y, D)) = y[c] + Cardinality(Cells(y, D \ {c}))
  BY <1>1, CellsWhole
<1> QED
  BY <1>1, <1>3, <1>4, <1>5

\* Some classes lose their sizes.
LEMMA CellsReset ==
  ASSUME NEW D, IsFiniteSet(D), NEW z \in [D -> Nat], NEW cs \in SUBSET D,
         NEW y, y = [c \in D |-> IF c \in cs THEN 0 ELSE z[c]]
  PROVE  /\ Cardinality(Cells(y, D)) = Cardinality(Cells(z, D)) - Cardinality(Cells(z, cs))
         /\ Cardinality(Cells(y, D)) \in Nat /\ Cardinality(Cells(z, D)) \in Nat
         /\ Cardinality(Cells(z, cs)) \in Nat
<1>1. Cells(y, D) = Cells(z, D) \ Cells(z, cs)
  <2>1. ASSUME NEW p \in D \X Nat
        PROVE  p \in Cells(y, D) <=> p \in Cells(z, D) /\ p \notin Cells(z, cs)
    BY DEF Cells
  <2> QED
    BY <2>1 DEF Cells
<1>2. Cells(z, D) \cap Cells(z, cs) = Cells(z, cs) /\ Cells(z, cs) \in SUBSET Cells(z, D)
  BY DEF Cells
<1>3. PICK A, B : A = Cells(z, D) /\ B = Cells(z, cs)
  OBVIOUS
<1>4. IsFiniteSet(A)
  BY <1>3, CellsFinite
<1>5. IsFiniteSet(B) /\ IsFiniteSet(A \ B)
      /\ Cardinality(A \ B) = Cardinality(A) - Cardinality(A \cap B)
  BY <1>2, <1>3, <1>4, FS_Subset, FS_Difference
<1>6. Cardinality(A) \in Nat /\ Cardinality(B) \in Nat /\ Cardinality(A \ B) \in Nat
  BY <1>4, <1>5, FS_CardinalityType
<1> QED
  BY <1>1, <1>2, <1>3, <1>5, <1>6

-----------------------------------------------------------------------------
(* The whole invariant.                                                    *)

\* A class without an owner takes no messages and has none.
Registered ==
  \A c \in Classes : notifier[c] = NULL =>
    /\ status[c] = "INVALID"
    /\ \A k \in Kinds : num[c][k] = 0

\* What a client has checked is still the first message of a list of its own.
Checked ==
  \A n \in Clients : checked[n] # NULL =>
    /\ n \in Checkers
    /\ latest = checked[n]
    /\ notifier[latest.c] = n
    /\ latest.s = first[latest.c][latest.k]
    /\ num[latest.c][latest.k] > 0

IInv ==
  /\ PoolTyped
  /\ ClassTyped
  /\ \E Q : Lists(Q)
  /\ Owners
  /\ Registered
  /\ Checked

\* One client at most removes what it has checked.
OneChecker == \A n, m \in Checkers : n = m

LEMMA InitIInv ==
  ASSUME Init
  PROVE  IInv
<1>1. PoolTyped
  <2>1. u16Slots \in Int /\ 0 \in Nat
    BY SizesAssumption
  <2>2. pool \in [used : SUBSET Slots, next : [Slots -> Slots \cup {NULL}],
                  msg : [Slots -> Contents \cup {NULL}], free : Int]
    BY <2>1 DEF Init
  <2> QED
    BY <2>1, <2>2 DEF Init, PoolTyped, NoSlot, NoMsg
<1>2. ClassTyped
  BY DEF Init, ClassTyped, LinksTyped, NotChecked
<1>3. \E Q : Lists(Q)
  <2>0. <<>> \in Seq(Slots)
    OBVIOUS
  <2>1. PICK q \in Seq(Slots) : q = <<>>
    BY <2>0
  <2>2. Elems(q) = {} /\ Len(q) = 0
    BY <2>1, PathEmpty
  <2>3. PICK Q : Q = [c \in Classes |-> [k \in Kinds |-> q]]
    OBVIOUS
  <2>4. Q \in [Classes -> [Kinds -> Seq(Slots)]] /\ \A c \in Classes, k \in Kinds : Q[c][k] = q
    BY <2>3
  <2>5. ASSUME NEW c \in Classes, NEW k \in Kinds PROVE IsList(c, k, Q[c][k])
    <3>1. first[c][k] = NULL /\ num[c][k] = 0
      BY DEF Init, NoSlot, NoMsg
    <3> QED
      BY <2>2, <2>4, <3>1 DEF IsList, Path
  <2>6. pool.used = {} /\ pool.free = u16Slots
    BY DEF Init
  <2>7. pool.free = u16Slots - Cardinality(pool.used)
    BY <2>6, FS_EmptySet, SlotsFinite
  <2> QED
    BY <2>2, <2>4, <2>5, <2>6, <2>7 DEF Lists
<1>4. Owners
  <2>0. <<>> \in Seq(Classes)
    OBVIOUS
  <2>1. PICK q \in Seq(Classes) : q = <<>>
    BY <2>0
  <2>2. ASSUME NEW n \in Clients PROVE Owns(n, q)
    <3>1. qfirst[n] = NULL /\ n # NULL /\ \A c \in Classes : notifier[c] = NULL
      BY NullAssumption DEF Init
    <3>2. Path(nextq, NULL, q) /\ Elems(q) = {}
      BY <2>1, PathEmpty
    <3> QED
      BY <3>1, <3>2 DEF Owns
  <2> QED
    BY <2>2 DEF Owners
<1>5. Registered
  BY DEF Init, Registered, NoMsg
<1>6. Checked
  BY DEF Init, Checked, NotChecked
<1> QED
  BY <1>1, <1>2, <1>3, <1>4, <1>5, <1>6 DEF IInv

-----------------------------------------------------------------------------
(* What a step keeps.                                                      *)

\* A client that does something else no longer removes what it has checked;
\* the others still do, as long as their classes are left alone.
LEMMA ForgetChecked ==
  ASSUME ClassTyped, Checked, NEW n \in Clients, Forget(n),
         \A c \in Classes : notifier[c] \notin {n, NULL} =>
           /\ notifier'[c] = notifier[c]
           /\ first'[c] = first[c] /\ num'[c] = num[c]
  PROVE  Checked' /\ checked' \in [Clients -> Latest \cup {NULL}]
<1>1. /\ checked \in [Clients -> Latest \cup {NULL}]
      /\ checked' = [checked EXCEPT ![n] = NULL]
      /\ latest' = IF checked' = NotChecked THEN NULL ELSE latest
  BY DEF ClassTyped, LinksTyped, Forget
<1>2. checked' \in [Clients -> Latest \cup {NULL}]
  BY <1>1
<1>3. ASSUME NEW m \in Clients, checked'[m] # NULL
      PROVE  /\ m \in Checkers
             /\ latest' = checked'[m]
             /\ notifier'[latest'.c] = m
             /\ latest'.s = first'[latest'.c][latest'.k]
             /\ num'[latest'.c][latest'.k] > 0
  <2>1. m # n /\ checked'[m] = checked[m]
    BY <1>1, <1>3
  <2>2. checked' # NotChecked
    BY <1>3 DEF NotChecked
  <2>3. latest' = latest
    BY <1>1, <2>2
  <2>4. /\ m \in Checkers /\ latest = checked[m] /\ notifier[latest.c] = m
        /\ latest.s = first[latest.c][latest.k] /\ num[latest.c][latest.k] > 0
    BY <1>3, <2>1 DEF Checked
  <2>5. latest.c \in Classes
    BY <1>1, <1>3, <2>1, <2>4 DEF Latest
  <2>6. notifier[latest.c] \notin {n, NULL}
    BY <2>1, <2>4, NullAssumption
  <2> QED
    BY <2>1, <2>3, <2>4, <2>5, <2>6
<1> QED
  BY <1>2, <1>3 DEF Checked

\* A refusal changes nothing but what may be removed.
LEMMA RefuseIInv ==
  ASSUME IInv, NEW e, Refuse(e),
         Checked' /\ checked' \in [Clients -> Latest \cup {NULL}]
  PROVE  IInv'
<1>1. /\ UNCHANGED <<pool, first, end, num>> /\ UNCHANGED status
      /\ UNCHANGED <<size, notifier, nextq, qfirst>>
  BY DEF Refuse, lists, classes
<1>2. PICK Q : Lists(Q)
  BY DEF IInv
<1>3. Lists(Q)'
  BY <1>1, <1>2, ListsFrame
<1>4. PoolTyped' /\ ClassTyped'
  BY <1>1 DEF IInv, PoolTyped, ClassTyped, LinksTyped
<1>5. Owners'
  BY <1>1 DEF IInv, Owners, Owns
<1>6. Registered'
  BY <1>1 DEF IInv, Registered
<1> QED
  BY <1>3, <1>4, <1>5, <1>6 DEF IInv

LEMMA ForgetRefuse ==
  ASSUME IInv, NEW n \in Clients, Forget(n), NEW e, Refuse(e)
  PROVE  IInv'
<1>1. UNCHANGED <<first, num, notifier>>
  BY DEF Refuse, lists, classes
<1>2. Checked' /\ checked' \in [Clients -> Latest \cup {NULL}]
  BY <1>1, ForgetChecked DEF IInv
<1> QED
  BY <1>2, RefuseIInv

\* A class that changes only in its messages has an owner before and after.
LEMMA ListsChange ==
  ASSUME IInv, NEW c \in Classes, notifier[c] # NULL,
         UNCHANGED classes, PoolTyped', \E Q : Lists(Q)',
         NEW st \in {"INVALID", "EMPTY", "NORMAL", "OVERFLOW"},
         status' = [status EXCEPT ![c] = st],
         \A d \in Classes : d # c => num'[d] = num[d],
         Checked' /\ checked' \in [Clients -> Latest \cup {NULL}]
  PROVE  IInv'
<1>1. UNCHANGED <<size, notifier, nextq, qfirst>>
  BY DEF classes
<1>2. ClassTyped'
  BY <1>1 DEF IInv, ClassTyped, LinksTyped
<1>3. Owners'
  BY <1>1 DEF IInv, Owners, Owns
<1>4. Registered'
  BY <1>1 DEF IInv, Registered, ClassTyped, LinksTyped
<1>5. (\E Q : Lists(Q))'
  OBVIOUS
<1> QED
  BY <1>2, <1>3, <1>4, <1>5 DEF IInv

-----------------------------------------------------------------------------
(* Every step keeps the invariant.                                         *)

\* The classes keep their lists of slots when one without any is registered.
LEMMA RegisterMSGStep ==
  ASSUME IInv, ~Takeover, NEW n \in Clients, NEW c \in Classes, NEW s \in Sizes,
         RegisterMSG(n, c, s)
  PROVE  IInv'
<1>1. Forget(n)
  BY DEF RegisterMSG
<1>2. CASE \E e : Refuse(e)
  BY <1>1, <1>2, ForgetRefuse
<1>3. CASE notifier[c] = NULL /\ Register_NotifyID(n, c, s)
  <2>1. /\ first' = [first EXCEPT ![c] = NoSlot] /\ end' = [end EXCEPT ![c] = NoSlot]
        /\ num' = [num EXCEPT ![c] = NoMsg] /\ pool' = pool
        /\ status' = [status EXCEPT ![c] = "EMPTY"] /\ size' = [size EXCEPT ![c] = s]
        /\ notifier' = [notifier EXCEPT ![c] = n]
        /\ nextq' = [nextq EXCEPT ![c] = qfirst[n]] /\ qfirst' = [qfirst EXCEPT ![n] = c]
    BY <1>3 DEF Register_NotifyID
  <2>2. NoSlot \in [Kinds -> Slots \cup {NULL}] /\ NoMsg \in [Kinds -> Nat]
    BY DEF NoSlot, NoMsg
  <2>3. PoolTyped'
    BY <2>1, <2>2 DEF IInv, PoolTyped
  <2>4. Checked' /\ checked' \in [Clients -> Latest \cup {NULL}]
    <3>1. \A d \in Classes : notifier[d] \notin {n, NULL} =>
             notifier'[d] = notifier[d] /\ first'[d] = first[d] /\ num'[d] = num[d]
      BY <1>3, <2>1 DEF IInv, PoolTyped, ClassTyped, LinksTyped
    <3> QED
      BY <1>1, <3>1, ForgetChecked DEF IInv
  <2>5. s \in Nat
    BY SizesAssumption
  <2>6. ClassTyped'
    BY <2>1, <2>4, <2>5 DEF IInv, ClassTyped, LinksTyped
  <2>7. Owners'
    BY <1>3, <2>1, RegisterOwners DEF IInv, ClassTyped
  <2>8. Registered'
    <3>1. n # NULL
      BY NullAssumption
    <3> QED
      BY <2>1, <3>1 DEF IInv, Registered, ClassTyped, LinksTyped, PoolTyped
  <2>9. PICK Q : Lists(Q)
    BY DEF IInv
  <2>10. ASSUME NEW d \in Classes, NEW l \in Kinds PROVE IsList(d, l, Q[d][l])'
    <3>1. IsList(d, l, Q[d][l])
      BY <2>9 DEF Lists
    <3>2. CASE d # c
      <4>1. first'[d] = first[d] /\ end'[d] = end[d] /\ num'[d] = num[d]
        BY <2>1, <3>2 DEF IInv, PoolTyped
      <4> QED
        BY <2>1, <3>1, <4>1 DEF IsList
    <3>3. CASE d = c
      <4>1. first'[d][l] = NULL /\ num'[d][l] = 0
        BY <2>1, <3>3 DEF IInv, PoolTyped, NoSlot, NoMsg
      <4>2. Len(Q[d][l]) = 0
        BY <1>3, <3>1, <3>3 DEF IInv, Registered, IsList
      <4> QED
        BY <4>1, <4>2 DEF IsList, Path
    <3> QED
      BY <3>2, <3>3
  <2>11. Lists(Q)'
    BY <2>1, <2>9, <2>10 DEF Lists
  <2> QED
    BY <2>3, <2>4, <2>6, <2>7, <2>8, <2>11 DEF IInv
<1> QED
  BY <1>2, <1>3 DEF RegisterMSG

\* The classes cs of client n lose their messages and their owner.
LEMMA FreeMSGStep ==
  ASSUME IInv, NEW n \in Clients, Forget(n), NEW cs \in SUBSET Classes,
         \A c \in cs : notifier[c] = n, FreeMSG(cs), Owners',
         nextq' \in [Classes -> Classes \cup {NULL}],
         qfirst' \in [Clients -> Classes \cup {NULL}]
  PROVE  IInv'
<1>1. /\ pool' = FreeMSGPoolItemQ(cs)
      /\ first' = [c \in Classes |-> IF c \in cs THEN NoSlot ELSE first[c]]
      /\ end' = [c \in Classes |-> IF c \in cs THEN NoSlot ELSE end[c]]
      /\ num' = [c \in Classes |-> IF c \in cs THEN NoMsg ELSE num[c]]
      /\ status' = [c \in Classes |-> IF c \in cs THEN "INVALID" ELSE status[c]]
      /\ size' = [c \in Classes |-> IF c \in cs THEN 0 ELSE size[c]]
      /\ notifier' = [c \in Classes |-> IF c \in cs THEN NULL ELSE notifier[c]]
  BY DEF FreeMSG
<1>2. PICK Q : Lists(Q)
  BY DEF IInv
<1>3. PoolTyped' /\ Lists(Without(Q, cs))'
  BY <1>1, <1>2, ClearLists DEF IInv
<1>4. PICK R : R = Without(Q, cs)
  OBVIOUS
<1>5. Lists(R)'
  BY <1>3, <1>4
<1>6. Checked' /\ checked' \in [Clients -> Latest \cup {NULL}]
  <2>1. \A d \in Classes : notifier[d] \notin {n, NULL} =>
           notifier'[d] = notifier[d] /\ first'[d] = first[d] /\ num'[d] = num[d]
    BY <1>1
  <2> QED
    BY <2>1, ForgetChecked DEF IInv
<1>7. ClassTyped'
  BY <1>1, <1>6 DEF IInv, ClassTyped, LinksTyped
<1>8. Registered'
  BY <1>1 DEF IInv, Registered, NoMsg
<1> QED
  BY <1>3, <1>5, <1>6, <1>7, <1>8 DEF IInv

LEMMA UnRegisterMSGStep ==
  ASSUME IInv, NEW n \in Clients, NEW c \in Classes, NEW force, UnRegisterMSG(n, c, force)
  PROVE  IInv'
<1>1. Forget(n)
  BY DEF UnRegisterMSG
<1>2. CASE \E e : Refuse(e)
  BY <1>1, <1>2, ForgetRefuse
<1>3. CASE notifier[c] = n /\ Unlink(n, c) /\ FreeMSG({c})
  <2>1. PICK cs \in SUBSET Classes : cs = {c}
    OBVIOUS
  <2>2. notifier' = [e \in Classes |-> IF e \in {c} THEN NULL ELSE notifier[e]]
    BY <1>3 DEF FreeMSG
  <2>3. /\ Owners'
        /\ nextq' \in [Classes -> Classes \cup {NULL}]
        /\ qfirst' \in [Clients -> Classes \cup {NULL}]
    BY <1>3, <2>2, UnlinkOwners DEF IInv, ClassTyped
  <2>4. FreeMSG(cs) /\ \A d \in cs : notifier[d] = n
    BY <1>3, <2>1
  <2> QED
    BY <1>1, <2>3, <2>4, FreeMSGStep
<1> QED
  BY <1>2, <1>3 DEF UnRegisterMSG

LEMMA UnRegisterMSGQStep ==
  ASSUME IInv, NEW n \in Clients, NEW force, UnRegisterMSGQ(n, force)
  PROVE  IInv'
<1>1. Forget(n)
  BY DEF UnRegisterMSGQ
<1>2. CASE \E e : Refuse(e)
  BY <1>1, <1>2, ForgetRefuse
<1>3. PICK mine : mine = Chain(nextq, qfirst[n])
  OBVIOUS
<1>4. mine = {c \in Classes : notifier[c] = n}
  BY <1>3, ChainOfOwner DEF IInv, ClassTyped
<1>5. CASE /\ FreeMSG(mine)
           /\ nextq' = [c \in Classes |-> IF c \in mine THEN NULL ELSE nextq[c]]
           /\ qfirst' = [qfirst EXCEPT ![n] = NULL]
  <2>1. notifier' = [e \in Classes |-> IF e \in mine THEN NULL ELSE notifier[e]]
    BY <1>5 DEF FreeMSG
  <2>2. Owners'
    BY <1>4, <1>5, <2>1, UnlinkAllOwners DEF IInv, ClassTyped
  <2>3. /\ nextq' \in [Classes -> Classes \cup {NULL}]
        /\ qfirst' \in [Clients -> Classes \cup {NULL}]
    BY <1>5 DEF IInv, ClassTyped, LinksTyped
  <2>4. mine \in SUBSET Classes /\ \A d \in mine : notifier[d] = n
    BY <1>4
  <2> QED
    BY <1>1, <1>5, <2>2, <2>3, <2>4, FreeMSGStep
<1> QED
  BY <1>2, <1>3, <1>5 DEF UnRegisterMSGQ

LEMMA ClearMSGStep ==
  ASSUME IInv, NEW n \in Clients, NEW c \in Classes, ClearMSG(n, c)
  PROVE  IInv'
<1>1. Forget(n)
  BY DEF ClearMSG
<1>2. CASE \E e : Refuse(e)
  BY <1>1, <1>2, ForgetRefuse
<1>3. CASE /\ notifier[c] = n /\ pool' = FreeMSGPoolItemQ({c})
           /\ first' = [first EXCEPT ![c] = NoSlot] /\ end' = [end EXCEPT ![c] = NoSlot]
           /\ num' = [num EXCEPT ![c] = NoMsg] /\ status' = [status EXCEPT ![c] = "EMPTY"]
           /\ UNCHANGED classes
  <2>1. PICK cs \in SUBSET Classes : cs = {c}
    OBVIOUS
  <2>2. /\ first' = [d \in Classes |-> IF d \in cs THEN NoSlot ELSE first[d]]
        /\ end' = [d \in Classes |-> IF d \in cs THEN NoSlot ELSE end[d]]
        /\ num' = [d \in Classes |-> IF d \in cs THEN NoMsg ELSE num[d]]
        /\ pool' = FreeMSGPoolItemQ(cs)
    BY <1>3, <2>1 DEF IInv, PoolTyped
  <2>3. PICK Q : Lists(Q)
    BY DEF IInv
  <2>4. PICK R : R = Without(Q, cs)
    OBVIOUS
  <2>5. PoolTyped' /\ Lists(R)'
    BY <2>2, <2>3, <2>4, ClearLists DEF IInv
  <2>6. \A d \in Classes : d # c => num'[d] = num[d] /\ first'[d] = first[d]
    BY <2>1, <2>2
  <2>7. notifier' = notifier /\ n # NULL
    BY <1>3, NullAssumption DEF classes
  <2>8. Checked' /\ checked' \in [Clients -> Latest \cup {NULL}]
    BY <1>1, <1>3, <2>6, <2>7, ForgetChecked DEF IInv
  <2> QED
    BY <1>3, <2>5, <2>6, <2>7, <2>8, ListsChange
<1> QED
  BY <1>2, <1>3 DEF ClearMSG

\* As long as a slot is counted as free there is one to allocate.
LEMMA Allocated ==
  ASSUME PoolTyped, NEW Q, Lists(Q), pool.free > 0
  PROVE  AllocateSlot \in Slots /\ AllocateSlot \notin pool.used
<1>1. pool.used \subseteq Slots /\ pool.free = u16Slots - Cardinality(pool.used)
  BY DEF PoolTyped, Lists
<1>2. Slots \ pool.used # {}
  <2>1. SUFFICES ASSUME Slots \ pool.used = {} PROVE FALSE
    OBVIOUS
  <2>2. pool.used = Slots
    BY <1>1, <2>1
  <2> QED
    BY <1>1, <2>2, SlotsFinite
<1>3. PICK S : S = Slots \ pool.used
  OBVIOUS
<1>4. \E x \in S : \A y \in S : x <= y
  BY <1>2, <1>3, SlotsFinite, LeastOf
<1>5. Min(S) \in S
  BY <1>4 DEF Min
<1> QED
  BY <1>3, <1>5 DEF AllocateSlot

LEMMA AddMSGStep ==
  ASSUME IInv, NEW c \in Classes, NEW k \in Kinds, NEW m \in Contents, AddMSG(c, k, m)
  PROVE  IInv'
<1>1. checked' = checked /\ latest' = latest
  BY DEF AddMSG
<1>2. CASE \E e : Refuse(e)
  <2>1. UNCHANGED <<first, num, notifier>>
    BY <1>2 DEF Refuse, lists, classes
  <2>2. Checked' /\ checked' \in [Clients -> Latest \cup {NULL}]
    BY <1>1, <2>1 DEF IInv, Checked, ClassTyped, LinksTyped
  <2> QED
    BY <1>2, <2>2, RefuseIInv
<1>3. CASE /\ status[c] \in {"NORMAL", "EMPTY"} /\ pool.free > 0
           /\ Link(c, k, AllocateSlot, m) /\ num' = [num EXCEPT ![c][k] = @ + 1]
           /\ status' = [status EXCEPT ![c] =
                IF Total(c) + 1 >= size[c] THEN "OVERFLOW" ELSE "NORMAL"]
           /\ UNCHANGED classes
  <2>1. PICK Q : Lists(Q)
    BY DEF IInv
  <2>2. PICK s \in Slots : s = AllocateSlot /\ s \notin pool.used
    BY <1>3, <2>1, Allocated DEF IInv
  <2>3. Link(c, k, s, m) /\ CountUp(c, k)
    BY <1>3, <2>2 DEF CountUp
  <2>4. PICK R : R = [Q EXCEPT ![c][k] = Append(@, s)]
    OBVIOUS
  <2>5. PoolTyped' /\ Lists(R)'
    BY <2>1, <2>2, <2>3, <2>4, LinkLists DEF IInv
  <2>6. notifier[c] # NULL
    BY <1>3 DEF IInv, Registered
  <2>7. \A d \in Classes : d # c => num'[d] = num[d]
    BY <1>3 DEF IInv, PoolTyped
  <2>8. notifier' = notifier
    BY <1>3 DEF classes
  <2>9. \A d \in Classes, l \in Kinds : num[d][l] > 0 =>
           first'[d][l] = first[d][l] /\ num'[d][l] > 0
    <3>1. first' = IF num[c][k] > 0 THEN first ELSE [first EXCEPT ![c][k] = s]
      BY <2>3 DEF Link
    <3> QED
      BY <1>3, <3>1 DEF IInv, PoolTyped
  <2>10. Checked' /\ checked' \in [Clients -> Latest \cup {NULL}]
    <3>1. ASSUME NEW n \in Clients, checked'[n] # NULL
          PROVE  /\ n \in Checkers /\ latest' = checked'[n] /\ notifier'[latest'.c] = n
                 /\ latest'.s = first'[latest'.c][latest'.k]
                 /\ num'[latest'.c][latest'.k] > 0
      <4>1. /\ n \in Checkers /\ latest = checked[n] /\ notifier[latest.c] = n
            /\ latest.s = first[latest.c][latest.k] /\ num[latest.c][latest.k] > 0
        BY <1>1, <3>1 DEF IInv, Checked
      <4>2. latest.c \in Classes /\ latest.k \in Kinds
        BY <1>1, <3>1, <4>1 DEF IInv, ClassTyped, LinksTyped, Latest
      <4> QED
        BY <1>1, <2>8, <2>9, <4>1, <4>2
    <3> QED
      BY <1>1, <3>1 DEF IInv, Checked, ClassTyped, LinksTyped
  <2>11. PICK st \in {"INVALID", "EMPTY", "NORMAL", "OVERFLOW"} :
            st = IF Total(c) + 1 >= size[c] THEN "OVERFLOW" ELSE "NORMAL"
    OBVIOUS
  <2>12. status' = [status EXCEPT ![c] = st]
    BY <1>3, <2>11
  <2>13. UNCHANGED classes
    BY <1>3
  <2> QED
    BY <2>5, <2>6, <2>7, <2>10, <2>12, <2>13, ListsChange
<1> QED
  BY <1>2, <1>3 DEF AddMSG

-----------------------------------------------------------------------------
(* Receiving.                                                              *)

LEMMA StatusTyped ==
  ASSUME IInv, NEW c \in Classes, NEW i
  PROVE  StatusAfterRecv(c, i) \in {"INVALID", "EMPTY", "NORMAL", "OVERFLOW"}
BY DEF IInv, ClassTyped, LinksTyped, StatusAfterRecv

\* The first message of a class of client n is removed.
LEMMA DequeueStep ==
  ASSUME IInv, NEW n \in Clients, NEW c \in Classes, NEW k \in Kinds,
         notifier[c] = n, num[c][k] > 0, Forget(n), NEW s, s = first[c][k],
         Dequeue(c, k, s)
  PROVE  IInv'
<1>1. PICK Q : Lists(Q)
  BY DEF IInv
<1>2. PICK R : R = [Q EXCEPT ![c][k] = Tail(@)]
  OBVIOUS
<1>3. PoolTyped' /\ Lists(R)'
  BY <1>1, <1>2, DequeueLists DEF IInv
<1>4. UNCHANGED classes /\ notifier' = notifier /\ notifier[c] # NULL
  BY NullAssumption DEF Dequeue, classes
<1>5. \A d \in Classes : d # c => num'[d] = num[d] /\ first'[d] = first[d]
  BY DEF Dequeue, IInv, PoolTyped
<1>6. Checked' /\ checked' \in [Clients -> Latest \cup {NULL}]
  BY <1>4, <1>5, ForgetChecked DEF IInv
<1>7. PICK st \in {"INVALID", "EMPTY", "NORMAL", "OVERFLOW"} :
         st = StatusAfterRecv(c, Total(c) - 1)
  BY StatusTyped
<1>8. status' = [status EXCEPT ![c] = st]
  BY <1>7 DEF Dequeue
<1> QED
  BY <1>3, <1>4, <1>5, <1>6, <1>8, ListsChange

\* Only the status of a class that has an owner changes.
LEMMA StatusStep ==
  ASSUME IInv, NEW c \in Classes, notifier[c] # NULL,
         status' = [status EXCEPT ![c] = StatusAfterRecv(c, Total(c))],
         UNCHANGED <<pool, first, end, num, classes>>,
         Checked' /\ checked' \in [Clients -> Latest \cup {NULL}]
  PROVE  IInv'
<1>1. PICK Q : Lists(Q)
  BY DEF IInv
<1>2. Lists(Q)'
  BY <1>1, ListsFrame
<1>3. PoolTyped'
  BY DEF IInv, PoolTyped
<1>4. PICK st \in {"INVALID", "EMPTY", "NORMAL", "OVERFLOW"} :
         st = StatusAfterRecv(c, Total(c))
  BY StatusTyped
<1>5. status' = [status EXCEPT ![c] = st]
  BY <1>4
<1>6. \A d \in Classes : d # c => num'[d] = num[d]
  OBVIOUS
<1> QED
  BY <1>2, <1>3, <1>5, <1>6, ListsChange

LEMMA NothingFoundStep ==
  ASSUME IInv, NEW n \in Clients, Forget(n), NEW c \in Classes, notifier[c] # NULL,
         NothingFound(c)
  PROVE  IInv'
<1>1. /\ status' = [status EXCEPT ![c] = StatusAfterRecv(c, Total(c))]
      /\ UNCHANGED <<pool, first, end, num, classes>>
  BY DEF NothingFound
<1>2. UNCHANGED <<first, num, notifier>>
  BY <1>1 DEF classes
<1>3. Checked' /\ checked' \in [Clients -> Latest \cup {NULL}]
  BY <1>2, ForgetChecked DEF IInv
<1> QED
  BY <1>1, <1>3, StatusStep

LEMMA RecvMsgStep ==
  ASSUME IInv, NEW n \in Clients, NEW c \in Classes, NEW k \in Kinds, RecvMsg(n, c, k)
  PROVE  IInv'
<1>1. Forget(n) /\ notifier[c] \in {n, NULL}
  BY DEF RecvMsg
<1>2. CASE \E e : Refuse(e)
  BY <1>1, <1>2, ForgetRefuse
<1>3. CASE notifier[c] # NULL /\ NothingFound(c)
  BY <1>1, <1>3, NothingFoundStep
<1>4. CASE notifier[c] # NULL /\ num[c][k] > 0 /\ Dequeue(c, k, first[c][k])
  BY <1>1, <1>4, DequeueStep
<1> QED
  BY <1>2, <1>3, <1>4 DEF RecvMsg

LEMMA CheckMsgStep ==
  ASSUME IInv, OneChecker, NEW n \in Clients, NEW c \in Classes, NEW k \in Kinds,
         CheckMsg(n, c, k)
  PROVE  IInv'
<1>1. n \in Checkers /\ notifier[c] \in {n, NULL}
  BY DEF CheckMsg
<1>2. CASE Forget(n) /\ \E e : Refuse(e)
  BY <1>2, ForgetRefuse
<1>3. CASE Forget(n) /\ notifier[c] # NULL /\ NothingFound(c)
  BY <1>3, NothingFoundStep
<1>4. CASE /\ notifier[c] # NULL /\ num[c][k] > 0
           /\ latest' = [c |-> c, k |-> k, s |-> first[c][k]]
           /\ checked' = [checked EXCEPT ![n] = latest']
           /\ status' = [status EXCEPT ![c] = StatusAfterRecv(c, Total(c))]
           /\ UNCHANGED <<pool, first, end, num, classes>>
  <2>1. UNCHANGED <<first, num, notifier>>
    BY <1>4 DEF classes
  <2>2. first[c][k] \in Slots
    <3>1. PICK Q : Lists(Q)
      BY DEF IInv
    <3>2. PICK q \in Seq(Slots) : Path(pool.next, first[c][k], q) /\ Len(q) = num[c][k]
      <4>1. Q[c][k] \in Seq(Slots) /\ IsList(c, k, Q[c][k])
        BY <3>1 DEF Lists
      <4> QED
        BY <4>1 DEF IsList
    <3> QED
      BY <1>4, <3>2 DEF Path
  <2>3. latest' \in Latest
    BY <1>4, <2>2 DEF Latest
  <2>4. checked' \in [Clients -> Latest \cup {NULL}]
    BY <1>4, <2>3 DEF IInv, ClassTyped, LinksTyped
  <2>5. ASSUME NEW m \in Clients, checked'[m] # NULL PROVE m = n
    <3>1. CASE m # n
      <4>1. checked[m] # NULL
        BY <1>4, <2>5, <3>1 DEF IInv, ClassTyped, LinksTyped
      <4>2. m \in Checkers
        BY <4>1 DEF IInv, Checked
      <4> QED
        BY <1>1, <4>2 DEF OneChecker
    <3> QED
      BY <3>1
  <2>6. checked'[n] = latest'
    BY <1>4 DEF IInv, ClassTyped, LinksTyped
  <2>7. latest'.c = c /\ latest'.k = k /\ latest'.s = first[c][k]
    BY <1>4
  <2>8. Checked'
    BY <1>1, <1>4, <2>1, <2>5, <2>6, <2>7 DEF Checked
  <2> QED
    BY <1>4, <2>4, <2>8, StatusStep
<1> QED
  BY <1>2, <1>3, <1>4 DEF CheckMsg

LEMMA RemoveLatestMsgStep ==
  ASSUME IInv, NEW n \in Clients, RemoveLatestMsg(n)
  PROVE  IInv'
<1>1. Forget(n) /\ checked[n] # NULL
  BY DEF RemoveLatestMsg
<1>2. /\ latest = checked[n] /\ notifier[latest.c] = n
      /\ latest.s = first[latest.c][latest.k] /\ num[latest.c][latest.k] > 0
  BY <1>1 DEF IInv, Checked
<1>3. PICK c \in Classes, k \in Kinds, s \in Slots :
         c = latest.c /\ k = latest.k /\ s = latest.s
  BY <1>1, <1>2 DEF IInv, ClassTyped, LinksTyped, Latest
<1>4. num[c][k] \in Nat
  BY DEF IInv, PoolTyped
<1>5. Dequeue(c, k, s)
  BY <1>2, <1>3, <1>4 DEF RemoveLatestMsg
<1> QED
  BY <1>1, <1>2, <1>3, <1>5, DequeueStep

LEMMA StutterIInv ==
  ASSUME IInv, UNCHANGED data
  PROVE  IInv'
<1>1. /\ UNCHANGED <<pool, first, end, num>> /\ UNCHANGED <<status, checked, latest>>
      /\ UNCHANGED <<size, notifier, nextq, qfirst>>
  BY DEF data
<1>2. PICK Q : Lists(Q)
  BY DEF IInv
<1>3. Lists(Q)'
  BY <1>1, <1>2, ListsFrame
<1>4. PoolTyped' /\ ClassTyped' /\ Registered' /\ Checked'
  BY <1>1 DEF IInv, PoolTyped, ClassTyped, LinksTyped, Registered, Checked
<1>5. Owners'
  BY <1>1 DEF IInv, Owners, Owns
<1> QED
  BY <1>3, <1>4, <1>5 DEF IInv

LEMMA AloneIInv ==
  ASSUME IInv, ~Takeover, OneChecker, [Alone]_data
  PROVE  IInv'
BY RegisterMSGStep, UnRegisterMSGStep, UnRegisterMSGQStep, ClearMSGStep, AddMSGStep,
   RecvMsgStep, CheckMsgStep, RemoveLatestMsgStep, StutterIInv DEF Alone

-----------------------------------------------------------------------------
(* Slots that are reserved are there.                                      *)

\* u16RegistedSlots is the sum of the sizes, which the pool can hold.
Sized ==
  /\ size \in [Classes -> {0} \cup Sizes]
  /\ registed = Cardinality(Cells(size, Classes)) /\ registed <= u16Slots
  /\ \A c \in Classes : notifier[c] = NULL => size[c] = 0

\* A class has no more messages than its size, and is OVERFLOW when it is full.
Room ==
  \A c \in Classes :
    /\ Total(c) <= size[c]
    /\ notifier[c] # NULL =>
         /\ size[c] > 0 /\ status[c] # "INVALID"
         /\ status[c] = "OVERFLOW" <=> Total(c) >= size[c]

\* Slot s has message p[2] of class p[1], instant messages counted last.
At(Q, s, p) ==
  \E d \in Classes, k \in Kinds : \E i \in 1 .. num[d][k] :
    /\ s = Q[d][k][i]
    /\ p = <<d, IF k = "NORMAL" THEN i ELSE num[d]["NORMAL"] + i>>

LEMMA SizesTyped ==
  ASSUME Sized
  PROVE  size \in [Classes -> Nat]
<1>1. size \in [Classes -> {0} \cup Sizes]
  BY DEF Sized
<1>2. \A s \in {0} \cup Sizes : s \in Nat
  BY SizesAssumption
<1>3. \A c \in Classes : size[c] \in Nat
  BY <1>1, <1>2
<1> QED
  BY <1>1, <1>3

LEMMA TotalTyped ==
  ASSUME PoolTyped, NEW c \in Classes
  PROVE  /\ num[c]["NORMAL"] \in Nat /\ num[c]["INSTANT"] \in Nat
         /\ Total(c) = num[c]["NORMAL"] + num[c]["INSTANT"] /\ Total(c) \in Nat
<1>1. num[c]["NORMAL"] \in Nat /\ num[c]["INSTANT"] \in Nat
  BY DEF PoolTyped, Kinds
<1> QED
  BY <1>1 DEF Total

\* No two slots have the same message.
LEMMA AtOnce ==
  ASSUME PoolTyped, NEW Q, Lists(Q), NEW s, NEW t, NEW p, At(Q, s, p), At(Q, t, p)
  PROVE  s = t
<1>1. PICK d \in Classes, k \in Kinds :
         \E i \in 1 .. num[d][k] : s = Q[d][k][i]
           /\ p = <<d, IF k = "NORMAL" THEN i ELSE num[d]["NORMAL"] + i>>
  BY DEF At
<1>2. PICK i \in 1 .. num[d][k] : s = Q[d][k][i]
         /\ p = <<d, IF k = "NORMAL" THEN i ELSE num[d]["NORMAL"] + i>>
  BY <1>1
<1>3. PICK e \in Classes, l \in Kinds :
         \E j \in 1 .. num[e][l] : t = Q[e][l][j]
           /\ p = <<e, IF l = "NORMAL" THEN j ELSE num[e]["NORMAL"] + j>>
  BY DEF At
<1>4. PICK j \in 1 .. num[e][l] : t = Q[e][l][j]
         /\ p = <<e, IF l = "NORMAL" THEN j ELSE num[e]["NORMAL"] + j>>
  BY <1>3
<1>5. d = e
  BY <1>2, <1>4
<1>6. num[d]["NORMAL"] \in Nat /\ num[d]["INSTANT"] \in Nat
  BY TotalTyped
<1>7. (IF k = "NORMAL" THEN i ELSE num[d]["NORMAL"] + i) =
      (IF l = "NORMAL" THEN j ELSE num[d]["NORMAL"] + j)
  BY <1>2, <1>4, <1>5
<1>8. i \in Nat /\ j \in Nat /\ 1 <= i /\ 1 <= j /\ i <= num[d][k] /\ j <= num[d][l]
  BY <1>5, <1>6 DEF Kinds
<1>9. k = l /\ i = j
  <2>1. CASE k = "NORMAL" /\ l = "NORMAL"
    BY <1>7, <2>1
  <2>2. CASE k = "INSTANT" /\ l = "INSTANT"
    BY <1>6, <1>7, <1>8, <2>2
  <2>3. CASE k = "NORMAL" /\ l = "INSTANT"
    BY <1>6, <1>7, <1>8, <2>3
  <2>4. CASE k = "INSTANT" /\ l = "NORMAL"
    BY <1>6, <1>7, <1>8, <2>4
  <2> QED
    BY <2>1, <2>2, <2>3, <2>4 DEF Kinds
<1> QED
  BY <1>2, <1>4, <1>5, <1>9

\* A class that has room left finds a free slot.
LEMMA RoomIsFree ==
  ASSUME PoolTyped, NEW Q, Lists(Q), Sized,
         \A d \in Classes : Total(d) <= size[d],
         NEW c \in Classes, Total(c) < size[c]
  PROVE  pool.free > 0
<1>1. size \in [Classes -> Nat]
  BY SizesTyped
<1>2. PICK n \in Nat : n = size[c]
  BY <1>1
<1>3. PICK A : A = Cells(size, Classes)
  OBVIOUS
<1>4. IsFiniteSet(A)
  BY <1>1, <1>3, ClassesAssumption, CellsFinite
<1>5. <<c, n>> \in A
  BY <1>2, <1>3, TotalTyped DEF Cells
<1>6. PICK B : B = A \ {<<c, n>>}
  OBVIOUS
<1>7. IsFiniteSet(B) /\ Cardinality(B) = Cardinality(A) - 1
  BY <1>4, <1>5, <1>6, FS_RemoveElement
<1>8. ASSUME NEW s \in pool.used PROVE \E p \in B : At(Q, s, p)
  <2>1. s \in Slots
    BY DEF PoolTyped
  <2>2. PICK d \in Classes, k \in Kinds : s \in Elems(Q[d][k])
    BY <2>1 DEF Lists
  <2>3. Len(Q[d][k]) = num[d][k]
    BY DEF Lists, IsList
  <2>4. PICK i \in 1 .. num[d][k] : s = Q[d][k][i]
    BY <2>2, <2>3 DEF Elems
  <2>5. PICK j : j = IF k = "NORMAL" THEN i ELSE num[d]["NORMAL"] + i
    OBVIOUS
  <2>6. /\ num[d]["NORMAL"] \in Nat /\ num[d]["INSTANT"] \in Nat
        /\ Total(d) = num[d]["NORMAL"] + num[d]["INSTANT"]
    BY TotalTyped
  <2>7. j \in Nat /\ 1 <= j /\ j <= Total(d)
    <3>1. CASE k = "NORMAL"
      BY <2>5, <2>6, <3>1
    <3>2. CASE k = "INSTANT"
      BY <2>5, <2>6, <3>2
    <3> QED
      BY <3>1, <3>2 DEF Kinds
  <2>8. Total(d) \in Nat /\ size[d] \in Nat /\ Total(d) <= size[d]
    BY <1>1, TotalTyped
  <2>9. <<d, j>> \in A
    BY <1>3, <2>7, <2>8 DEF Cells
  <2>10. <<d, j>> # <<c, n>>
    BY <1>2, <2>7, <2>8
  <2>11. At(Q, s, <<d, j>>)
    BY <2>4, <2>5 DEF At
  <2> QED
    BY <1>6, <2>9, <2>10, <2>11
<1> DEFINE f == [s \in pool.used |-> CHOOSE p \in B : At(Q, s, p)]
<1>9. \A s \in pool.used : f[s] \in B /\ At(Q, s, f[s])
  BY <1>8
<1>10. f \in [pool.used -> B]
  BY <1>9
<1> HIDE DEF f
<1>11. f \in Injection(pool.used, B)
  <2>1. \A s, t \in pool.used : f[s] = f[t] => s = t
    BY <1>9, AtOnce
  <2> QED
    BY <1>10, <2>1 DEF Injection, IsInjective
<1>12. Cardinality(pool.used) <= Cardinality(B)
  BY <1>7, <1>11, FS_Injection
<1>13. /\ Cardinality(pool.used) \in Nat /\ Cardinality(A) \in Nat /\ Cardinality(B) \in Nat
       /\ Cardinality(A) <= u16Slots /\ u16Slots \in Nat
       /\ pool.free = u16Slots - Cardinality(pool.used)
  BY <1>3, <1>4, <1>7, FS_CardinalityType, UsedFinite, SlotsFinite DEF Sized, Lists
<1> QED
  BY <1>7, <1>12, <1>13

LEMMA InitSized ==
  ASSUME Init
  PROVE  Sized /\ Room
<1>1. size = [c \in Classes |-> 0] /\ registed = 0
  BY DEF Init
<1>2. Cells(size, Classes) = {}
  BY <1>1 DEF Cells
<1>3. Cardinality(Cells(size, Classes)) = 0 /\ 0 <= u16Slots
  BY <1>2, FS_EmptySet, SlotsFinite
<1>4. Sized
  BY <1>1, <1>3 DEF Sized
<1>5. ASSUME NEW c \in Classes PROVE Total(c) = 0 /\ notifier[c] = NULL
  BY DEF Init, Total, NoMsg, Kinds
<1> QED
  BY <1>1, <1>4, <1>5 DEF Room

LEMMA SizedFrame ==
  ASSUME Sized, UNCHANGED classes
  PROVE  Sized'
BY DEF Sized, classes

LEMMA RefuseRoom ==
  ASSUME Sized, Room, NEW e, Refuse(e)
  PROVE  Sized' /\ Room'
<1>1. UNCHANGED classes /\ UNCHANGED <<num, size, notifier, status>>
  BY DEF Refuse, lists, classes
<1> QED
  BY <1>1, SizedFrame DEF Room, Total

\* One count of a class goes up or down.
LEMMA TotalCount ==
  ASSUME PoolTyped, NEW c \in Classes, NEW k \in Kinds, NEW v \in Int,
         num' = [num EXCEPT ![c][k] = num[c][k] + v]
  PROVE  /\ Total(c)' = Total(c) + v
         /\ \A d \in Classes : d # c => Total(d)' = Total(d)
<1>1. num \in [Classes -> [Kinds -> Nat]]
  BY DEF PoolTyped
<1>2. /\ num'[c][k] = num[c][k] + v /\ \A l \in Kinds : l # k => num'[c][l] = num[c][l]
      /\ \A d \in Classes : d # c => num'[d] = num[d]
  BY <1>1
<1>3. num[c]["NORMAL"] \in Nat /\ num[c]["INSTANT"] \in Nat
  BY TotalTyped
<1>4. num'[c]["NORMAL"] + num'[c]["INSTANT"] = (num[c]["NORMAL"] + num[c]["INSTANT"]) + v
  <2>1. CASE k = "NORMAL"
    BY <1>2, <1>3, <2>1 DEF Kinds
  <2>2. CASE k = "INSTANT"
    BY <1>2, <1>3, <2>2 DEF Kinds
  <2> QED
    BY <2>1, <2>2 DEF Kinds
<1> QED
  BY <1>2, <1>4 DEF Total

\* Messages come to or leave one class.
LEMMA RoomChange ==
  ASSUME Room, NEW c \in Classes, UNCHANGED <<size, notifier>>,
         \A d \in Classes : d # c => Total(d)' = Total(d) /\ status'[d] = status[d],
         Total(c)' <= size[c], size[c] > 0, status'[c] # "INVALID",
         status'[c] = "OVERFLOW" <=> Total(c)' >= size[c]
  PROVE  Room'
<1>1. ASSUME NEW d \in Classes
      PROVE  /\ Total(d)' <= size'[d]
             /\ notifier'[d] # NULL =>
                  /\ size'[d] > 0 /\ status'[d] # "INVALID"
                  /\ status'[d] = "OVERFLOW" <=> Total(d)' >= size'[d]
  <2>1. CASE d = c
    BY <2>1
  <2>2. CASE d # c
    BY <2>2 DEF Room
  <2> QED
    BY <2>1, <2>2
<1> QED
  BY <1>1 DEF Room

LEMMA RegisterMSGRoom ==
  ASSUME IInv, ~Takeover, Sized, Room, NEW n \in Clients, NEW c \in Classes, NEW s \in Sizes,
         RegisterMSG(n, c, s)
  PROVE  Sized' /\ Room'
<1>1. CASE \E e : Refuse(e)
  BY <1>1, RefuseRoom
<1>2. CASE notifier[c] = NULL /\ ~(registed + s > u16Slots)
           /\ registed' = registed + s /\ Register_NotifyID(n, c, s)
  <2>1. /\ num' = [num EXCEPT ![c] = NoMsg] /\ status' = [status EXCEPT ![c] = "EMPTY"]
        /\ size' = [size EXCEPT ![c] = s] /\ notifier' = [notifier EXCEPT ![c] = n]
    BY <1>2 DEF Register_NotifyID
  <2>2. size \in [Classes -> Nat] /\ size[c] = 0 /\ s \in Nat /\ s > 0 /\ n # NULL
    BY <1>2, SizesTyped, SizesAssumption, NullAssumption DEF Sized
  <2>3. PICK y, z : y = size' /\ z = size
    OBVIOUS
  <2>4. Cardinality(Cells(y, Classes)) = Cardinality(Cells(z, Classes)) + s
    BY <2>1, <2>2, <2>3, ClassesAssumption, CellsSet
  <2>5. registed' = Cardinality(Cells(size', Classes)) /\ registed' <= u16Slots
    <3>1. registed = Cardinality(Cells(z, Classes)) /\ registed \in Nat
      <4>1. IsFiniteSet(Cells(z, Classes))
        BY <2>2, <2>3, ClassesAssumption, CellsFinite
      <4> QED
        BY <2>3, <4>1, FS_CardinalityType DEF Sized
    <3>2. registed + s <= u16Slots
      BY <1>2, <2>2, <3>1, SlotsFinite
    <3> QED
      BY <1>2, <2>3, <2>4, <3>1, <3>2
  <2>6. size' \in [Classes -> {0} \cup Sizes]
    BY <2>1 DEF Sized
  <2>7. Sized'
    BY <2>1, <2>2, <2>5, <2>6 DEF Sized, IInv, ClassTyped, LinksTyped
  <2>8. ASSUME NEW d \in Classes
        PROVE  /\ Total(d)' <= size'[d]
               /\ notifier'[d] # NULL =>
                    /\ size'[d] > 0 /\ status'[d] # "INVALID"
                    /\ status'[d] = "OVERFLOW" <=> Total(d)' >= size'[d]
    <3>1. CASE d # c
      <4>1. Total(d)' = Total(d)
        BY <2>1, <3>1 DEF Total, IInv, PoolTyped
      <4>2. size'[d] = size[d] /\ notifier'[d] = notifier[d] /\ status'[d] = status[d]
        BY <2>1, <3>1 DEF IInv, ClassTyped, LinksTyped
      <4> QED
        BY <4>1, <4>2 DEF Room
    <3>2. CASE d = c
      <4>1. num'[d]["NORMAL"] = 0 /\ num'[d]["INSTANT"] = 0
        BY <2>1, <3>2 DEF IInv, PoolTyped, NoMsg, Kinds
      <4>2. Total(d)' = 0
        BY <4>1 DEF Total
      <4>3. size'[d] = s /\ status'[d] = "EMPTY"
        BY <2>1, <3>2 DEF IInv, ClassTyped, LinksTyped
      <4> QED
        BY <2>2, <4>2, <4>3
    <3> QED
      BY <3>1, <3>2
  <2> QED
    BY <2>7, <2>8 DEF Room
<1> QED
  BY <1>1, <1>2 DEF RegisterMSG

\* What is given back was reserved.
LEMMA FreeMSGRoom ==
  ASSUME IInv, Sized, Room, NEW cs \in SUBSET Classes, FreeMSG(cs)
  PROVE  Sized' /\ Room'
<1>1. /\ registed' = registed - MapThenSumSet(LAMBDA c : size[c], cs)
      /\ num' = [c \in Classes |-> IF c \in cs THEN NoMsg ELSE num[c]]
      /\ status' = [c \in Classes |-> IF c \in cs THEN "INVALID" ELSE status[c]]
      /\ size' = [c \in Classes |-> IF c \in cs THEN 0 ELSE size[c]]
      /\ notifier' = [c \in Classes |-> IF c \in cs THEN NULL ELSE notifier[c]]
  BY DEF FreeMSG
<1>2. size \in [Classes -> Nat]
  BY SizesTyped
<1>3. MapThenSumSet(LAMBDA c : size[c], cs) = SumOf(size, cs)
  BY SumOfSizes
<1>4. registed' = registed - SumOf(size, cs)
  BY <1>1, <1>3
<1>5. PICK y, z : y = size' /\ z = size
  OBVIOUS
<1>6. SumOf(z, cs) = Cardinality(Cells(z, cs))
  BY <1>2, <1>5, ClassesAssumption, SumIs
<1>7. /\ Cardinality(Cells(y, Classes)) = Cardinality(Cells(z, Classes)) - Cardinality(Cells(z, cs))
      /\ Cardinality(Cells(y, Classes)) \in Nat /\ Cardinality(Cells(z, Classes)) \in Nat
      /\ Cardinality(Cells(z, cs)) \in Nat
  BY <1>1, <1>2, <1>5, ClassesAssumption, CellsReset
<1>8. registed' = Cardinality(Cells(size', Classes)) /\ registed' <= u16Slots
  BY <1>4, <1>5, <1>6, <1>7, SlotsFinite DEF Sized
<1>9. size' \in [Classes -> {0} \cup Sizes]
  BY <1>1 DEF Sized
<1>10. Sized'
  BY <1>1, <1>8, <1>9 DEF Sized
<1>11. ASSUME NEW d \in Classes
       PROVE  /\ Total(d)' <= size'[d]
              /\ notifier'[d] # NULL =>
                   /\ size'[d] > 0 /\ status'[d] # "INVALID"
                   /\ status'[d] = "OVERFLOW" <=> Total(d)' >= size'[d]
  <2>1. CASE d \notin cs
    <3>1. Total(d)' = Total(d) /\ size'[d] = size[d]
      BY <1>1, <2>1 DEF Total
    <3>2. notifier'[d] = notifier[d] /\ status'[d] = status[d]
      BY <1>1, <2>1
    <3> QED
      BY <3>1, <3>2 DEF Room
  <2>2. CASE d \in cs
    <3>1. num'[d]["NORMAL"] = 0 /\ num'[d]["INSTANT"] = 0
      BY <1>1, <2>2 DEF NoMsg, Kinds
    <3>2. Total(d)' = 0 /\ size'[d] = 0 /\ notifier'[d] = NULL
      BY <1>1, <2>2, <3>1 DEF Total
    <3> QED
      BY <3>2
  <2> QED
    BY <2>1, <2>2
<1> QED
  BY <1>10, <1>11 DEF Room

LEMMA UnRegisterRoom ==
  ASSUME IInv, Sized, Room, NEW n \in Clients, NEW force,
         \/ \E c \in Classes : UnRegisterMSG(n, c, force)
         \/ UnRegisterMSGQ(n, force)
  PROVE  Sized' /\ Room'
<1>1. CASE \E e : Refuse(e)
  BY <1>1, RefuseRoom
<1>2. ASSUME NEW c \in Classes, FreeMSG({c}) PROVE Sized' /\ Room'
  <2>1. PICK cs \in SUBSET Classes : cs = {c}
    OBVIOUS
  <2> QED
    BY <1>2, <2>1, FreeMSGRoom
<1>3. CASE FreeMSG(Chain(nextq, qfirst[n]))
  <2>1. PICK cs \in SUBSET Classes : cs = Chain(nextq, qfirst[n])
    BY ChainOfOwner DEF IInv, ClassTyped
  <2> QED
    BY <1>3, <2>1, FreeMSGRoom
<1>4. CASE \E c \in Classes : UnRegisterMSG(n, c, force)
  BY <1>1, <1>2, <1>4 DEF UnRegisterMSG
<1>5. CASE UnRegisterMSGQ(n, force)
  BY <1>1, <1>3, <1>5 DEF UnRegisterMSGQ
<1> QED
  BY <1>4, <1>5

LEMMA ClearMSGRoom ==
  ASSUME IInv, Sized, Room, NEW n \in Clients, NEW c \in Classes, ClearMSG(n, c)
  PROVE  Sized' /\ Room'
<1>1. CASE \E e : Refuse(e)
  BY <1>1, RefuseRoom
<1>2. CASE /\ notifier[c] = n /\ num' = [num EXCEPT ![c] = NoMsg]
           /\ status' = [status EXCEPT ![c] = "EMPTY"] /\ UNCHANGED classes
  <2>1. UNCHANGED <<size, notifier>> /\ Sized'
    BY <1>2, SizedFrame DEF classes
  <2>2. ASSUME NEW d \in Classes, d # c PROVE Total(d)' = Total(d) /\ status'[d] = status[d]
    BY <1>2, <2>2 DEF Total, IInv, PoolTyped, ClassTyped, LinksTyped
  <2>3. num'[c]["NORMAL"] = 0 /\ num'[c]["INSTANT"] = 0 /\ status'[c] = "EMPTY"
    BY <1>2 DEF IInv, PoolTyped, ClassTyped, LinksTyped, NoMsg, Kinds
  <2>4. Total(c)' = 0
    BY <2>3 DEF Total
  <2>5. size[c] \in Nat /\ size[c] > 0
    BY <1>2, SizesTyped, NullAssumption DEF Room
  <2>6. Room'
    BY <2>1, <2>2, <2>3, <2>4, <2>5, RoomChange
  <2> QED
    BY <2>1, <2>6
<1> QED
  BY <1>1, <1>2 DEF ClearMSG

LEMMA AddMSGRoom ==
  ASSUME IInv, Sized, Room, NEW c \in Classes, NEW k \in Kinds, NEW m \in Contents,
         AddMSG(c, k, m)
  PROVE  Sized' /\ Room'
<1>1. CASE \E e : Refuse(e)
  BY <1>1, RefuseRoom
<1>2. CASE /\ status[c] \in {"NORMAL", "EMPTY"} /\ num' = [num EXCEPT ![c][k] = @ + 1]
           /\ status' = [status EXCEPT ![c] =
                IF Total(c) + 1 >= size[c] THEN "OVERFLOW" ELSE "NORMAL"]
           /\ UNCHANGED classes
  <2>1. UNCHANGED <<size, notifier>> /\ Sized'
    BY <1>2, SizedFrame DEF classes
  <2>2. num' = [num EXCEPT ![c][k] = num[c][k] + 1]
    BY <1>2 DEF IInv, PoolTyped
  <2>3. Total(c)' = Total(c) + 1 /\ \A d \in Classes : d # c => Total(d)' = Total(d)
    <3>1. PICK v \in Int : v = 1
      OBVIOUS
    <3>2. num' = [num EXCEPT ![c][k] = num[c][k] + v]
      BY <2>2, <3>1
    <3>3. Total(c)' = Total(c) + v /\ \A d \in Classes : d # c => Total(d)' = Total(d)
      BY <3>2, TotalCount DEF IInv
    <3> QED
      BY <3>1, <3>3
  <2>4. notifier[c] # NULL
    BY <1>2 DEF IInv, Registered
  <2>5. size[c] \in Nat /\ size[c] > 0 /\ Total(c) \in Nat /\ ~(Total(c) >= size[c])
    BY <1>2, <2>4, SizesTyped, TotalTyped DEF Room, IInv
  <2>6. /\ status'[c] = IF Total(c) + 1 >= size[c] THEN "OVERFLOW" ELSE "NORMAL"
        /\ \A d \in Classes : d # c => status'[d] = status[d]
    BY <1>2 DEF IInv, ClassTyped, LinksTyped
  <2>7. /\ status'[c] # "INVALID" /\ Total(c)' <= size[c]
        /\ status'[c] = "OVERFLOW" <=> Total(c)' >= size[c]
    BY <2>3, <2>5, <2>6
  <2>8. Room'
    BY <2>1, <2>3, <2>5, <2>6, <2>7, RoomChange
  <2> QED
    BY <2>1, <2>8
<1> QED
  BY <1>1, <1>2 DEF AddMSG

\* The status after a receive tells whether the class is full.
LEMMA ReceiveRoom ==
  ASSUME IInv, Sized, Room, NEW c \in Classes, notifier[c] # NULL, UNCHANGED classes,
         NEW i \in Nat, i = Total(c) \/ i = Total(c) - 1, Total(c)' = i,
         \A d \in Classes : d # c => Total(d)' = Total(d),
         status' = [status EXCEPT ![c] = StatusAfterRecv(c, i)]
  PROVE  Sized' /\ Room'
<1>1. UNCHANGED <<size, notifier>> /\ Sized'
  BY SizedFrame DEF classes
<1>2. /\ size[c] \in Nat /\ size[c] > 0 /\ Total(c) \in Nat /\ Total(c) <= size[c]
      /\ status[c] # "INVALID" /\ (status[c] = "OVERFLOW" <=> Total(c) >= size[c])
  BY SizesTyped, TotalTyped DEF Room, IInv
<1>3. /\ status'[c] = StatusAfterRecv(c, i)
      /\ \A d \in Classes : d # c => status'[d] = status[d]
  BY DEF IInv, ClassTyped, LinksTyped
<1>4. /\ status'[c] # "INVALID" /\ Total(c)' <= size[c]
      /\ status'[c] = "OVERFLOW" <=> Total(c)' >= size[c]
  BY <1>2, <1>3 DEF StatusAfterRecv
<1>5. Room'
  BY <1>1, <1>2, <1>3, <1>4, RoomChange
<1> QED
  BY <1>1, <1>5

LEMMA DequeueRoom ==
  ASSUME IInv, Sized, Room, NEW c \in Classes, NEW k \in Kinds, notifier[c] # NULL,
         num[c][k] > 0, NEW s, Dequeue(c, k, s)
  PROVE  Sized' /\ Room'
<1>1. /\ num' = [num EXCEPT ![c][k] = @ - 1] /\ UNCHANGED classes
      /\ status' = [status EXCEPT ![c] = StatusAfterRecv(c, Total(c) - 1)]
  BY DEF Dequeue
<1>2. num[c][k] \in Nat /\ num[c][k] - 1 = num[c][k] + (-1) /\ -1 \in Int
  BY DEF IInv, PoolTyped
<1>3. num' = [num EXCEPT ![c][k] = num[c][k] + (-1)]
  BY <1>1, <1>2 DEF IInv, PoolTyped
<1>4. Total(c)' = Total(c) + (-1) /\ \A d \in Classes : d # c => Total(d)' = Total(d)
  BY <1>2, <1>3, TotalCount DEF IInv
<1>5. Total(c) - 1 \in Nat
  BY TotalTyped DEF IInv, Kinds
<1>6. Total(c) \in Nat /\ Total(c)' = Total(c) - 1
  BY <1>4, TotalTyped DEF IInv
<1>7. PICK i \in Nat : i = Total(c) - 1
  BY <1>5
<1> QED
  BY <1>1, <1>4, <1>6, <1>7, ReceiveRoom

\* Nothing but a status, which is refreshed.
LEMMA RefreshRoom ==
  ASSUME IInv, Sized, Room, NEW c \in Classes, notifier[c] # NULL,
         status' = [status EXCEPT ![c] = StatusAfterRecv(c, Total(c))],
         num' = num, UNCHANGED classes
  PROVE  Sized' /\ Room'
<1>1. PICK i \in Nat : i = Total(c)
  BY TotalTyped DEF IInv
<1>2. \A d \in Classes : Total(d)' = Total(d)
  BY DEF Total
<1> QED
  BY <1>1, <1>2, ReceiveRoom

LEMMA ReceiversRoom ==
  ASSUME IInv, Sized, Room, NEW n \in Clients,
         \/ \E c \in Classes, k \in Kinds : RecvMsg(n, c, k) \/ CheckMsg(n, c, k)
         \/ RemoveLatestMsg(n)
  PROVE  Sized' /\ Room'
<1>1. CASE \E e : Refuse(e)
  BY <1>1, RefuseRoom
<1>2. ASSUME NEW c \in Classes, notifier[c] # NULL, NothingFound(c) PROVE Sized' /\ Room'
  BY <1>2, RefreshRoom DEF NothingFound
<1>3. ASSUME NEW c \in Classes, NEW k \in Kinds, RecvMsg(n, c, k) PROVE Sized' /\ Room'
  BY <1>1, <1>2, <1>3, DequeueRoom DEF RecvMsg
<1>4. ASSUME NEW c \in Classes, NEW k \in Kinds, CheckMsg(n, c, k) PROVE Sized' /\ Room'
  BY <1>1, <1>2, <1>4, RefreshRoom DEF CheckMsg
<1>5. CASE RemoveLatestMsg(n)
  <2>1. checked[n] # NULL
    BY <1>5 DEF RemoveLatestMsg
  <2>2. latest = checked[n] /\ notifier[latest.c] = n /\ num[latest.c][latest.k] > 0
    BY <2>1 DEF IInv, Checked
  <2>3. latest.c \in Classes /\ latest.k \in Kinds
    BY <2>1, <2>2 DEF IInv, ClassTyped, LinksTyped, Latest
  <2>4. num[latest.c][latest.k] \in Nat /\ notifier[latest.c] # NULL
    BY <2>2, <2>3, NullAssumption DEF IInv, PoolTyped
  <2>5. Dequeue(latest.c, latest.k, latest.s)
    BY <1>5, <2>2, <2>4 DEF RemoveLatestMsg
  <2> QED
    BY <2>2, <2>3, <2>4, <2>5, DequeueRoom
<1> QED
  BY <1>3, <1>4, <1>5

LEMMA AloneRoom ==
  ASSUME IInv, ~Takeover, Sized, Room, [Alone]_data
  PROVE  Sized' /\ Room'
<1>1. CASE Alone
  BY <1>1, RegisterMSGRoom, UnRegisterRoom, ClearMSGRoom, AddMSGRoom, ReceiversRoom DEF Alone
<1>2. CASE UNCHANGED data
  <2>1. UNCHANGED classes /\ UNCHANGED <<num, size, notifier, status>>
    BY <1>2 DEF data, classes
  <2> QED
    BY <2>1, SizedFrame DEF Room, Total
<1> QED
  BY <1>1, <1>2

-----------------------------------------------------------------------------
(* The messages of a class, for MbxQueues.                                 *)

Msgs == [c \in Classes |-> [k \in Kinds |-> MsgsOf(c, k)]]

\* As many messages as there are, found by following links, and by the list.
Linkwise(next, s, n, msg) == [i \in 1 .. n |-> msg[Follow(next, s)[i - 1]]]
Listwise(q, n, msg) == [i \in 1 .. n |-> msg[q[i]]]

LEMMA MsgsOnPath ==
  ASSUME NEW next \in [Slots -> Slots \cup {NULL}], NEW s, NEW q \in Seq(Slots),
         Path(next, s, q), NEW n, n = Len(q), NEW msg
  PROVE  Linkwise(next, s, n, msg) = Listwise(q, n, msg)
<1>1. PICK m \in Nat : m = Cardinality(Slots)
  BY SlotsFinite
<1>2. PICK at : at = Follow(next, s)
  OBVIOUS
<1>3. \A i \in 0 .. m : at[i] = IF i < Len(q) THEN q[i + 1] ELSE NULL
  <2>1. NULL \notin Slots /\ IsFiniteSet(Slots)
    BY SlotsFinite
  <2>2. \A i \in 0 .. Cardinality(Slots) :
           Follow(next, s)[i] = IF i < Len(q) THEN q[i + 1] ELSE NULL
    BY <2>1, FollowPath
  <2> QED
    BY <1>1, <1>2, <2>2
<1>4. n \in Nat /\ n <= m
  BY <1>1, SlotsFinite, PathLength
<1>5. ASSUME NEW i \in 1 .. n PROVE at[i - 1] = q[i]
  <2>1. i - 1 \in 0 .. m /\ i - 1 < Len(q) /\ (i - 1) + 1 = i
    BY <1>4
  <2> QED
    BY <1>3, <2>1
<1> QED
  BY <1>2, <1>5 DEF Linkwise, Listwise

\* The messages are those of the slots of the list, now and after a step.
LEMMA MsgsNow ==
  ASSUME PoolTyped, NEW Q, Lists(Q), NEW c \in Classes, NEW k \in Kinds
  PROVE  MsgsOf(c, k) = [i \in 1 .. num[c][k] |-> pool.msg[Q[c][k][i]]]
<1>1. PICK next, msg, s, n, q :
         /\ next = pool.next /\ msg = pool.msg /\ s = first[c][k] /\ n = num[c][k]
         /\ q = Q[c][k]
  OBVIOUS
<1>2. /\ next \in [Slots -> Slots \cup {NULL}] /\ q \in Seq(Slots)
      /\ Path(next, s, q) /\ n = Len(q)
  BY <1>1 DEF PoolTyped, Lists, IsList
<1>3. Linkwise(next, s, n, msg) = Listwise(q, n, msg)
  BY <1>2, MsgsOnPath
<1> QED
  BY <1>1, <1>3 DEF MsgsOf, Linkwise, Listwise

LEMMA MsgsThen ==
  ASSUME PoolTyped', NEW R, Lists(R)', NEW c \in Classes, NEW k \in Kinds
  PROVE  MsgsOf(c, k)' = [i \in 1 .. num'[c][k] |-> pool'.msg[R[c][k][i]]]
<1>1. PICK next, msg, s, n, q :
         /\ next = pool'.next /\ msg = pool'.msg /\ s = first'[c][k] /\ n = num'[c][k]
         /\ q = R[c][k]
  OBVIOUS
<1>2. /\ next \in [Slots -> Slots \cup {NULL}] /\ q \in Seq(Slots)
      /\ Path(next, s, q) /\ n = Len(q)
  BY <1>1 DEF PoolTyped, Lists, IsList
<1>3. Linkwise(next, s, n, msg) = Listwise(q, n, msg)
  BY <1>2, MsgsOnPath
<1>4. MsgsOf(c, k)' = Linkwise(next, s, n, msg)
  BY <1>1 DEF MsgsOf, Linkwise
<1> QED
  BY <1>1, <1>3, <1>4 DEF Listwise

\* A sequence of messages, whose first one is in the first slot.
LEMMA MsgsTyped ==
  ASSUME PoolTyped, NEW Q, Lists(Q), NEW c \in Classes, NEW k \in Kinds
  PROVE  /\ MsgsOf(c, k) \in Seq(Contents \cup {NULL})
         /\ Len(MsgsOf(c, k)) = num[c][k]
         /\ MsgsOf(c, k) = <<>> <=> num[c][k] = 0
         /\ num[c][k] > 0 => Head(MsgsOf(c, k)) = pool.msg[first[c][k]]
<1>1. PICK n \in Nat, q \in Seq(Slots) : n = num[c][k] /\ q = Q[c][k]
  BY DEF PoolTyped, Lists
<1>2. Path(pool.next, first[c][k], q) /\ Len(q) = n
  BY <1>1 DEF Lists, IsList
<1>3. PICK w : w = MsgsOf(c, k)
  OBVIOUS
<1>4. w = [i \in 1 .. n |-> pool.msg[q[i]]]
  BY <1>1, <1>3, MsgsNow
<1>5. pool.msg \in [Slots -> Contents \cup {NULL}] /\ \A i \in 1 .. n : q[i] \in Slots
  BY <1>2 DEF PoolTyped
<1>6. w \in [1 .. n -> Contents \cup {NULL}]
  BY <1>4, <1>5
<1>7. w \in Seq(Contents \cup {NULL}) /\ Len(w) = n
  BY <1>6
<1>8. n > 0 => Head(w) = pool.msg[first[c][k]]
  <2>1. SUFFICES ASSUME n > 0 PROVE Head(w) = pool.msg[first[c][k]]
    OBVIOUS
  <2>2. first[c][k] = q[1] /\ 1 \in 1 .. n
    BY <1>2, <2>1 DEF Path
  <2>3. Head(w) = w[1]
    BY <1>7
  <2> QED
    BY <1>4, <2>2, <2>3
<1>9. w = <<>> <=> n = 0
  BY <1>7
<1> QED
  BY <1>1, <1>3, <1>7, <1>8, <1>9

\* The messages of a list that stays, in slots that keep them.
LEMMA MsgsKept ==
  ASSUME PoolTyped, NEW Q, Lists(Q), PoolTyped', NEW R, Lists(R)',
         NEW c \in Classes, NEW k \in Kinds, R[c][k] = Q[c][k],
         \A x \in Elems(Q[c][k]) : pool'.msg[x] = pool.msg[x]
  PROVE  MsgsOf(c, k)' = MsgsOf(c, k)
<1>1. PICK q : q = Q[c][k]
  OBVIOUS
<1>2. Len(q) = num[c][k] /\ Len(q) = num'[c][k]
  BY <1>1 DEF Lists, IsList
<1>3. \A i \in 1 .. num[c][k] : pool'.msg[q[i]] = pool.msg[q[i]]
  BY <1>1, <1>2 DEF Elems
<1>4. MsgsOf(c, k) = [i \in 1 .. num[c][k] |-> pool.msg[q[i]]]
  BY <1>1, MsgsNow
<1>5. MsgsOf(c, k)' = [i \in 1 .. num[c][k] |-> pool'.msg[q[i]]]
  <2>1. MsgsOf(c, k)' = [i \in 1 .. num'[c][k] |-> pool'.msg[R[c][k][i]]]
    BY MsgsThen
  <2> QED
    BY <1>1, <1>2, <2>1
<1> QED
  BY <1>3, <1>4, <1>5

\* Slots in use after a step that only gives slots back.
LEMMA MsgsFreed ==
  ASSUME PoolTyped, NEW Q, Lists(Q), PoolTyped', NEW R, Lists(R)', Kept,
         NEW c \in Classes, NEW k \in Kinds, R[c][k] = Q[c][k]
  PROVE  MsgsOf(c, k)' = MsgsOf(c, k)
<1>1. Q[c][k] \in Seq(Slots) /\ Len(Q[c][k]) \in Nat
  BY DEF Lists
<1>2. Elems(Q[c][k]) \subseteq Slots
  BY <1>1 DEF Elems
<1>3. \A x \in Elems(R[c][k]) : x \in pool'.used
  BY <1>2 DEF Lists
<1>4. \A x \in Elems(Q[c][k]) : pool'.msg[x] = pool.msg[x]
  BY <1>3 DEF Kept
<1> QED
  BY <1>4, MsgsKept

\* No messages, no sequence.
LEMMA MsgsNone ==
  ASSUME NEW c, NEW k, num'[c][k] = 0
  PROVE  MsgsOf(c, k)' = <<>>
<1>1. MsgsOf(c, k)' = [i \in 1 .. 0 |-> pool'.msg[Follow(pool'.next, first'[c][k])[i - 1]]]
  BY DEF MsgsOf
<1>2. PICK w : w = MsgsOf(c, k)'
  OBVIOUS
<1>3. DOMAIN w = {} /\ w = [i \in {} |-> w[i]]
  BY <1>1, <1>2
<1> QED
  BY <1>2, <1>3

LEMMA LinkMsgs ==
  ASSUME PoolTyped, NEW Q, Lists(Q), NEW c \in Classes, NEW k \in Kinds,
         NEW s \in Slots, s \notin pool.used, NEW m \in Contents,
         Link(c, k, s, m), CountUp(c, k)
  PROVE  Msgs' = [Msgs EXCEPT ![c][k] = Append(@, m)]
<1>1. PICK R : R = [Q EXCEPT ![c][k] = Append(@, s)]
  OBVIOUS
<1>2. PoolTyped' /\ Lists(R)'
  BY <1>1, LinkLists
<1>3. PICK q \in Seq(Slots), n \in Nat : q = Q[c][k] /\ n = num[c][k]
  BY DEF Lists, PoolTyped
<1>4. Len(q) = n /\ Elems(q) \subseteq pool.used
  BY <1>3, ListOfIs DEF Lists, IsList
<1>5. Linked(c, k, s, m)
  <2>1. num[c][k] > 0 => end[c][k] \in Slots
    <3>1. SUFFICES ASSUME n > 0 PROVE end[c][k] \in Slots
      BY <1>3
    <3>2. end[c][k] = q[n] /\ n \in 1 .. Len(q)
      BY <1>3, <1>4, <3>1 DEF Lists, IsList
    <3> QED
      BY <3>2
  <2> QED
    BY <2>1, LinkEffect
<1>6. pool'.msg = [pool.msg EXCEPT ![s] = m] /\ pool.msg \in [Slots -> Contents \cup {NULL}]
  BY <1>5 DEF Linked, PoolTyped
<1>7. pool'.msg[s] = m /\ \A x \in pool.used : pool'.msg[x] = pool.msg[x]
  <2>1. pool.used \subseteq Slots
    BY DEF PoolTyped
  <2> QED
    BY <1>6, <2>1
<1>8. /\ R[c][k] = Append(q, s)
      /\ \A d \in Classes, l \in Kinds : <<d, l>> # <<c, k>> => R[d][l] = Q[d][l]
  BY <1>1, <1>3 DEF Lists
<1>9. ASSUME NEW d \in Classes, NEW l \in Kinds, <<d, l>> # <<c, k>>
      PROVE  MsgsOf(d, l)' = MsgsOf(d, l)
  <2>1. Elems(Q[d][l]) \subseteq pool.used
    BY ListOfIs
  <2>2. \A x \in Elems(Q[d][l]) : pool'.msg[x] = pool.msg[x]
    BY <1>7, <2>1
  <2> QED
    BY <1>2, <1>8, <1>9, <2>2, MsgsKept
<1>10. PICK v, w : v = MsgsOf(c, k) /\ w = MsgsOf(c, k)'
  OBVIOUS
<1>11. v = [i \in 1 .. n |-> pool.msg[q[i]]] /\ v \in Seq(Contents \cup {NULL}) /\ Len(v) = n
  BY <1>3, <1>10, MsgsNow, MsgsTyped
<1>12. w = [i \in 1 .. n + 1 |-> pool'.msg[Append(q, s)[i]]]
  <2>1. num'[c][k] = n + 1
    BY <1>3 DEF CountUp, PoolTyped
  <2>2. w = [i \in 1 .. num'[c][k] |-> pool'.msg[R[c][k][i]]]
    BY <1>2, <1>10, MsgsThen
  <2> QED
    BY <1>8, <2>1, <2>2
<1>13. w = Append(v, m)
  <2>1. ASSUME NEW i \in 1 .. n + 1 PROVE w[i] = Append(v, m)[i]
    <3>1. CASE i = n + 1
      <4>1. Append(q, s)[i] = s /\ Append(v, m)[i] = m
        BY <1>4, <1>11, <3>1
      <4> QED
        BY <1>7, <1>12, <4>1
    <3>2. CASE i \in 1 .. n
      <4>1. Append(q, s)[i] = q[i] /\ Append(v, m)[i] = v[i] /\ q[i] \in Elems(q)
        BY <1>4, <1>11, <3>2 DEF Elems
      <4>2. w[i] = pool'.msg[q[i]] /\ v[i] = pool.msg[q[i]]
        BY <1>11, <1>12, <3>2, <4>1
      <4> QED
        BY <1>4, <1>7, <4>1, <4>2
    <3>3. i = n + 1 \/ i \in 1 .. n
      OBVIOUS
    <3> QED
      BY <3>1, <3>2, <3>3
  <2>2. DOMAIN w = 1 .. n + 1 /\ w = [i \in 1 .. n + 1 |-> w[i]]
    BY <1>12
  <2>3. Append(v, m) \in Seq(Contents \cup {NULL}) /\ Len(Append(v, m)) = n + 1
    BY <1>11
  <2>4. PICK a : a = Append(v, m)
    OBVIOUS
  <2>5. a \in Seq(Contents \cup {NULL}) /\ Len(a) = n + 1 /\ \A i \in 1 .. n + 1 : w[i] = a[i]
    BY <2>1, <2>3, <2>4
  <2>6. a = [i \in 1 .. n + 1 |-> a[i]]
    BY <2>5
  <2> QED
    BY <2>2, <2>4, <2>5, <2>6
<1>14. ASSUME NEW d \in Classes, NEW l \in Kinds
       PROVE  MsgsOf(d, l)' = IF d = c /\ l = k THEN Append(v, m) ELSE MsgsOf(d, l)
  BY <1>9, <1>10, <1>13
<1> QED
  BY <1>10, <1>14 DEF Msgs

LEMMA DequeueMsgs ==
  ASSUME PoolTyped, NEW Q, Lists(Q), NEW c \in Classes, NEW k \in Kinds,
         num[c][k] > 0, NEW s, s = first[c][k], Dequeue(c, k, s)
  PROVE  Msgs' = [Msgs EXCEPT ![c][k] = Tail(@)]
<1>1. PICK R : R = [Q EXCEPT ![c][k] = Tail(@)]
  OBVIOUS
<1>2. PoolTyped' /\ Lists(R)' /\ Kept
  BY <1>1, DequeueLists
<1>3. PICK q \in Seq(Slots), n \in Nat : q = Q[c][k] /\ n = num[c][k]
  BY DEF Lists, PoolTyped
<1>4. Len(q) = n /\ n > 0
  BY <1>3 DEF Lists, IsList
<1>5. /\ R[c][k] = Tail(q)
      /\ \A d \in Classes, l \in Kinds : <<d, l>> # <<c, k>> => R[d][l] = Q[d][l]
  BY <1>1, <1>3 DEF Lists
<1>6. ASSUME NEW d \in Classes, NEW l \in Kinds, <<d, l>> # <<c, k>>
      PROVE  MsgsOf(d, l)' = MsgsOf(d, l)
  BY <1>2, <1>5, <1>6, MsgsFreed
<1>7. PICK v, w : v = MsgsOf(c, k) /\ w = MsgsOf(c, k)'
  OBVIOUS
<1>8. v = [i \in 1 .. n |-> pool.msg[q[i]]] /\ v \in Seq(Contents \cup {NULL}) /\ Len(v) = n
  BY <1>3, <1>7, MsgsNow, MsgsTyped
<1>9. PICK r : r = Tail(q)
  OBVIOUS
<1>10. r \in Seq(Slots) /\ Len(r) = n - 1 /\ \A i \in 1 .. n - 1 : r[i] = q[i + 1]
  BY <1>4, <1>9
<1>11. w = [i \in 1 .. n - 1 |-> pool'.msg[r[i]]]
  <2>1. num'[c][k] = n - 1
    BY <1>3 DEF Dequeue, PoolTyped
  <2>2. w = [i \in 1 .. num'[c][k] |-> pool'.msg[R[c][k][i]]]
    BY <1>2, <1>7, MsgsThen
  <2> QED
    BY <1>5, <1>9, <2>1, <2>2
<1>12. w = Tail(v)
  <2>1. PICK a : a = Tail(v)
    OBVIOUS
  <2>2. a \in Seq(Contents \cup {NULL}) /\ Len(a) = n - 1 /\ \A i \in 1 .. n - 1 : a[i] = v[i + 1]
    <3>1. v \in Seq(Contents \cup {NULL}) /\ Len(v) = n
      BY <1>8
    <3> QED
      BY <1>4, <2>1, <3>1
  <2>3. a = [i \in 1 .. n - 1 |-> a[i]]
    BY <2>2
  <2>4. ASSUME NEW i \in 1 .. n - 1 PROVE w[i] = a[i]
    <3>1. r[i] \in Elems(r) /\ r[i] \in Slots /\ i + 1 \in 1 .. n
      BY <1>10 DEF Elems
    <3>2. r[i] \in pool'.used
      <4>1. \A x \in Slots : x \in Elems(R[c][k]) => x \in pool'.used
        BY <1>2 DEF Lists
      <4> QED
        BY <1>5, <1>9, <3>1, <4>1
    <3>3. pool'.msg[r[i]] = pool.msg[r[i]]
      BY <1>2, <3>2 DEF Kept
    <3>4. r[i] = q[i + 1] /\ v[i + 1] = pool.msg[q[i + 1]] /\ a[i] = v[i + 1]
      BY <1>8, <1>10, <2>2, <3>1
    <3> QED
      BY <1>11, <3>3, <3>4
  <2> QED
    BY <1>11, <2>1, <2>3, <2>4
<1>13. ASSUME NEW d \in Classes, NEW l \in Kinds
       PROVE  MsgsOf(d, l)' = IF d = c /\ l = k THEN Tail(v) ELSE MsgsOf(d, l)
  BY <1>6, <1>7, <1>12
<1> QED
  BY <1>7, <1>13 DEF Msgs

LEMMA ClearMsgs ==
  ASSUME PoolTyped, NEW Q, Lists(Q), NEW cs \in SUBSET Classes,
         pool' = FreeMSGPoolItemQ(cs),
         first' = [c \in Classes |-> IF c \in cs THEN NoSlot ELSE first[c]],
         end' = [c \in Classes |-> IF c \in cs THEN NoSlot ELSE end[c]],
         num' = [c \in Classes |-> IF c \in cs THEN NoMsg ELSE num[c]]
  PROVE  Msgs' = [c \in Classes |-> IF c \in cs THEN [k \in Kinds |-> <<>>] ELSE Msgs[c]]
<1>1. PICK R : R = Without(Q, cs)
  OBVIOUS
<1>2. PoolTyped' /\ Lists(R)' /\ Kept
  BY <1>1, ClearLists
<1>3. \A d \in Classes, l \in Kinds : d \notin cs => R[d][l] = Q[d][l]
  BY <1>1 DEF Without
<1>4. ASSUME NEW d \in Classes, NEW l \in Kinds, d \notin cs
      PROVE  MsgsOf(d, l)' = MsgsOf(d, l)
  BY <1>2, <1>3, <1>4, MsgsFreed
<1>5. ASSUME NEW d \in Classes, NEW l \in Kinds, d \in cs
      PROVE  MsgsOf(d, l)' = <<>>
  <2>1. num'[d][l] = 0
    BY <1>5 DEF NoMsg
  <2> QED
    BY <2>1, MsgsNone
<1> QED
  BY <1>4, <1>5 DEF Msgs

-----------------------------------------------------------------------------
(* Every step is one of MbxQueues.                                         *)

LEMMA SamePool ==
  ASSUME UNCHANGED <<pool, first, num>>
  PROVE  Msgs' = Msgs
BY DEF Msgs, MsgsOf

LEMMA ReservedIs == Queues!Reserved = SumOf(size, Classes)
BY DEF Queues!Reserved, Queues!MapThenSumSet, Queues!MapThenFoldSet, SumOf, Sums

\* What MbxQueues reads of its state.
LEMMA Abstract ==
  ASSUME IInv, Sized, NEW c \in Classes
  PROVE  /\ Queues!Pending(c) = Total(c)
         /\ Queues!Reserved = registed
         /\ \A k \in Kinds : /\ Msgs[c][k] = <<>> <=> num[c][k] = 0
                             /\ num[c][k] > 0 => Head(Msgs[c][k]) = pool.msg[first[c][k]]
<1>1. PICK Q : Lists(Q)
  BY DEF IInv
<1>2. ASSUME NEW k \in Kinds
      PROVE  /\ Msgs[c][k] = MsgsOf(c, k) /\ Len(MsgsOf(c, k)) = num[c][k]
             /\ MsgsOf(c, k) = <<>> <=> num[c][k] = 0
             /\ num[c][k] > 0 => Head(MsgsOf(c, k)) = pool.msg[first[c][k]]
  BY <1>1, MsgsTyped DEF IInv, Msgs
<1>3. Queues!Pending(c) = Total(c)
  <2>1. /\ Msgs[c]["NORMAL"] = MsgsOf(c, "NORMAL") /\ Len(MsgsOf(c, "NORMAL")) = num[c]["NORMAL"]
        /\ Msgs[c]["INSTANT"] = MsgsOf(c, "INSTANT") /\ Len(MsgsOf(c, "INSTANT")) = num[c]["INSTANT"]
    BY <1>2 DEF Kinds
  <2>2. Queues!Pending(c) = Len(Msgs[c]["NORMAL"]) + Len(Msgs[c]["INSTANT"])
    BY DEF Queues!Pending, Msgs
  <2> QED
    BY <2>1, <2>2 DEF Total
<1>4. Queues!Reserved = SumOf(size, Classes)
  BY ReservedIs
<1>5. SumOf(size, Classes) = Cardinality(Cells(size, Classes))
  <2>1. PICK z : z = size
    OBVIOUS
  <2>2. z \in [Classes -> Nat]
    BY <2>1, SizesTyped
  <2>3. SumOf(z, Classes) = Cardinality(Cells(z, Classes))
    BY <2>2, ClassesAssumption, SumIs
  <2> QED
    BY <2>1, <2>3
<1> QED
  BY <1>2, <1>3, <1>4, <1>5 DEF Sized

LEMMA AbstractRefuse ==
  ASSUME NEW e, Refuse(e)
  PROVE  Queues!Refuse(e)
<1>1. UNCHANGED <<pool, first, num>> /\ UNCHANGED <<notifier, size>> /\ result' = e
  BY DEF Refuse, lists, classes
<1>2. Msgs' = Msgs
  BY <1>1, SamePool
<1> QED
  BY <1>1, <1>2 DEF Queues!Refuse, Msgs

LEMMA RegisterMSGRefines ==
  ASSUME IInv, Sized, ~Takeover, NEW n \in Clients, NEW c \in Classes, NEW s \in Sizes,
         RegisterMSG(n, c, s)
  PROVE  Queues!Register(n, c, s)
<1>1. registed \in Int /\ s \in Int /\ u16Slots \in Int
  <2>1. IsFiniteSet(Cells(size, Classes))
    <3>1. PICK z \in [Classes -> Nat] : z = size
      BY SizesTyped
    <3> QED
      BY <3>1, ClassesAssumption, CellsFinite
  <2> QED
    BY <2>1, FS_CardinalityType, SizesAssumption DEF Sized
<1>2. Queues!Reserved = registed
  BY Abstract
<1>3. CASE notifier[c] = n /\ Refuse("SLOT_AREADY_OPENNED")
  BY <1>3, AbstractRefuse DEF Queues!Register
<1>4. CASE notifier[c] = NULL /\ registed + s > u16Slots /\ Refuse("NO_MORE_MEMORY")
  BY <1>2, <1>4, AbstractRefuse DEF Queues!Register
<1>5. CASE notifier[c] = NULL /\ ~(registed + s > u16Slots) /\ Register_NotifyID(n, c, s)
  <2>1. /\ num' = [num EXCEPT ![c] = NoMsg] /\ first' = [first EXCEPT ![c] = NoSlot]
        /\ pool' = pool /\ size' = [size EXCEPT ![c] = s]
        /\ notifier' = [notifier EXCEPT ![c] = n] /\ result' = "SUCCESS"
    BY <1>5 DEF Register_NotifyID
  <2>2. ASSUME NEW d \in Classes, NEW l \in Kinds PROVE MsgsOf(d, l)' = MsgsOf(d, l)
    <3>1. CASE d # c
      <4>1. num'[d] = num[d] /\ first'[d] = first[d]
        BY <2>1, <3>1 DEF IInv, PoolTyped
      <4> QED
        BY <2>1, <4>1 DEF MsgsOf
    <3>2. CASE d = c
      <4>1. num'[d][l] = 0
        BY <2>1, <3>2 DEF IInv, PoolTyped, NoMsg
      <4>2. num[d][l] = 0
        BY <1>5, <3>2 DEF IInv, Registered
      <4>3. PICK Q : Lists(Q)
        BY DEF IInv
      <4>4. MsgsOf(d, l) = <<>>
        BY <4>2, <4>3, MsgsTyped DEF IInv
      <4> QED
        BY <4>1, <4>4, MsgsNone
    <3> QED
      BY <3>1, <3>2
  <2>3. Msgs' = Msgs
    BY <2>2 DEF Msgs
  <2>4. registed + s <= u16Slots
    BY <1>1, <1>5
  <2> QED
    BY <1>2, <1>5, <2>1, <2>3, <2>4 DEF Queues!Register, Msgs
<1> QED
  BY <1>3, <1>4, <1>5 DEF RegisterMSG

LEMMA FreeMSGRefines ==
  ASSUME IInv, NEW cs \in SUBSET Classes, FreeMSG(cs), result' = "SUCCESS"
  PROVE  Queues!Free(cs)
<1>1. PICK Q : Lists(Q)
  BY DEF IInv
<1>2. Msgs' = [c \in Classes |-> IF c \in cs THEN [k \in Kinds |-> <<>>] ELSE Msgs[c]]
  BY <1>1, ClearMsgs DEF IInv, FreeMSG
<1>3. /\ size' = [c \in Classes |-> IF c \in cs THEN 0 ELSE size[c]]
      /\ notifier' = [c \in Classes |-> IF c \in cs THEN NULL ELSE notifier[c]]
  BY DEF FreeMSG
<1> QED
  BY <1>2, <1>3 DEF Queues!Free, Queues!Nothing, Queues!Kinds, Kinds, Msgs

LEMMA UnRegisterMSGRefines ==
  ASSUME IInv, Sized, Room, NEW n \in Clients, NEW c \in Classes, NEW force \in BOOLEAN,
         UnRegisterMSG(n, c, force)
  PROVE  Queues!UnRegister(n, c, force)
<1>1. Queues!Pending(c) = Total(c)
  BY Abstract
<1>2. CASE (notifier[c] = NULL \/ status[c] = "INVALID") /\ Refuse("SLOT_NOT_OPENNED")
  <2>1. notifier[c] = NULL
    BY <1>2 DEF Room
  <2> QED
    BY <1>2, <2>1, AbstractRefuse DEF Queues!UnRegister
<1>3. CASE notifier[c] \notin {n, NULL} /\ Refuse("SLOT_BUSY")
  BY <1>3, AbstractRefuse DEF Queues!UnRegister
<1>4. CASE notifier[c] = n /\ ~force /\ Total(c) > 0 /\ Refuse("HAS_MSG_PENDING")
  BY <1>1, <1>4, AbstractRefuse DEF Queues!UnRegister
<1>5. CASE /\ notifier[c] = n /\ (force \/ Total(c) = 0)
           /\ FreeMSG({c}) /\ result' = "SUCCESS"
  <2>1. PICK cs \in SUBSET Classes : cs = {c}
    OBVIOUS
  <2>2. Queues!Free(cs)
    BY <1>5, <2>1, FreeMSGRefines
  <2>3. Queues!Free({c})
    BY <2>1, <2>2
  <2> QED
    BY <1>1, <1>5, <2>3 DEF Queues!UnRegister
<1> QED
  BY <1>2, <1>3, <1>4, <1>5 DEF UnRegisterMSG

LEMMA UnRegisterMSGQRefines ==
  ASSUME IInv, Sized, NEW n \in Clients, NEW force \in BOOLEAN, UnRegisterMSGQ(n, force)
  PROVE  Queues!UnRegisterAll(n, force)
<1>1. PICK mine : mine = Chain(nextq, qfirst[n])
  OBVIOUS
<1>2. mine = {c \in Classes : notifier[c] = n}
  BY <1>1, ChainOfOwner DEF IInv, ClassTyped
<1>3. \A c \in mine : Queues!Pending(c) = Total(c)
  BY <1>2, Abstract
<1>4. CASE (~force /\ \E c \in mine : Total(c) > 0) /\ Refuse("HAS_MSG_PENDING")
  <2>1. Queues!Refuse("HAS_MSG_PENDING")
    BY <1>4, AbstractRefuse
  <2>2. ~force /\ \E c \in {d \in Classes : notifier[d] = n} : Queues!Pending(c) > 0
    BY <1>2, <1>3, <1>4
  <2> QED
    BY <2>1, <2>2 DEF Queues!UnRegisterAll
<1>5. CASE ~(~force /\ \E c \in mine : Total(c) > 0) /\ FreeMSG(mine) /\ result' = "SUCCESS"
  <2>1. Queues!Free(mine)
    BY <1>2, <1>5, FreeMSGRefines
  <2>2. ~(~force /\ \E c \in {d \in Classes : notifier[d] = n} : Queues!Pending(c) > 0)
    BY <1>2, <1>3, <1>5
  <2>3. Queues!Free({d \in Classes : notifier[d] = n})
    BY <1>2, <2>1
  <2> QED
    BY <2>2, <2>3 DEF Queues!UnRegisterAll
<1> QED
  BY <1>1, <1>4, <1>5 DEF UnRegisterMSGQ

LEMMA ClearMSGRefines ==
  ASSUME IInv, Room, NEW n \in Clients, NEW c \in Classes, ClearMSG(n, c)
  PROVE  Queues!Clear(n, c)
<1>1. CASE (notifier[c] = NULL \/ status[c] = "INVALID") /\ Refuse("SLOT_NOT_OPENNED")
  <2>1. notifier[c] = NULL
    BY <1>1 DEF Room
  <2> QED
    BY <1>1, <2>1, AbstractRefuse DEF Queues!Clear
<1>2. CASE notifier[c] \notin {n, NULL} /\ Refuse("SLOT_BUSY")
  BY <1>2, AbstractRefuse DEF Queues!Clear
<1>3. CASE /\ notifier[c] = n /\ pool' = FreeMSGPoolItemQ({c})
           /\ first' = [first EXCEPT ![c] = NoSlot] /\ end' = [end EXCEPT ![c] = NoSlot]
           /\ num' = [num EXCEPT ![c] = NoMsg] /\ result' = "SUCCESS"
           /\ UNCHANGED classes
  <2>1. PICK cs \in SUBSET Classes : cs = {c}
    OBVIOUS
  <2>2. /\ first' = [d \in Classes |-> IF d \in cs THEN NoSlot ELSE first[d]]
        /\ end' = [d \in Classes |-> IF d \in cs THEN NoSlot ELSE end[d]]
        /\ num' = [d \in Classes |-> IF d \in cs THEN NoMsg ELSE num[d]]
        /\ pool' = FreeMSGPoolItemQ(cs)
    BY <1>3, <2>1 DEF IInv, PoolTyped
  <2>3. PICK Q : Lists(Q)
    BY DEF IInv
  <2>4. Msgs' = [d \in Classes |-> IF d \in cs THEN [k \in Kinds |-> <<>>] ELSE Msgs[d]]
    BY <2>2, <2>3, ClearMsgs DEF IInv
  <2>5. Msgs' = [Msgs EXCEPT ![c] = [k \in Kinds |-> <<>>]]
    BY <2>1, <2>4 DEF Msgs
  <2>6. UNCHANGED <<notifier, size>>
    BY <1>3 DEF classes
  <2> QED
    BY <1>3, <2>5, <2>6 DEF Queues!Clear, Queues!Nothing, Queues!Kinds, Kinds, Msgs
<1> QED
  BY <1>1, <1>2, <1>3 DEF ClearMSG

LEMMA AddMSGRefines ==
  ASSUME IInv, Sized, Room, NEW c \in Classes, NEW k \in Kinds, NEW m \in Contents,
         AddMSG(c, k, m)
  PROVE  Queues!Add(c, k, m)
<1>1. Queues!Pending(c) = Total(c)
  BY Abstract
<1>2. PICK Q : Lists(Q)
  BY DEF IInv
<1>3. Total(c) \in Nat /\ size[c] \in Nat
  BY TotalTyped, SizesTyped DEF IInv
<1>4. CASE status[c] = "INVALID" /\ Refuse("NOT_INITIALIZED")
  <2>1. notifier[c] = NULL
    BY <1>4 DEF Room
  <2> QED
    BY <1>4, <2>1, AbstractRefuse DEF Queues!Add
<1>5. CASE status[c] = "OVERFLOW" /\ Refuse("NO_MORE_MEMORY")
  <2>1. notifier[c] # NULL
    BY <1>5 DEF IInv, Registered
  <2>2. Total(c) >= size[c]
    BY <1>5, <2>1 DEF Room
  <2> QED
    BY <1>1, <1>5, <2>1, <2>2, AbstractRefuse DEF Queues!Add
<1>6. ASSUME status[c] \in {"NORMAL", "EMPTY"}
      PROVE  notifier[c] # NULL /\ Total(c) < size[c] /\ pool.free > 0
  <2>1. notifier[c] # NULL
    BY <1>6 DEF IInv, Registered
  <2>2. ~(Total(c) >= size[c]) /\ \A d \in Classes : Total(d) <= size[d]
    BY <1>6, <2>1 DEF Room
  <2>3. Total(c) < size[c]
    BY <1>3, <2>2
  <2>4. pool.free > 0
    BY <1>2, <2>2, <2>3, RoomIsFree DEF IInv
  <2> QED
    BY <2>1, <2>3, <2>4
<1>7. CASE status[c] \in {"NORMAL", "EMPTY"} /\ pool.free = 0
  BY <1>6, <1>7
<1>8. CASE /\ status[c] \in {"NORMAL", "EMPTY"} /\ pool.free > 0
           /\ Link(c, k, AllocateSlot, m) /\ num' = [num EXCEPT ![c][k] = @ + 1]
           /\ result' = "SUCCESS" /\ UNCHANGED classes
  <2>1. PICK s \in Slots : s = AllocateSlot /\ s \notin pool.used
    BY <1>2, <1>8, Allocated DEF IInv
  <2>2. Link(c, k, s, m) /\ CountUp(c, k)
    BY <1>8, <2>1 DEF CountUp
  <2>3. Msgs' = [Msgs EXCEPT ![c][k] = Append(@, m)]
    BY <1>2, <2>1, <2>2, LinkMsgs DEF IInv
  <2>4. UNCHANGED <<notifier, size>>
    BY <1>8 DEF classes
  <2> QED
    BY <1>1, <1>6, <1>8, <2>3, <2>4 DEF Queues!Add, Msgs
<1> QED
  BY <1>4, <1>5, <1>7, <1>8 DEF AddMSG

LEMMA DequeueRefines ==
  ASSUME IInv, Sized, NEW c \in Classes, NEW k \in Kinds, num[c][k] > 0,
         NEW s, s = first[c][k], Dequeue(c, k, s), NEW r, result' = r
  PROVE  Queues!Fetch(c, k, r)
<1>1. PICK Q : Lists(Q)
  BY DEF IInv
<1>2. Msgs' = [Msgs EXCEPT ![c][k] = Tail(@)]
  BY <1>1, DequeueMsgs DEF IInv
<1>3. Msgs[c][k] # <<>>
  BY Abstract
<1>4. UNCHANGED <<notifier, size>>
  BY DEF Dequeue, classes
<1> QED
  BY <1>2, <1>3, <1>4 DEF Queues!Fetch, Msgs

\* Only a status changes, which MbxQueues does not have.
LEMMA AbstractStatus ==
  ASSUME NEW e, result' = e, UNCHANGED <<pool, first, end, num, classes>>
  PROVE  Queues!Refuse(e)
<1>1. UNCHANGED <<pool, first, num>> /\ UNCHANGED <<notifier, size>>
  BY DEF classes
<1>2. Msgs' = Msgs
  BY <1>1, SamePool
<1> QED
  BY <1>1, <1>2 DEF Queues!Refuse, Msgs

LEMMA RecvMsgRefines ==
  ASSUME IInv, Sized, NEW n \in Clients, NEW c \in Classes, NEW k \in Kinds, RecvMsg(n, c, k)
  PROVE  Queues!Recv(c, k)
<1>1. /\ Msgs[c][k] = <<>> <=> num[c][k] = 0
      /\ num[c][k] > 0 => Head(Msgs[c][k]) = pool.msg[first[c][k]]
  BY Abstract
<1>2. CASE notifier[c] = NULL /\ Refuse("SLOT_NOT_OPENNED")
  BY <1>2, AbstractRefuse DEF Queues!Recv
<1>3. CASE notifier[c] # NULL /\ num[c][k] = 0 /\ NothingFound(c)
  <2>1. Queues!Refuse("NO_MORE_MSG")
    BY <1>3, AbstractStatus DEF NothingFound
  <2> QED
    BY <1>1, <1>3, <2>1 DEF Queues!Recv, Msgs
<1>4. CASE /\ notifier[c] # NULL /\ num[c][k] > 0 /\ Dequeue(c, k, first[c][k])
           /\ result' = pool.msg[first[c][k]]
  <2>1. PICK s, r : s = first[c][k] /\ r = pool.msg[first[c][k]]
    OBVIOUS
  <2>2. Queues!Fetch(c, k, r)
    BY <1>4, <2>1, DequeueRefines
  <2>3. Msgs[c][k] # <<>> /\ r = Head(Msgs[c][k])
    BY <1>1, <1>4, <2>1
  <2>4. Queues!Fetch(c, k, Head(Msgs[c][k]))
    BY <2>2, <2>3
  <2> QED
    BY <1>4, <2>3, <2>4 DEF Queues!Recv, Msgs
<1> QED
  BY <1>2, <1>3, <1>4 DEF RecvMsg

LEMMA CheckMsgRefines ==
  ASSUME IInv, Sized, NEW n \in Clients, NEW c \in Classes, NEW k \in Kinds, CheckMsg(n, c, k)
  PROVE  Queues!Check(c, k)
<1>1. /\ Msgs[c][k] = <<>> <=> num[c][k] = 0
      /\ num[c][k] > 0 => Head(Msgs[c][k]) = pool.msg[first[c][k]]
  BY Abstract
<1>2. CASE notifier[c] = NULL /\ Refuse("SLOT_NOT_OPENNED")
  BY <1>2, AbstractRefuse DEF Queues!Check
<1>3. CASE notifier[c] # NULL /\ num[c][k] = 0 /\ NothingFound(c)
  <2>1. Queues!Refuse("NO_MORE_MSG")
    BY <1>3, AbstractStatus DEF NothingFound
  <2> QED
    BY <1>1, <1>3, <2>1 DEF Queues!Check, Msgs
<1>4. CASE /\ notifier[c] # NULL /\ num[c][k] > 0 /\ result' = pool.msg[first[c][k]]
           /\ UNCHANGED <<pool, first, end, num, classes>>
  <2>1. PICK r : r = pool.msg[first[c][k]]
    OBVIOUS
  <2>2. Queues!Refuse(r)
    BY <1>4, <2>1, AbstractStatus
  <2>3. Msgs[c][k] # <<>> /\ r = Head(Msgs[c][k])
    BY <1>1, <1>4, <2>1
  <2>4. Queues!Refuse(Head(Msgs[c][k]))
    BY <2>2, <2>3
  <2> QED
    BY <1>4, <2>3, <2>4 DEF Queues!Check, Msgs
<1> QED
  BY <1>2, <1>3, <1>4 DEF CheckMsg

LEMMA RemoveLatestMsgRefines ==
  ASSUME IInv, Sized, NEW n \in Clients, RemoveLatestMsg(n)
  PROVE  \E c \in Classes, k \in Kinds : Queues!RemoveLatest(c, k)
<1>1. checked[n] # NULL
  BY DEF RemoveLatestMsg
<1>2. /\ latest = checked[n] /\ latest.s = first[latest.c][latest.k]
      /\ num[latest.c][latest.k] > 0
  BY <1>1 DEF IInv, Checked
<1>3. PICK c \in Classes, k \in Kinds, s \in Slots :
         c = latest.c /\ k = latest.k /\ s = latest.s
  BY <1>1, <1>2 DEF IInv, ClassTyped, LinksTyped, Latest
<1>4. num[c][k] \in Nat /\ num[c][k] > 0 /\ s = first[c][k]
  BY <1>2, <1>3 DEF IInv, PoolTyped
<1>5. Dequeue(c, k, s) /\ result' = "SUCCESS"
  BY <1>3, <1>4 DEF RemoveLatestMsg
<1>6. Queues!Fetch(c, k, "SUCCESS")
  <2>1. PICK r : r = "SUCCESS"
    OBVIOUS
  <2>2. Queues!Fetch(c, k, r)
    BY <1>4, <1>5, <2>1, DequeueRefines
  <2> QED
    BY <2>1, <2>2
<1> QED
  BY <1>6 DEF Queues!RemoveLatest

LEMMA AloneRefines ==
  ASSUME IInv, Sized, Room, ~Takeover, [Alone]_data
  PROVE  [Queues!Next]_(Queues!vars)
<1>1. CASE UNCHANGED data
  <2>1. UNCHANGED <<pool, first, num>> /\ UNCHANGED <<notifier, size, result>>
    BY <1>1 DEF data
  <2>2. Msgs' = Msgs
    BY <2>1, SamePool
  <2> QED
    BY <2>1, <2>2 DEF Queues!vars, Msgs
<1>2. ASSUME NEW n \in Clients, NEW c \in Classes, NEW s \in Sizes, RegisterMSG(n, c, s)
      PROVE  Queues!Next
  BY <1>2, RegisterMSGRefines DEF Queues!Next
<1>3. ASSUME NEW n \in Clients, NEW c \in Classes, NEW force \in BOOLEAN,
             UnRegisterMSG(n, c, force)
      PROVE  Queues!Next
  BY <1>3, UnRegisterMSGRefines DEF Queues!Next
<1>4. ASSUME NEW n \in Clients, NEW c \in Classes, ClearMSG(n, c) PROVE Queues!Next
  BY <1>4, ClearMSGRefines DEF Queues!Next
<1>5. ASSUME NEW n \in Clients, NEW force \in BOOLEAN, UnRegisterMSGQ(n, force)
      PROVE  Queues!Next
  BY <1>5, UnRegisterMSGQRefines DEF Queues!Next
<1>6. ASSUME NEW n \in Clients, NEW c \in Classes, NEW k \in Kinds,
             RecvMsg(n, c, k) \/ CheckMsg(n, c, k)
      PROVE  Queues!Next
  <2>1. Queues!Recv(c, k) \/ Queues!Check(c, k)
    BY <1>6, RecvMsgRefines, CheckMsgRefines
  <2> QED
    BY <2>1 DEF Queues!Next, Queues!Kinds, Kinds
<1>7. ASSUME NEW n \in Clients, RemoveLatestMsg(n) PROVE Queues!Next
  <2>1. PICK c \in Classes, k \in Kinds : Queues!RemoveLatest(c, k)
    BY <1>7, RemoveLatestMsgRefines
  <2> QED
    BY <2>1 DEF Queues!Next, Queues!Kinds, Kinds
<1>8. ASSUME NEW c \in Classes, NEW k \in Kinds, NEW m \in Contents, AddMSG(c, k, m)
      PROVE  Queues!Next
  <2>1. Queues!Add(c, k, m)
    BY <1>8, AddMSGRefines
  <2> QED
    BY <2>1 DEF Queues!Next, Queues!Kinds, Kinds
<1> QED
  BY <1>1, <1>2, <1>3, <1>4, <1>5, <1>6, <1>7, <1>8 DEF Alone

LEMMA InitRefines ==
  ASSUME Init
  PROVE  Queues!Init
<1>1. ASSUME NEW c \in Classes, NEW k \in Kinds PROVE MsgsOf(c, k) = <<>>
  <2>1. num[c][k] = 0
    BY DEF Init, NoMsg
  <2>2. PICK Q : Lists(Q)
    BY InitIInv DEF IInv
  <2> QED
    BY <2>1, <2>2, InitIInv, MsgsTyped DEF IInv
<1>2. Msgs = [c \in Classes |-> [k \in Kinds |-> <<>>]]
  BY <1>1 DEF Msgs
<1>3. /\ notifier = [c \in Classes |-> NULL] /\ size = [c \in Classes |-> 0]
      /\ result = "NONE"
  BY DEF Init
<1> QED
  BY <1>2, <1>3 DEF Queues!Init, Queues!Nothing, Queues!Kinds, Kinds, Msgs

-----------------------------------------------------------------------------
(* The type invariant of the specification.                                *)

LEMMA PoolTypes ==
  ASSUME IInv, Sized
  PROVE  /\ pool.used \subseteq Slots
         /\ pool.next \in [Slots -> Slots \cup {NULL}]
         /\ pool.msg \in [Slots -> Contents \cup {NULL}]
         /\ pool.free \in 0 .. u16Slots
         /\ first \in [Classes -> [Kinds -> Slots \cup {NULL}]]
         /\ end \in [Classes -> [Kinds -> Slots \cup {NULL}]]
         /\ num \in [Classes -> [Kinds -> 0 .. u16Slots]]
<1>1. PICK Q : Lists(Q)
  BY DEF IInv
<1>2. pool.free \in 0 .. u16Slots
  BY <1>1, UsedFinite, SlotsFinite DEF IInv, Lists
<1>3. ASSUME NEW c \in Classes, NEW k \in Kinds PROVE num[c][k] \in 0 .. u16Slots
  <2>1. PICK q \in Seq(Slots) : Path(pool.next, first[c][k], q) /\ Len(q) = num[c][k]
    <3>1. Q[c][k] \in Seq(Slots) /\ IsList(c, k, Q[c][k])
      BY <1>1 DEF Lists
    <3> QED
      BY <3>1 DEF IsList
  <2>2. Len(q) \in Nat /\ Len(q) <= Cardinality(Slots)
    BY <2>1, SlotsFinite, PathLength
  <2> QED
    BY <2>1, <2>2, SlotsFinite
<1>4. num \in [Classes -> [Kinds -> 0 .. u16Slots]]
  BY <1>3 DEF IInv, PoolTyped
<1> QED
  BY <1>2, <1>4 DEF IInv, PoolTyped

LEMMA ClassTypes ==
  ASSUME IInv, Sized
  PROVE  /\ registed \in 0 .. u16Slots
         /\ status \in [Classes -> {"INVALID", "EMPTY", "NORMAL", "OVERFLOW"}]
         /\ size \in [Classes -> {0} \cup Sizes]
         /\ notifier \in [Classes -> Clients \cup {NULL}]
         /\ nextq \in [Classes -> Classes \cup {NULL}]
         /\ qfirst \in [Clients -> Classes \cup {NULL}]
<1>1. registed \in 0 .. u16Slots
  <2>1. IsFiniteSet(Cells(size, Classes))
    <3>1. PICK z \in [Classes -> Nat] : z = size
      BY SizesTyped
    <3> QED
      BY <3>1, ClassesAssumption, CellsFinite
  <2> QED
    BY <2>1, FS_CardinalityType, SlotsFinite DEF Sized
<1> QED
  BY <1>1 DEF IInv, ClassTyped, LinksTyped, Sized

-----------------------------------------------------------------------------
(* The lists of classes do not depend on those of slots.                   *)

LEMMA SameOwners ==
  ASSUME LinksTyped, Owners, UNCHANGED <<notifier, nextq, qfirst>>
  PROVE  LinksTyped' /\ Owners'
BY DEF LinksTyped, Owners, Owns

LEMMA RegisterMSGOwners ==
  ASSUME LinksTyped, Owners, ~Takeover, NEW n \in Clients, NEW c \in Classes, NEW s,
         RegisterMSG(n, c, s)
  PROVE  LinksTyped' /\ Owners'
<1>1. CASE \E e : Refuse(e)
  BY <1>1, SameOwners DEF Refuse, classes
<1>2. CASE notifier[c] = NULL /\ Register_NotifyID(n, c, s)
  <2>1. /\ notifier' = [notifier EXCEPT ![c] = n]
        /\ nextq' = [nextq EXCEPT ![c] = qfirst[n]] /\ qfirst' = [qfirst EXCEPT ![n] = c]
    BY <1>2 DEF Register_NotifyID
  <2>2. Owners'
    BY <1>2, <2>1, RegisterOwners
  <2> QED
    BY <2>1, <2>2 DEF LinksTyped
<1> QED
  BY <1>1, <1>2 DEF RegisterMSG

LEMMA UnRegisterOwners ==
  ASSUME LinksTyped, Owners, NEW n \in Clients, NEW force,
         \/ \E c \in Classes : UnRegisterMSG(n, c, force)
         \/ UnRegisterMSGQ(n, force)
  PROVE  LinksTyped' /\ Owners'
<1>1. CASE \E e : Refuse(e)
  BY <1>1, SameOwners DEF Refuse, classes
<1>2. ASSUME NEW c \in Classes, notifier[c] = n, Unlink(n, c), FreeMSG({c})
      PROVE  LinksTyped' /\ Owners'
  <2>1. notifier' = [e \in Classes |-> IF e \in {c} THEN NULL ELSE notifier[e]]
    BY <1>2 DEF FreeMSG
  <2>2. /\ Owners'
        /\ nextq' \in [Classes -> Classes \cup {NULL}]
        /\ qfirst' \in [Clients -> Classes \cup {NULL}]
    BY <1>2, <2>1, UnlinkOwners
  <2> QED
    BY <2>1, <2>2 DEF LinksTyped
<1>3. PICK mine : mine = Chain(nextq, qfirst[n])
  OBVIOUS
<1>4. CASE /\ FreeMSG(mine)
           /\ nextq' = [c \in Classes |-> IF c \in mine THEN NULL ELSE nextq[c]]
           /\ qfirst' = [qfirst EXCEPT ![n] = NULL]
  <2>1. mine = {c \in Classes : notifier[c] = n}
    BY <1>3, ChainOfOwner
  <2>2. notifier' = [e \in Classes |-> IF e \in mine THEN NULL ELSE notifier[e]]
    BY <1>4 DEF FreeMSG
  <2>3. Owners'
    BY <1>4, <2>1, <2>2, UnlinkAllOwners
  <2> QED
    BY <1>4, <2>2, <2>3 DEF LinksTyped
<1>5. CASE \E c \in Classes : UnRegisterMSG(n, c, force)
  BY <1>1, <1>2, <1>5 DEF UnRegisterMSG
<1>6. CASE UnRegisterMSGQ(n, force)
  BY <1>1, <1>3, <1>4, <1>6 DEF UnRegisterMSGQ
<1> QED
  BY <1>5, <1>6

LEMMA OtherOwners ==
  ASSUME \/ \E n \in Clients, c \in Classes :
              ClearMSG(n, c) \/ \E k \in Kinds : RecvMsg(n, c, k) \/ CheckMsg(n, c, k)
         \/ \E n \in Clients : RemoveLatestMsg(n)
         \/ \E c \in Classes, k \in Kinds, m \in Contents : AddMSG(c, k, m)
  PROVE  UNCHANGED classes
<1>1. ASSUME NEW n, NEW c, ClearMSG(n, c) PROVE UNCHANGED classes
  BY <1>1 DEF ClearMSG, Refuse
<1>2. ASSUME NEW n, NEW c, NEW k, RecvMsg(n, c, k) PROVE UNCHANGED classes
  BY <1>2 DEF RecvMsg, Refuse, NothingFound, Dequeue
<1>3. ASSUME NEW n, NEW c, NEW k, CheckMsg(n, c, k) PROVE UNCHANGED classes
  BY <1>3 DEF CheckMsg, Refuse, NothingFound
<1>4. ASSUME NEW n, RemoveLatestMsg(n) PROVE UNCHANGED classes
  BY <1>4 DEF RemoveLatestMsg, NothingFound, Dequeue
<1>5. ASSUME NEW c, NEW k, NEW m, AddMSG(c, k, m) PROVE UNCHANGED classes
  BY <1>5 DEF AddMSG, Refuse
<1> QED
  BY <1>1, <1>2, <1>3, <1>4, <1>5

LEMMA AloneOwners ==
  ASSUME LinksTyped, Owners, ~Takeover, Alone
  PROVE  LinksTyped' /\ Owners'
<1>1. CASE UNCHANGED classes
  BY <1>1, SameOwners DEF classes
<1> QED
  BY <1>1, RegisterMSGOwners, UnRegisterOwners, OtherOwners DEF Alone

(***************************************************************************)
(* A call that is overlapped still knows whose class it deals with: only   *)
(* calls change owners and class lists, and they exclude each other.       *)
(***************************************************************************)
CallRecord(r) ==
  r = [op |-> r.op, n |-> r.n, c |-> r.c, k |-> r.k, x |-> r.x, pc |-> r.pc,
       s |-> r.s, next |-> r.next, read |-> r.read]
CallOwner ==
  torn =>
  \/ call.pc = "done"
  \/ /\ CallRecord(call)
     /\ call.n \in Clients
     /\ call.op \in {"register", "unregister"} => call.c \in Classes
     /\ call.op = "register" => notifier[call.c] = NULL
     /\ call.op = "unregister" => notifier[call.c] = call.n

LEMMA CollideOwners ==
  ASSUME LinksTyped, Owners, NEW op, NEW n \in Clients, NEW c \in Classes, NEW k, NEW x,
         op \in {"register", "unregister", "all", "clear", "recv", "check", "remove"},
         Collide(op, n, c, k, x)
  PROVE  LinksTyped' /\ Owners' /\ CallOwner'
<1>1. UNCHANGED <<notifier, nextq, qfirst>>
  BY DEF Collide, classes
<1>2. PICK t : call' = [op |-> op, n |-> n, c |-> c, k |-> k, x |-> x, pc |-> "test",
                        s |-> t, next |-> NULL, read |-> 0]
  BY DEF Collide
<1>3. /\ op = "register" => notifier[c] = NULL
      /\ op = "unregister" => notifier[c] = n
  BY DEF Collide
<1>4. CallOwner'
  BY <1>1, <1>2, <1>3 DEF CallOwner, CallRecord
<1> QED
  BY <1>1, <1>4, SameOwners

\* What a step of the call may do to the record of the call itself.
Proceeds ==
  \/ call'.pc = "done"
  \/ /\ CallRecord(call')
     /\ call'.n = call.n /\ call'.op = call.op
     /\ call.op # "all" => call'.c = call.c

LEMMA ProceedsOwner ==
  ASSUME LinksTyped, Owners, CallOwner, torn, Proceeds, call.pc # "done",
         UNCHANGED <<torn, notifier, nextq, qfirst>>
  PROVE  LinksTyped' /\ Owners' /\ CallOwner'
<1>1. CallOwner'
  BY DEF CallOwner, Proceeds
<1> QED
  BY <1>1, SameOwners

LEMMA CallProceeds ==
  ASSUME CallRecord(call),
         \/ CallTest \/ CallUnlink \/ CallWalk \/ CallFree \/ CallCut \/ CallInc
         \/ CallDec \/ CallStatus \/ CallReset \/ CallResize
  PROVE  Proceeds /\ call.pc # "done" /\ UNCHANGED <<notifier, nextq, qfirst>>
<1>1. PICK op, n, c, k, x, pc, s, next, read :
         call = [op |-> op, n |-> n, c |-> c, k |-> k, x |-> x, pc |-> pc,
                 s |-> s, next |-> next, read |-> read]
  BY DEF CallRecord
<1>a. ASSUME NEW l, GoOn(l) PROVE Proceeds
  BY <1>1, <1>a DEF GoOn, Proceeds, CallRecord
<1>b. ASSUME Return PROVE Proceeds
  BY <1>b DEF Return, Proceeds
<1>2. CASE CallTest
  <2>1. \/ \E l, t : call' = [call EXCEPT !.pc = l, !.s = t]
        \/ \E l : call' = [call EXCEPT !.pc = l]
        \/ \E l, d : call' = [call EXCEPT !.pc = l, !.k = d]
        \/ \E l, d : call' = [call EXCEPT !.pc = l, !.x = d]
        \/ Return
    BY <1>2 DEF CallTest
  <2>2. call.pc # "done" /\ UNCHANGED <<notifier, nextq, qfirst>>
    BY <1>2 DEF CallTest, CallAt, classes
  <2>3. Proceeds
    BY <1>1, <1>b, <2>1 DEF Proceeds, CallRecord
  <2> QED
    BY <2>2, <2>3
<1>3. CASE CallUnlink \/ CallCut
  BY <1>1, <1>3 DEF CallUnlink, CallCut, Proceeds, CallRecord, CallAt, GoOn, classes
<1>4. CASE CallWalk
  BY <1>1, <1>4 DEF CallWalk, Proceeds, CallRecord, CallAt, classes
<1>5. CASE CallFree
  BY <1>1, <1>5 DEF CallFree, FreeReturns, Proceeds, CallRecord, CallAt, GoOn, classes
<1>6. CASE CallInc
  BY <1>1, <1>6 DEF CallInc, FreeReturns, Read, Proceeds, CallRecord, CallAt, classes
<1>7. CASE CallDec
  BY <1>1, <1>7 DEF CallDec, Read, GoOn, Proceeds, CallRecord, CallAt, classes
<1>8. CASE CallStatus
  <2>1. Return \/ \E l : GoOn(l)
    BY <1>8 DEF CallStatus
  <2>2. call.pc # "done" /\ UNCHANGED <<notifier, nextq, qfirst>>
    BY <1>8 DEF CallStatus, CallAt, classes
  <2> QED
    BY <1>a, <1>b, <2>1, <2>2
<1>9. CASE CallReset
  <2>1. Return \/ (\E l : GoOn(l)) \/ (\E l, d : call' = [call EXCEPT !.pc = l, !.k = d])
    BY <1>9 DEF CallReset
  <2>2. call.pc # "done" /\ UNCHANGED <<notifier, nextq, qfirst>>
    BY <1>9 DEF CallReset, CallAt, classes
  <2>3. ASSUME NEW l, NEW d, call' = [call EXCEPT !.pc = l, !.k = d] PROVE Proceeds
    BY <1>1, <2>3 DEF Proceeds, CallRecord
  <2> QED
    BY <1>a, <1>b, <2>1, <2>2, <2>3
<1>10. CASE CallResize
  BY <1>1, <1>10 DEF CallResize, Proceeds, CallRecord, CallAt
<1> QED
  BY <1>2, <1>3, <1>4, <1>5, <1>6, <1>7, <1>8, <1>9, <1>10

LEMMA CallLeaveOwners ==
  ASSUME LinksTyped, Owners, CallOwner, CallLeave
  PROVE  LinksTyped' /\ Owners' /\ CallOwner'
<1>1. call.pc = "leave" /\ torn /\ call'.pc = "done"
  BY DEF CallLeave, CallAt, Return
<1>2. CallOwner'
  BY <1>1 DEF CallOwner
<1>0. PICK n \in Clients : n = call.n
  BY <1>1 DEF CallOwner
<1>3. PICK c : c = call.c
  OBVIOUS
<1>4. CASE call.op = "register"
  <2>1. c \in Classes /\ notifier[c] = NULL
    BY <1>1, <1>0, <1>3, <1>4 DEF CallOwner
  <2>2. /\ notifier' = [notifier EXCEPT ![c] = n]
        /\ nextq' = [nextq EXCEPT ![c] = qfirst[n]] /\ qfirst' = [qfirst EXCEPT ![n] = c]
    BY <1>0, <1>3, <1>4 DEF CallLeave
  <2>3. Owners'
    BY <2>1, <2>2, RegisterOwners
  <2> QED
    BY <1>2, <2>1, <2>2, <2>3 DEF LinksTyped
<1>5. CASE call.op = "unregister"
  <2>1. c \in Classes /\ notifier[c] = n
    BY <1>1, <1>0, <1>3, <1>5 DEF CallOwner
  <2>2. notifier' = [notifier EXCEPT ![c] = NULL] /\ Unlink(n, c)
    BY <1>0, <1>3, <1>5 DEF CallLeave
  <2>3. notifier' = [e \in Classes |-> IF e \in {c} THEN NULL ELSE notifier[e]]
    BY <2>1, <2>2 DEF LinksTyped
  <2>4. /\ Owners'
        /\ nextq' \in [Classes -> Classes \cup {NULL}]
        /\ qfirst' \in [Clients -> Classes \cup {NULL}]
    BY <2>1, <2>2, <2>3, UnlinkOwners
  <2> QED
    BY <1>2, <2>3, <2>4 DEF LinksTyped
<1>6. CASE call.op = "all"
  <2>1. PICK mine : mine = Chain(nextq, qfirst[n])
    OBVIOUS
  <2>2. mine = {d \in Classes : notifier[d] = n}
    BY <2>1, ChainOfOwner
  <2>3. /\ notifier' = [d \in Classes |-> IF d \in mine THEN NULL ELSE notifier[d]]
        /\ nextq' = [d \in Classes |-> IF d \in mine THEN NULL ELSE nextq[d]]
        /\ qfirst' = [qfirst EXCEPT ![n] = NULL]
    BY <1>0, <1>3, <1>6, <2>1 DEF CallLeave
  <2>4. Owners'
    BY <2>2, <2>3, UnlinkAllOwners
  <2> QED
    BY <1>2, <2>3, <2>4 DEF LinksTyped
<1> QED
  BY <1>4, <1>5, <1>6 DEF CallLeave

LEMMA NextOwners ==
  ASSUME LinksTyped, Owners, CallOwner, ~Takeover, [Next]_vars
  PROVE  LinksTyped' /\ Owners' /\ CallOwner'
<1>1. CASE UNCHANGED vars
  <2>1. UNCHANGED <<notifier, nextq, qfirst>> /\ UNCHANGED <<torn, call>>
    BY <1>1 DEF vars, data
  <2>2. CallOwner'
    BY <2>1 DEF CallOwner, CallRecord
  <2> QED
    BY <2>1, <2>2, SameOwners
<1>2. CASE ~torn /\ Alone /\ UNCHANGED <<torn, call, task>>
  <2>1. LinksTyped' /\ Owners'
    BY <1>2, AloneOwners
  <2> QED
    BY <1>2, <2>1 DEF CallOwner
<1>3. ASSUME NEW n \in Overlapped, NEW c \in Classes, NEW k, NEW op, NEW x,
             op \in {"register", "unregister", "all", "clear", "recv", "check", "remove"},
             Collide(op, n, c, k, x)
      PROVE  LinksTyped' /\ Owners' /\ CallOwner'
  BY <1>3, CollideOwners, OverlapsAssumption
<1>4. CASE CallStep
  <2>1. UNCHANGED torn
    BY <1>4 DEF CallStep
  <2>2. torn
    BY <1>4 DEF CallStep, CallTest, CallUnlink, CallWalk, CallFree, CallCut, CallInc,
                CallDec, CallStatus, CallReset, CallResize, CallLeave, CallAt
  <2>3. call.pc # "done"
    BY <1>4 DEF CallStep, CallTest, CallUnlink, CallWalk, CallFree, CallCut, CallInc,
                CallDec, CallStatus, CallReset, CallResize, CallLeave, CallAt
  <2>4. CallRecord(call)
    BY <2>2, <2>3 DEF CallOwner
  <2> QED
    BY <1>4, <2>1, <2>2, <2>4, CallProceeds, ProceedsOwner, CallLeaveOwners DEF CallStep
<1>5. CASE TaskStep
  <2>1. UNCHANGED <<notifier, nextq, qfirst>> /\ UNCHANGED <<torn, call>>
    BY <1>5 DEF TaskStep, classes
  <2>2. CallOwner'
    BY <2>1 DEF CallOwner, CallRecord
  <2> QED
    BY <2>1, <2>2, SameOwners
<1> QED
  BY <1>1, <1>2, <1>3, <1>4, <1>5 DEF Next

-----------------------------------------------------------------------------
(***************************************************************************)
(* The theorems.  Those about slots hold until the tasklet overlaps a      *)
(* call: every step before is one of Alone.                                *)
(***************************************************************************)
LEMMA AloneBefore ==
  ASSUME [Next]_vars, ~torn'
  PROVE  ~torn /\ [Alone]_data
<1>1. CASE UNCHANGED vars
  BY <1>1 DEF vars
<1>2. CASE CallStep
  <2>1. torn
    BY <1>2 DEF CallStep, CallTest, CallUnlink, CallWalk, CallFree, CallCut, CallInc,
                CallDec, CallStatus, CallReset, CallResize, CallLeave, CallAt
  <2> QED
    BY <1>2, <2>1 DEF CallStep
<1>3. CASE TaskStep
  <2>1. torn
    BY <1>3 DEF TaskStep, TaskAdd, TaskTests, TaskScan, TaskTake, TaskLink, TaskCount,
                TaskStatus, TaskAt
  <2> QED
    BY <1>3, <2>1 DEF TaskStep
<1> QED
  BY <1>1, <1>2, <1>3 DEF Next, Collide

\* The links of the array of slots are lists, one per class and kind, and the
\* links of the classes are lists, one per client, until the tasklet overlaps a
\* call.  As in the run, classes are not taken over and one client at most
\* removes what it has checked.
THEOREM InductiveInvariant ==
  ASSUME ~Takeover, OneChecker
  PROVE  Spec => [](~torn => IInv)
<1>1. (~torn => IInv) /\ [Next]_vars => (~torn => IInv)'
  BY AloneBefore, AloneIInv
<1> QED
  BY <1>1, InitIInv, PTL DEF Spec

\* Until the tasklet overlaps a call, no slot leaks, none is in two lists, every
\* list is as long as u16MsgNum or u16InstantMsgNum says, and u16FreeSlots counts
\* the rest.
THEOREM SlotsStayAccounted ==
  ASSUME ~Takeover, OneChecker
  PROVE  Spec => []SlotsAccounted
<1>1. (~torn => IInv) => SlotsAccounted
  BY ListsAccount DEF IInv, SlotsAccounted
<1> QED
  BY <1>1, InductiveInvariant, PTL

\* s16MsgQFirst and s16NextMsgQ lead through exactly the classes whose
\* s16MsgQNotifierID names the client, however many clients check and remove,
\* and whatever the tasklet does beside their calls.
THEOREM ListsStayWithOwners ==
  ASSUME ~Takeover
  PROVE  Spec => []ListsMatchOwners
<1>1. Init => LinksTyped /\ Owners /\ CallOwner
  BY InitIInv DEF IInv, ClassTyped, Init, CallOwner
<1>2. LinksTyped /\ Owners /\ CallOwner /\ [Next]_vars => LinksTyped' /\ Owners' /\ CallOwner'
  BY NextOwners
<1>3. LinksTyped /\ Owners => ListsMatchOwners
  BY OwnersMatch
<1> QED
  BY <1>1, <1>2, <1>3, PTL DEF Spec

\* Until the tasklet overlaps a call, u16RegistedSlots is the sum of the sizes of
\* the registered classes and never exceeds the pool, and a class never has more
\* messages than its size.
THEOREM ReservationsHold ==
  ASSUME ~Takeover, OneChecker
  PROVE  Spec => [](~torn => Sized /\ Room)
<1>1. /\ ~torn => IInv
      /\ ~torn => Sized /\ Room
      /\ [Next]_vars
      => (~torn => Sized /\ Room)'
  BY AloneBefore, AloneRoom
<1>2. Init => Sized /\ Room
  BY InitSized
<1> QED
  BY <1>1, <1>2, InductiveInvariant, PTL DEF Spec

\* Every variable keeps its type until the tasklet overlaps a call; in particular
\* u16FreeSlots, u16RegistedSlots and the message counts stay between 0 and the
\* number of slots.
THEOREM TypeCorrect ==
  ASSUME ~Takeover, OneChecker
  PROVE  Spec => []TypeOK
<1>1. (~torn => IInv) /\ (~torn => Sized /\ Room) => TypeOK
  BY PoolTypes, ClassTypes DEF TypeOK
<1> QED
  BY <1>1, InductiveInvariant, ReservationsHold, PTL

\* Until the tasklet overlaps a call, the array of linked slots implements the
\* FIFO queues of MbxQueues: messages come out in the order of their arrival, none
\* is lost or made up, and one is refused only when its class is not registered
\* or full.
THEOREM PoolImplementsQueues ==
  ASSUME ~Takeover, OneChecker
  PROVE  Spec => ImplementsQueues
<1>1. Init => Queues!Init
  BY InitRefines
<1>2. /\ ~torn => IInv
      /\ ~torn => Sized /\ Room
      /\ [Next]_vars
      => [~torn' => Queues!Next]_(Queues!vars)
  BY AloneBefore, AloneRefines
<1> QED
  BY <1>1, <1>2, InductiveInvariant, ReservationsHold, PTL
     DEF Spec, ImplementsQueues
=============================================================================

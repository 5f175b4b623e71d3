------------------------------- MODULE CartProofs ------------------------------
(***************************************************************************)
(* Proofs about Cart, for any number of requests, users, lost commands and *)
(* resends: the type invariant; that the markers in a cart never outnumber *)
(* the removals that owe them; that without them a cart is the list of     *)
(* CartStore; and so that nothing is lost from it or forged in it.         *)
(***************************************************************************)
EXTENDS Cart, TLAPS, FiniteSetTheorems, FunctionTheorems, SequenceTheorems

--------------------------------------------------------------------------------
\* What the Redis commands do to a list.

Elements == Items \cup {Marker}

\* LPUSH puts an item in front; what was there moves up by one.
LEMMA PushedList ==
    ASSUME NEW l \in Seq(Elements), NEW item \in Items
    PROVE  /\ Pushed(l, item) \in Seq(Elements)
           /\ Len(Pushed(l, item)) = Len(l) + 1
           /\ Pushed(l, item)[1] = item
           /\ \A i \in 2..(Len(l) + 1) : Pushed(l, item)[i] = l[i - 1]
<1>1. <<item>> \in Seq(Elements) /\ Len(<<item>>) = 1 /\ <<item>>[1] = item
  BY DEF Elements
<1> QED
  BY <1>1, ConcatProperties DEF Pushed

\* LSET changes one slot and no length.
LEMMA MarkedList ==
    ASSUME NEW l \in Seq(Elements), NEW index \in Int
    PROVE  /\ Marked(l, index) \in Seq(Elements)
           /\ Len(Marked(l, index)) = Len(l)
           /\ \A i \in 1..Len(l) : i # index + 1 => Marked(l, index)[i] = l[i]
BY DEF Marked, InRange, ReplaceAt, Elements

\* Taking out one place closes the gap.
LEMMA RemovedAt ==
    ASSUME NEW l \in Seq(Elements), NEW j \in 1..Len(l)
    PROVE  /\ RemoveAt(l, j) \in Seq(Elements)
           /\ Len(RemoveAt(l, j)) = Len(l) - 1
           /\ \A i \in 1..(Len(l) - 1) :
                 RemoveAt(l, j)[i] = IF i < j THEN l[i] ELSE l[i + 1]
<1> DEFINE front == SubSeq(l, 1, j - 1)
           back  == SubSeq(l, j + 1, Len(l))
<1>1. \A i \in 1..Len(l) : l[i] \in Elements
  OBVIOUS
<1>2. /\ front \in Seq(Elements)
      /\ Len(front) = j - 1
      /\ \A i \in 1..(j - 1) : front[i] = l[i]
  <2>1. \A i \in 1..(j - 1) : l[i] \in Elements
    BY <1>1
  <2> QED
    BY <2>1, SubSeqProperties
<1>3. /\ back \in Seq(Elements)
      /\ Len(back) = Len(l) - j
      /\ \A i \in 1..(Len(l) - j) : back[i] = l[j + i]
  <2>1. \A i \in (j + 1)..Len(l) : l[i] \in Elements
    BY <1>1
  <2>2. j + 1 \in Int /\ Len(l) \in Int
    OBVIOUS
  <2>3. /\ back \in Seq(Elements)
        /\ Len(back) = IF j + 1 <= Len(l) THEN Len(l) - (j + 1) + 1 ELSE 0
        /\ \A i \in 1..(Len(l) - (j + 1) + 1) : back[i] = l[(j + 1) + i - 1]
    BY <2>1, <2>2, SubSeqProperties
  <2> QED
    BY <2>3
<1> HIDE DEF front, back
<1>4. /\ front \o back \in Seq(Elements)
      /\ Len(front \o back) = Len(l) - 1
      /\ \A i \in 1..(Len(l) - 1) :
            (front \o back)[i] = IF i < j THEN front[i] ELSE back[i - (j - 1)]
  <2>1. /\ front \o back \in Seq(Elements)
        /\ Len(front \o back) = Len(front) + Len(back)
        /\ \A i \in 1..(Len(front) + Len(back)) :
              (front \o back)[i] = IF i <= Len(front) THEN front[i] ELSE back[i - Len(front)]
    BY <1>2, <1>3, ConcatProperties
  <2> QED
    BY <1>2, <1>3, <2>1
<1>5. RemoveAt(l, j) = front \o back
  BY DEF RemoveAt, front, back
<1>6. ASSUME NEW i \in 1..(Len(l) - 1)
      PROVE  (front \o back)[i] = IF i < j THEN l[i] ELSE l[i + 1]
  BY <1>2, <1>3, <1>4
<1> QED
  BY <1>4, <1>5, <1>6

\* A set of numbers that is not empty has a least one.
LEMMA LeastOf ==
    ASSUME NEW I \in SUBSET Nat, I # {}
    PROVE  \E j \in I : \A i \in I : j <= i
<1> DEFINE R == OpToRel(<, Nat)
<1>1. IsWellFoundedOn(R, Nat)
  BY NatLessThanWellFounded
<1>2. \A i, j \in Nat : <<i, j>> \notin R => j <= i
  BY DEF OpToRel
<1> HIDE DEF R
<1>3. \E j \in I : \A i \in I : <<i, j>> \notin R
  BY <1>1, WFMin
<1> QED
  BY <1>2, <1>3

\* LREM takes out the first marker, if there is one.
LEMMA SweptList ==
    ASSUME NEW l \in Seq(Elements)
    PROVE  \/ MarkersIn(l) = {} /\ Swept(l) = l
           \/ \E j \in MarkersIn(l) : Swept(l) = RemoveAt(l, j)
<1>1. CASE \E i \in 1..Len(l) : l[i] = Marker
  <2> DEFINE I == {i \in 1..Len(l) : l[i] = Marker}
  <2>0. I \in SUBSET Nat /\ I # {}
    BY <1>1
  <2> HIDE DEF I
  <2>1. PICK j \in I : \A i \in I : j <= i
    BY <2>0, LeastOf
  <2> USE DEF I
  <2>2. Min(I) \in I
    BY <2>1 DEF Min
  <2>3. Swept(l) = RemoveAt(l, Min(I))
    BY <1>1 DEF Swept, RemoveFirst, SelectInSeq
  <2>4. MarkersIn(l) = I
    BY DEF MarkersIn
  <2> QED
    BY <2>2, <2>3, <2>4
<1>2. CASE ~\E i \in 1..Len(l) : l[i] = Marker
  BY <1>2 DEF Swept, RemoveFirst, MarkersIn
<1> QED
  BY <1>1, <1>2

--------------------------------------------------------------------------------
\* How many markers a list has.

\* An element more is at most one more.
LEMMA OneMore ==
    ASSUME NEW S, IsFiniteSet(S), NEW x
    PROVE  /\ IsFiniteSet(S \cup {x})
           /\ Cardinality(S \cup {x}) \in Nat
           /\ Cardinality(S \cup {x}) <= Cardinality(S) + 1
<1>1. Cardinality(S) \in Nat
  BY FS_CardinalityType
<1>2. Cardinality(S \cup {x}) = IF x \in S THEN Cardinality(S) ELSE Cardinality(S) + 1
  BY FS_AddElement
<1>3. IsFiniteSet(S \cup {x})
  BY FS_AddElement
<1> QED
  BY <1>1, <1>2, <1>3

\* A list has finitely many markers.
LEMMA MarkersFinite ==
    ASSUME NEW l \in Seq(Elements)
    PROVE  /\ IsFiniteSet(MarkersIn(l))
           /\ Cardinality(MarkersIn(l)) \in Nat
<1>1. IsFiniteSet(1..Len(l))
  BY FS_Interval
<1>2. MarkersIn(l) \subseteq 1..Len(l)
  BY DEF MarkersIn
<1> QED
  BY <1>1, <1>2, FS_Subset, FS_CardinalityType

\* LPUSH of an item moves the markers, and brings none.
LEMMA PushedMarkers ==
    ASSUME NEW l \in Seq(Elements), NEW item \in Items
    PROVE  Cardinality(MarkersIn(Pushed(l, item))) <= Cardinality(MarkersIn(l))
<1> DEFINE moved == MarkersIn(Pushed(l, item))
           down  == [i \in moved |-> i - 1]
<1>1. ASSUME NEW i \in moved
      PROVE  i \in 2..(Len(l) + 1) /\ i - 1 \in MarkersIn(l)
  BY PushedList, CartConstantsAssumption DEF MarkersIn, Elements
<1>2. down \in Injection(moved, MarkersIn(l))
  <2>1. down \in [moved -> MarkersIn(l)]
    BY <1>1
  <2>2. \A i, j \in moved : down[i] = down[j] => i = j
    BY <1>1
  <2> HIDE DEF moved, down
  <2> QED
    BY <2>1, <2>2, Fun_IsInj
<1> HIDE DEF moved, down
<1> QED
  BY <1>2, MarkersFinite, FS_Injection DEF moved

\* LSET writes one marker.
LEMMA MarkedMarkers ==
    ASSUME NEW l \in Seq(Elements), NEW index \in Int
    PROVE  Cardinality(MarkersIn(Marked(l, index))) <= Cardinality(MarkersIn(l)) + 1
<1>1. MarkersIn(Marked(l, index)) \subseteq MarkersIn(l) \cup {index + 1}
  BY MarkedList DEF MarkersIn
<1>2. /\ IsFiniteSet(MarkersIn(l) \cup {index + 1})
      /\ Cardinality(MarkersIn(l) \cup {index + 1}) <= Cardinality(MarkersIn(l)) + 1
  BY MarkersFinite, OneMore
<1>3. Cardinality(MarkersIn(Marked(l, index))) <= Cardinality(MarkersIn(l) \cup {index + 1})
  BY <1>1, <1>2, FS_Subset
<1>4. /\ Cardinality(MarkersIn(Marked(l, index))) \in Nat
      /\ Cardinality(MarkersIn(l) \cup {index + 1}) \in Nat
      /\ Cardinality(MarkersIn(l)) \in Nat
  BY <1>2, MarkedList, MarkersFinite, FS_CardinalityType
<1> QED
  BY <1>2, <1>3, <1>4

\* LREM takes a marker out of every list that has one.
LEMMA SweptMarkers ==
    ASSUME NEW l \in Seq(Elements)
    PROVE  /\ Swept(l) \in Seq(Elements)
           /\ \/ Cardinality(MarkersIn(Swept(l))) = 0
              \/ Cardinality(MarkersIn(Swept(l))) <= Cardinality(MarkersIn(l)) - 1
<1>1. CASE MarkersIn(l) = {} /\ Swept(l) = l
  BY <1>1, FS_EmptySet
<1>2. ASSUME NEW j \in MarkersIn(l), Swept(l) = RemoveAt(l, j)
      PROVE  /\ Swept(l) \in Seq(Elements)
             /\ Cardinality(MarkersIn(Swept(l))) <= Cardinality(MarkersIn(l)) - 1
  <2> DEFINE left == MarkersIn(RemoveAt(l, j))
             up   == [i \in left |-> IF i < j THEN i ELSE i + 1]
  <2>1. j \in 1..Len(l)
    BY DEF MarkersIn
  <2>2. ASSUME NEW i \in left
        PROVE  i \in Nat /\ (IF i < j THEN i ELSE i + 1) \in MarkersIn(l) \ {j}
    <3> DEFINE t == RemoveAt(l, j)
    <3>1. /\ t \in Seq(Elements)
          /\ Len(t) = Len(l) - 1
          /\ \A k \in 1..(Len(l) - 1) : t[k] = IF k < j THEN l[k] ELSE l[k + 1]
      BY <2>1, RemovedAt
    <3> HIDE DEF t
    <3>2. i \in 1..Len(t) /\ t[i] = Marker
      BY <3>1 DEF MarkersIn, t
    <3> QED
      BY <2>1, <3>1, <3>2 DEF MarkersIn
  <2>3. up \in Injection(left, MarkersIn(l) \ {j})
    <3>1. up \in [left -> MarkersIn(l) \ {j}]
      BY <2>2
    <3>2. \A i, k \in left : up[i] = up[k] => i = k
      BY <2>1, <2>2
    <3> HIDE DEF left, up
    <3> QED
      BY <3>1, <3>2, Fun_IsInj
  <2>4. /\ IsFiniteSet(MarkersIn(l) \ {j})
        /\ Cardinality(MarkersIn(l) \ {j}) = Cardinality(MarkersIn(l)) - 1
    BY MarkersFinite, FS_RemoveElement
  <2> HIDE DEF left, up
  <2>5. Cardinality(left) <= Cardinality(MarkersIn(l)) - 1
    BY <2>3, <2>4, FS_Injection
  <2> QED
    BY <1>2, <2>1, <2>5, RemovedAt DEF left
<1> QED
  BY <1>1, <1>2, SweptList

--------------------------------------------------------------------------------
\* What is seen of a list without its markers.

\* Two counts that start alike and grow alike are alike.
LEMMA SameSteps ==
    ASSUME NEW n \in Nat, NEW f \in [0..n -> Int], NEW g \in [0..n -> Int],
           f[0] = g[0],
           \A i \in 1..n : f[i] - f[i - 1] = g[i] - g[i - 1]
    PROVE  \A i \in 0..n : f[i] = g[i]
<1> DEFINE Differ == {i \in 0..n : f[i] # g[i]}
<1> SUFFICES ASSUME Differ # {} PROVE FALSE
  OBVIOUS
<1>0. Differ \in SUBSET Nat
  OBVIOUS
<1> HIDE DEF Differ
<1>1. PICK j \in Differ : \A i \in Differ : j <= i
  BY <1>0, LeastOf
<1> USE DEF Differ
<1>2. j \in 1..n /\ f[j - 1] = g[j - 1]
  BY <1>1
<1>3. /\ f[j] \in Int /\ g[j] \in Int
      /\ f[j - 1] \in Int /\ g[j - 1] \in Int
      /\ f[j] - f[j - 1] = g[j] - g[j - 1]
  BY <1>2
<1> QED
  BY <1>1, <1>2, <1>3

\* The items up to a place: one more than up to the place before, or as many.
LEMMA ItemsCounted ==
    ASSUME NEW l \in Seq(Elements)
    PROVE  /\ ItemsUpTo(l, 0) = 0
           /\ \A i \in 0..Len(l) : ItemsUpTo(l, i) \in Nat
           /\ \A i \in 1..Len(l) :
                 ItemsUpTo(l, i) = ItemsUpTo(l, i - 1) + (IF l[i] = Marker THEN 0 ELSE 1)
<1> DEFINE Before(i) == {j \in 1..i : l[j] # Marker}
<1>1. \A i \in 0..Len(l) : IsFiniteSet(Before(i)) /\ Cardinality(Before(i)) \in Nat
  <2> TAKE i \in 0..Len(l)
  <2>1. IsFiniteSet(1..i) /\ Before(i) \subseteq 1..i
    BY FS_Interval
  <2> QED
    BY <2>1, FS_Subset, FS_CardinalityType
<1>2. Before(0) = {}
  OBVIOUS
<1>3. ASSUME NEW i \in 1..Len(l)
      PROVE  Cardinality(Before(i)) = Cardinality(Before(i - 1)) + (IF l[i] = Marker THEN 0 ELSE 1)
  <2>1. i - 1 \in 0..Len(l) /\ i \notin Before(i - 1)
    OBVIOUS
  <2>2. CASE l[i] = Marker
    <3>1. Before(i) = Before(i - 1)
      BY <2>2
    <3>2. Cardinality(Before(i - 1)) \in Nat
      BY <1>1, <2>1
    <3> HIDE DEF Before
    <3> QED
      BY <2>2, <3>1, <3>2
  <2>3. CASE l[i] # Marker
    <3>1. Before(i) = Before(i - 1) \cup {i}
      BY <2>3
    <3> HIDE DEF Before
    <3>2. Cardinality(Before(i - 1) \cup {i}) = Cardinality(Before(i - 1)) + 1
      BY <1>1, <2>1, FS_AddElement
    <3> QED
      BY <2>3, <3>1, <3>2
  <2> QED
    BY <2>2, <2>3
<1>4. \A i : ItemsUpTo(l, i) = Cardinality(Before(i))
  BY DEF ItemsUpTo
<1> HIDE DEF Before
<1>5. ItemsUpTo(l, 0) = 0
  BY <1>2, <1>4, FS_EmptySet
<1> QED
  BY <1>1, <1>3, <1>4, <1>5

\* The further, the more items; and an item is one more than before it.
LEMMA ItemsGrow ==
    ASSUME NEW l \in Seq(Elements), NEW i \in 0..Len(l), NEW j \in 0..Len(l), i <= j
    PROVE  /\ ItemsUpTo(l, i) <= ItemsUpTo(l, j)
           /\ i < j /\ l[j] # Marker => ItemsUpTo(l, i) < ItemsUpTo(l, j)
<1>1. ASSUME NEW k \in 0..Len(l), i <= k
      PROVE  ItemsUpTo(l, i) <= ItemsUpTo(l, k)
  <2>1. {p \in 1..i : l[p] # Marker} \subseteq {p \in 1..k : l[p] # Marker}
    BY <1>1
  <2>2. IsFiniteSet(1..k) /\ {p \in 1..k : l[p] # Marker} \subseteq 1..k
    BY FS_Interval
  <2> QED
    BY <2>1, <2>2, FS_Subset DEF ItemsUpTo
<1>2. ASSUME i < j, l[j] # Marker
      PROVE  ItemsUpTo(l, i) < ItemsUpTo(l, j)
  <2>1. j \in 1..Len(l) /\ j - 1 \in 0..Len(l) /\ i <= j - 1
    BY <1>2
  <2>2. ItemsUpTo(l, i) <= ItemsUpTo(l, j - 1)
    BY <1>1, <2>1
  <2>3. ItemsUpTo(l, j) = ItemsUpTo(l, j - 1) + 1
    BY <1>2, <2>1, ItemsCounted
  <2>4. ItemsUpTo(l, i) \in Nat /\ ItemsUpTo(l, j - 1) \in Nat
    BY <2>1, ItemsCounted
  <2> QED
    BY <2>2, <2>3, <2>4
<1> QED
  BY <1>1, <1>2

\* Every count up to the last is that of an item.
LEMMA ItemReached ==
    ASSUME NEW l \in Seq(Elements), NEW k \in 1..ItemsUpTo(l, Len(l))
    PROVE  \E i \in 1..Len(l) : l[i] # Marker /\ ItemsUpTo(l, i) = k
<1> DEFINE There == {i \in 0..Len(l) : k <= ItemsUpTo(l, i)}
<1>1. Len(l) \in There /\ There \subseteq Nat
  BY ItemsCounted
<1>2. PICK i \in There : \A j \in There : i <= j
  BY <1>1, LeastOf
<1>3. i \in 1..Len(l) /\ i - 1 \in 0..Len(l)
  BY <1>2, ItemsCounted
<1>4. ~(k <= ItemsUpTo(l, i - 1))
  BY <1>2, <1>3
<1>5. /\ ItemsUpTo(l, i - 1) \in Nat
      /\ ItemsUpTo(l, i) = ItemsUpTo(l, i - 1) + (IF l[i] = Marker THEN 0 ELSE 1)
  BY <1>3, ItemsCounted
<1>6. k <= ItemsUpTo(l, i)
  BY <1>2
<1> QED
  BY <1>3, <1>4, <1>5, <1>6

\* An item is seen where it is counted.
LEMMA SeenAt ==
    ASSUME NEW l \in Seq(Elements)
    PROVE  /\ Visible(l) \in Seq(Items)
           /\ Visible(l) \in Seq(Elements)
           /\ Len(Visible(l)) = ItemsUpTo(l, Len(l))
           /\ \A i \in 1..Len(l) : l[i] # Marker =>
                 /\ ItemsUpTo(l, i) \in 1..ItemsUpTo(l, Len(l))
                 /\ Visible(l)[ItemsUpTo(l, i)] = l[i]
<1> DEFINE n == ItemsUpTo(l, Len(l))
<1>1. n \in Nat
  BY ItemsCounted
<1>2. ASSUME NEW i \in 1..Len(l), l[i] # Marker
      PROVE  ItemsUpTo(l, i) \in 1..n /\ ItemPlace(l, ItemsUpTo(l, i)) = i
  <2>1. ItemsUpTo(l, i) \in Nat /\ ItemsUpTo(l, i) <= n
    BY <1>1, ItemsCounted, ItemsGrow
  <2>2. ItemsUpTo(l, 0) < ItemsUpTo(l, i) /\ ItemsUpTo(l, 0) = 0
    BY <1>2, ItemsCounted, ItemsGrow
  <2>3. \A j \in 1..Len(l) : l[j] # Marker /\ ItemsUpTo(l, j) = ItemsUpTo(l, i) => j = i
    <3>1. ASSUME NEW j \in 1..Len(l), l[j] # Marker, ItemsUpTo(l, j) = ItemsUpTo(l, i), j # i
          PROVE  FALSE
      <4>1. ItemsUpTo(l, j) \in Nat /\ ItemsUpTo(l, i) \in Nat
        BY ItemsCounted
      <4>2. CASE i < j
        BY <3>1, <4>1, <4>2, ItemsGrow
      <4>3. CASE j < i
        BY <1>2, <3>1, <4>1, <4>3, ItemsGrow
      <4> QED
        BY <3>1, <4>2, <4>3
    <3> QED
      BY <3>1
  <2> QED
    BY <1>2, <2>1, <2>2, <2>3 DEF ItemPlace
<1>3. ASSUME NEW k \in 1..n
      PROVE  l[ItemPlace(l, k)] \in Items
  <2>1. PICK i \in 1..Len(l) : l[i] # Marker /\ ItemsUpTo(l, i) = k
    BY <1>3, ItemReached
  <2>2. l[i] \in Elements
    OBVIOUS
  <2> QED
    BY <1>2, <2>1, <2>2 DEF Elements
<1> HIDE DEF n
<1>4. Visible(l) = [k \in 1..n |-> l[ItemPlace(l, k)]]
  BY DEF Visible, n
<1>5. Visible(l) \in [1..n -> Items]
  BY <1>3, <1>4
<1>6. Visible(l) \in Seq(Items) /\ Len(Visible(l)) = n
  BY <1>1, <1>5
<1>7. Visible(l) \in Seq(Elements)
  BY <1>6, SeqMonotonic DEF Elements
<1> QED
  BY <1>2, <1>4, <1>6, <1>7 DEF n

\* A list of items that has each of them where it is counted is what is seen.
LEMMA SeenAs ==
    ASSUME NEW l \in Seq(Elements), NEW v \in Seq(Elements),
           Len(v) = ItemsUpTo(l, Len(l)),
           \A i \in 1..Len(l) : l[i] # Marker => v[ItemsUpTo(l, i)] = l[i]
    PROVE  Visible(l) = v
<1>1. /\ Visible(l) \in Seq(Elements)
      /\ Len(Visible(l)) = Len(v)
      /\ \A i \in 1..Len(l) : l[i] # Marker => Visible(l)[ItemsUpTo(l, i)] = l[i]
  BY SeenAt
<1>2. ASSUME NEW k \in 1..Len(v)
      PROVE  Visible(l)[k] = v[k]
  <2>1. PICK i \in 1..Len(l) : l[i] # Marker /\ ItemsUpTo(l, i) = k
    BY <1>2, ItemReached
  <2> QED
    BY <1>1, <2>1
<1> QED
  BY <1>1, <1>2, SeqEqual

\* LPUSH of an item puts it in front of what is seen.
LEMMA SeenPushed ==
    ASSUME NEW l \in Seq(Elements), NEW item \in Items
    PROVE  Visible(Pushed(l, item)) = <<item>> \o Visible(l)
<1> DEFINE m == Pushed(l, item)
           v == <<item>> \o Visible(l)
           f == [i \in 0..Len(l) |-> ItemsUpTo(m, i + 1)]
           g == [i \in 0..Len(l) |-> ItemsUpTo(l, i) + 1]
<1>1. /\ m \in Seq(Elements)
      /\ Len(m) = Len(l) + 1
      /\ m[1] = item /\ m[1] # Marker
      /\ \A i \in 1..Len(l) : m[i + 1] = l[i]
  BY PushedList, CartConstantsAssumption
<1> HIDE DEF m
<1>2. \A i \in 0..Len(l) : f[i] = g[i]
  <2>1. /\ \A i \in 0..Len(l) : ItemsUpTo(l, i) \in Nat
        /\ \A i \in 0..(Len(l) + 1) : ItemsUpTo(m, i) \in Nat
    BY <1>1, ItemsCounted
  <2>2. f \in [0..Len(l) -> Int] /\ g \in [0..Len(l) -> Int]
    BY <2>1
  <2>3. f[0] = g[0]
    <3>1. ItemsUpTo(m, 0) = 0 /\ ItemsUpTo(m, 1) = ItemsUpTo(m, 0) + 1
      BY <1>1, ItemsCounted
    <3>2. ItemsUpTo(l, 0) = 0
      BY ItemsCounted
    <3> QED
      BY <3>1, <3>2
  <2>4. ASSUME NEW i \in 1..Len(l)
        PROVE  f[i] - f[i - 1] = g[i] - g[i - 1]
    <3>1. ItemsUpTo(m, i + 1) = ItemsUpTo(m, i) + (IF l[i] = Marker THEN 0 ELSE 1)
      <4>1. i + 1 \in 1..Len(m) /\ (i + 1) - 1 = i /\ m[i + 1] = l[i]
        BY <1>1
      <4> QED
        BY <1>1, <4>1, ItemsCounted
    <3>2. ItemsUpTo(l, i) = ItemsUpTo(l, i - 1) + (IF l[i] = Marker THEN 0 ELSE 1)
      BY ItemsCounted
    <3>3. /\ f[i] = ItemsUpTo(m, i + 1) /\ f[i - 1] = ItemsUpTo(m, i)
          /\ g[i] = ItemsUpTo(l, i) + 1 /\ g[i - 1] = ItemsUpTo(l, i - 1) + 1
      OBVIOUS
    <3>4. ItemsUpTo(m, i) \in Nat /\ ItemsUpTo(l, i - 1) \in Nat
      BY <2>1
    <3> HIDE DEF f, g
    <3> QED
      BY <3>1, <3>2, <3>3, <3>4
  <2>5. Len(l) \in Nat
    OBVIOUS
  <2> HIDE DEF f, g
  <2> QED
    BY <2>2, <2>3, <2>4, <2>5, SameSteps
<1>3. \A i \in 0..Len(l) : ItemsUpTo(m, i + 1) = ItemsUpTo(l, i) + 1
  BY <1>2
<1>4. /\ v \in Seq(Elements)
      /\ Len(v) = ItemsUpTo(l, Len(l)) + 1
      /\ v[1] = item
      /\ \A k \in 1..ItemsUpTo(l, Len(l)) : v[k + 1] = Visible(l)[k]
  <2>1. <<item>> \in Seq(Elements) /\ Len(<<item>>) = 1 /\ <<item>>[1] = item
    BY DEF Elements
  <2>2. Visible(l) \in Seq(Elements) /\ Len(Visible(l)) = ItemsUpTo(l, Len(l))
    BY SeenAt
  <2> QED
    BY <2>1, <2>2, ConcatProperties
<1> HIDE DEF v, f, g
<1>5. Len(v) = ItemsUpTo(m, Len(m))
  BY <1>1, <1>3, <1>4
<1>6. ASSUME NEW i \in 1..Len(m), m[i] # Marker
      PROVE  v[ItemsUpTo(m, i)] = m[i]
  <2>1. CASE i = 1
    <3>1. ItemsUpTo(m, 0 + 1) = ItemsUpTo(l, 0) + 1 /\ ItemsUpTo(l, 0) = 0
      BY <1>3, ItemsCounted
    <3> QED
      BY <1>1, <1>4, <2>1, <3>1
  <2>2. CASE i # 1
    <3>1. PICK j \in 1..Len(l) : i = j + 1
      <4>1. i - 1 \in 1..Len(l) /\ i = (i - 1) + 1
        BY <1>1, <2>2
      <4> QED
        BY <4>1
    <3>2. m[i] = l[j] /\ l[j] # Marker
      BY <1>1, <1>6, <3>1
    <3>3. ItemsUpTo(m, i) = ItemsUpTo(l, j) + 1
      BY <1>3, <3>1
    <3>4. ItemsUpTo(l, j) \in 1..ItemsUpTo(l, Len(l)) /\ Visible(l)[ItemsUpTo(l, j)] = l[j]
      BY <3>2, SeenAt
    <3> QED
      BY <1>4, <3>2, <3>3, <3>4
  <2> QED
    BY <2>1, <2>2
<1>7. Visible(m) = v
  BY <1>1, <1>4, <1>5, <1>6, SeenAs
<1> QED
  BY <1>7 DEF m, v

\* LSET of an item takes it out of what is seen.
LEMMA SeenMarkedItem ==
    ASSUME NEW l \in Seq(Elements), NEW index \in Int,
           InRange(l, index), l[index + 1] # Marker
    PROVE  /\ ItemsUpTo(l, index + 1) \in DOMAIN Visible(l)
           /\ Visible(Marked(l, index)) = RemoveAt(Visible(l), ItemsUpTo(l, index + 1))
<1> DEFINE p == index + 1
           m == [l EXCEPT ![p] = Marker]
           c == ItemsUpTo(l, p)
           v == RemoveAt(Visible(l), c)
           f == [i \in 0..Len(l) |-> ItemsUpTo(m, i)]
           g == [i \in 0..Len(l) |-> ItemsUpTo(l, i) - (IF i < p THEN 0 ELSE 1)]
<1>0. l[p] # Marker
  OBVIOUS
<1>1. p \in 1..Len(l)
  BY DEF InRange
<1>2. /\ m \in Seq(Elements)
      /\ Len(m) = Len(l)
      /\ m[p] = Marker
      /\ \A i \in 1..Len(l) : i # p => m[i] = l[i]
  BY <1>1 DEF Elements
<1>3. Marked(l, index) = m
  BY DEF Marked, ReplaceAt
<1> HIDE DEF m, p
<1>4. /\ \A i \in 0..Len(l) : ItemsUpTo(l, i) \in Nat /\ ItemsUpTo(m, i) \in Nat
      /\ ItemsUpTo(l, 0) = 0 /\ ItemsUpTo(m, 0) = 0
  BY <1>2, ItemsCounted
<1>5. \A i \in 0..Len(l) : f[i] = g[i]
  <2>1. f \in [0..Len(l) -> Int] /\ g \in [0..Len(l) -> Int]
    BY <1>4
  <2>2. f[0] = g[0]
    BY <1>1, <1>4
  <2>3. ASSUME NEW i \in 1..Len(l)
        PROVE  f[i] - f[i - 1] = g[i] - g[i - 1]
    <3>1. ItemsUpTo(m, i) = ItemsUpTo(m, i - 1) + (IF m[i] = Marker THEN 0 ELSE 1)
      BY <1>2, ItemsCounted
    <3>2. ItemsUpTo(l, i) = ItemsUpTo(l, i - 1) + (IF l[i] = Marker THEN 0 ELSE 1)
      BY ItemsCounted
    <3>3. /\ f[i] = ItemsUpTo(m, i) /\ f[i - 1] = ItemsUpTo(m, i - 1)
          /\ g[i] = ItemsUpTo(l, i) - (IF i < p THEN 0 ELSE 1)
          /\ g[i - 1] = ItemsUpTo(l, i - 1) - (IF i - 1 < p THEN 0 ELSE 1)
      OBVIOUS
    <3>4. ItemsUpTo(m, i - 1) \in Nat /\ ItemsUpTo(l, i - 1) \in Nat
      BY <1>4
    <3> HIDE DEF f, g
    <3>5. CASE i = p
      BY <1>0, <1>1, <1>2, <3>1, <3>2, <3>3, <3>4, <3>5
    <3>6. CASE i # p
      BY <1>1, <1>2, <3>1, <3>2, <3>3, <3>4, <3>6
    <3> QED
      BY <3>5, <3>6
  <2>4. Len(l) \in Nat
    OBVIOUS
  <2> HIDE DEF f, g
  <2> QED
    BY <2>1, <2>2, <2>3, <2>4, SameSteps
<1>6. \A i \in 0..Len(l) : ItemsUpTo(m, i) = ItemsUpTo(l, i) - (IF i < p THEN 0 ELSE 1)
  BY <1>5
<1>7. c \in 1..ItemsUpTo(l, Len(l)) /\ ItemsUpTo(l, Len(l)) \in Nat
  <2>1. ItemsUpTo(l, p) \in 1..ItemsUpTo(l, Len(l))
    BY <1>0, <1>1, SeenAt
  <2> QED
    BY <1>4, <2>1
<1>8. /\ Visible(l) \in Seq(Elements)
      /\ Len(Visible(l)) = ItemsUpTo(l, Len(l))
  BY SeenAt
<1> HIDE DEF c, f, g
<1>9. /\ v \in Seq(Elements)
      /\ Len(v) = ItemsUpTo(l, Len(l)) - 1
      /\ \A k \in 1..(ItemsUpTo(l, Len(l)) - 1) :
            v[k] = IF k < c THEN Visible(l)[k] ELSE Visible(l)[k + 1]
  BY <1>7, <1>8, RemovedAt
<1> HIDE DEF v
<1>10. Len(v) = ItemsUpTo(m, Len(m))
  BY <1>1, <1>2, <1>6, <1>9
<1>11. ASSUME NEW i \in 1..Len(m), m[i] # Marker
       PROVE  v[ItemsUpTo(m, i)] = m[i]
  <2>1. i \in 1..Len(l) /\ i # p /\ l[i] # Marker /\ m[i] = l[i]
    BY <1>2, <1>11
  <2>2. /\ ItemsUpTo(l, i) \in 1..ItemsUpTo(l, Len(l))
        /\ Visible(l)[ItemsUpTo(l, i)] = l[i]
    BY <2>1, SeenAt
  <2>3. i \in 0..Len(l) /\ p \in 0..Len(l)
    BY <1>1, <2>1
  <2>4. CASE i < p
    <3>1. ItemsUpTo(l, i) < c
      BY <1>0, <2>3, <2>4, ItemsGrow DEF c
    <3>2. ItemsUpTo(m, i) = ItemsUpTo(l, i)
      BY <1>4, <1>6, <2>3, <2>4
    <3>3. ItemsUpTo(l, i) \in 1..(ItemsUpTo(l, Len(l)) - 1)
      BY <1>7, <2>2, <3>1
    <3> QED
      BY <1>9, <2>1, <2>2, <3>1, <3>2, <3>3
  <2>5. CASE p < i
    <3>1. c < ItemsUpTo(l, i)
      BY <2>1, <2>3, <2>5, ItemsGrow DEF c
    <3>2. PICK k : k = ItemsUpTo(l, i) - 1
      OBVIOUS
    <3>3. k \in 1..(ItemsUpTo(l, Len(l)) - 1) /\ ~(k < c) /\ k + 1 = ItemsUpTo(l, i)
      BY <1>7, <2>2, <3>1, <3>2
    <3>4. ItemsUpTo(m, i) = k
      BY <1>1, <1>6, <2>3, <2>5, <3>2
    <3> QED
      BY <1>9, <2>1, <2>2, <3>3, <3>4
  <2> QED
    BY <1>1, <2>1, <2>4, <2>5
<1>12. Visible(m) = v
  BY <1>2, <1>9, <1>10, <1>11, SeenAs
<1>13. c \in DOMAIN Visible(l)
  BY <1>7, <1>8
<1> QED
  BY <1>3, <1>12, <1>13 DEF v, c, p

\* LSET takes one item out of what is seen, or none if it was a marker.
LEMMA SeenMarked ==
    ASSUME NEW l \in Seq(Elements), NEW index \in Int
    PROVE  \/ Visible(Marked(l, index)) = Visible(l)
           \/ \E k \in DOMAIN Visible(l) : Visible(Marked(l, index)) = RemoveAt(Visible(l), k)
<1>1. CASE ~InRange(l, index)
  BY <1>1 DEF Marked
<1>2. CASE InRange(l, index) /\ l[index + 1] = Marker
  <2>1. [l EXCEPT ![index + 1] = Marker] = l
    BY <1>2
  <2> QED
    BY <1>2, <2>1 DEF Marked, ReplaceAt
<1>3. CASE InRange(l, index) /\ l[index + 1] # Marker
  BY <1>3, SeenMarkedItem
<1> QED
  BY <1>1, <1>2, <1>3

\* Where there is no marker, everything is seen, in its place.
LEMMA AllSeen ==
    ASSUME NEW l \in Seq(Elements), MarkersIn(l) = {}
    PROVE  /\ \A i \in 0..Len(l) : ItemsUpTo(l, i) = i
           /\ Visible(l) = l
<1> DEFINE f == [i \in 0..Len(l) |-> ItemsUpTo(l, i)]
           g == [i \in 0..Len(l) |-> i]
<1>1. \A i \in 1..Len(l) : l[i] # Marker
  BY DEF MarkersIn
<1>2. \A i \in 0..Len(l) : f[i] = g[i]
  <2>1. f \in [0..Len(l) -> Int] /\ g \in [0..Len(l) -> Int] /\ Len(l) \in Nat
    BY ItemsCounted
  <2>2. f[0] = g[0]
    BY ItemsCounted
  <2>3. ASSUME NEW i \in 1..Len(l) PROVE f[i] - f[i - 1] = g[i] - g[i - 1]
    <3>1. ItemsUpTo(l, i) = ItemsUpTo(l, i - 1) + 1 /\ ItemsUpTo(l, i - 1) \in Nat
      BY <1>1, ItemsCounted
    <3> QED
      BY <3>1
  <2> HIDE DEF f, g
  <2> QED
    BY <2>1, <2>2, <2>3, SameSteps
<1>3. \A i \in 0..Len(l) : ItemsUpTo(l, i) = i
  BY <1>2
<1>4. Visible(l) = l
  BY <1>3, SeenAs
<1> QED
  BY <1>3, <1>4

\* LREM changes nothing that is seen.
LEMMA SeenSwept ==
    ASSUME NEW l \in Seq(Elements)
    PROVE  Visible(Swept(l)) = Visible(l)
<1> SUFFICES ASSUME NEW j \in MarkersIn(l) PROVE Visible(RemoveAt(l, j)) = Visible(l)
  BY SweptList
<1> DEFINE n == Len(l) - 1
           m == RemoveAt(l, j)
           At(i) == IF i < j THEN i ELSE i + 1
           f == [i \in 0..n |-> ItemsUpTo(m, i)]
           g == [i \in 0..n |-> ItemsUpTo(l, At(i))]
<1>1. j \in 1..Len(l) /\ l[j] = Marker
  BY DEF MarkersIn
<1>2. n \in Nat /\ Len(l) = n + 1
  BY <1>1
<1>3. /\ m \in Seq(Elements)
      /\ Len(m) = n
      /\ \A i \in 1..n : m[i] = l[At(i)]
  BY <1>1, RemovedAt
<1> HIDE DEF n, m
<1>4. /\ \A i \in 0..(n + 1) : ItemsUpTo(l, i) \in Nat
      /\ \A i \in 1..(n + 1) :
            ItemsUpTo(l, i) = ItemsUpTo(l, i - 1) + (IF l[i] = Marker THEN 0 ELSE 1)
      /\ ItemsUpTo(l, 0) = 0
  BY <1>2, ItemsCounted
<1>5. /\ \A i \in 0..n : ItemsUpTo(m, i) \in Nat
      /\ \A i \in 1..n :
            ItemsUpTo(m, i) = ItemsUpTo(m, i - 1) + (IF m[i] = Marker THEN 0 ELSE 1)
      /\ ItemsUpTo(m, 0) = 0
  BY <1>3, ItemsCounted
<1>6. \A i \in 0..n : f[i] = g[i]
  <2>1. f \in [0..n -> Int] /\ g \in [0..n -> Int]
    <3>1. \A i \in 0..n : At(i) \in 0..(n + 1)
      BY <1>1, <1>2
    <3> HIDE DEF At
    <3> QED
      BY <1>4, <1>5, <3>1
  <2>2. f[0] = g[0]
    BY <1>1, <1>2, <1>4, <1>5
  <2>3. ASSUME NEW i \in 1..n
        PROVE  f[i] - f[i - 1] = g[i] - g[i - 1]
    <3>1. /\ f[i] = ItemsUpTo(m, i) /\ f[i - 1] = ItemsUpTo(m, i - 1)
          /\ g[i] = ItemsUpTo(l, At(i)) /\ g[i - 1] = ItemsUpTo(l, At(i - 1))
      BY <1>2
    <3>2. /\ ItemsUpTo(m, i) = ItemsUpTo(m, i - 1) + (IF l[At(i)] = Marker THEN 0 ELSE 1)
          /\ ItemsUpTo(m, i - 1) \in Nat
      <4>1. m[i] = l[At(i)]
        BY <1>3
      <4>2. i - 1 \in 0..n
        BY <1>2
      <4> HIDE DEF At
      <4> QED
        BY <1>5, <4>1, <4>2
    <3>3. /\ ItemsUpTo(l, At(i)) = ItemsUpTo(l, At(i - 1)) + (IF l[At(i)] = Marker THEN 0 ELSE 1)
          /\ ItemsUpTo(l, At(i - 1)) \in Nat
      <4>1. CASE i < j
        <5>1. At(i) = i /\ At(i - 1) = i - 1 /\ i \in 1..(n + 1) /\ i - 1 \in 0..(n + 1)
          BY <1>1, <1>2, <4>1
        <5> QED
          BY <1>4, <5>1
      <4>2. CASE i = j
        <5>1. At(i) = i + 1 /\ At(i - 1) = i - 1 /\ i + 1 \in 1..(n + 1)
              /\ i \in 1..(n + 1) /\ i - 1 \in 0..(n + 1)
          BY <1>1, <1>2, <4>2
        <5>2. /\ ItemsUpTo(l, i + 1) = ItemsUpTo(l, (i + 1) - 1) + (IF l[i + 1] = Marker THEN 0 ELSE 1)
              /\ ItemsUpTo(l, i) = ItemsUpTo(l, i - 1) + 0
          BY <1>1, <1>4, <4>2, <5>1
        <5>3. (i + 1) - 1 = i /\ ItemsUpTo(l, i - 1) \in Nat
          BY <1>4, <5>1
        <5> QED
          BY <5>1, <5>2, <5>3
      <4>3. CASE j < i
        <5>1. At(i) = i + 1 /\ At(i - 1) = i /\ i + 1 \in 1..(n + 1) /\ i \in 0..(n + 1) /\ (i + 1) - 1 = i
          BY <1>1, <1>2, <4>3
        <5> QED
          BY <1>4, <5>1
      <4> QED
        BY <1>1, <4>1, <4>2, <4>3
    <3> HIDE DEF f, g, At
    <3> QED
      BY <3>1, <3>2, <3>3
  <2> HIDE DEF f, g, At
  <2> QED
    BY <1>2, <2>1, <2>2, <2>3, SameSteps
<1>7. \A i \in 0..n : ItemsUpTo(m, i) = ItemsUpTo(l, At(i))
  BY <1>6
<1> HIDE DEF f, g
<1>8. Visible(l) \in Seq(Elements) /\ Len(Visible(l)) = ItemsUpTo(l, n + 1)
  BY <1>2, SeenAt
<1>9. ItemsUpTo(m, n) = ItemsUpTo(l, n + 1)
  <2>1. CASE j = n + 1
    <3>1. ItemsUpTo(l, n + 1) = ItemsUpTo(l, (n + 1) - 1) + 0 /\ (n + 1) - 1 = n
      BY <1>1, <1>2, <1>4, <2>1
    <3>2. ItemsUpTo(m, n) = ItemsUpTo(l, n) /\ ItemsUpTo(l, n) \in Nat
      BY <1>2, <1>4, <1>7, <2>1
    <3> QED
      BY <3>1, <3>2
  <2>2. CASE j # n + 1
    BY <1>1, <1>2, <1>7, <2>2
  <2> QED
    BY <2>1, <2>2
<1>10. ASSUME NEW i \in 1..n, m[i] # Marker
       PROVE  Visible(l)[ItemsUpTo(m, i)] = m[i]
  <2>1. At(i) \in 1..Len(l) /\ i \in 0..n
    BY <1>1, <1>2
  <2>2. l[At(i)] # Marker /\ l[At(i)] = m[i]
    BY <1>3, <1>10
  <2>3. Visible(l)[ItemsUpTo(l, At(i))] = l[At(i)]
    BY <2>1, <2>2, SeenAt
  <2> QED
    BY <1>7, <2>1, <2>2, <2>3
<1>11. Visible(m) = Visible(l)
  BY <1>3, <1>8, <1>9, <1>10, SeenAs
<1> QED
  BY <1>11 DEF m

--------------------------------------------------------------------------------
\* The invariant.

\* A command runs for a request that asks for it.
Serves(in, command) ==
    \/ command = "lpush" /\ in \in AddInputs /\ in.item \in Items
    \/ command = "lrange" /\ in \in GetInputs
    \/ command \in {"lset", "lrem"} /\ in \in RemoveInputs
    \/ command = "del" /\ in \in ClearInputs

\* A request not received has done nothing; every command under way, waited for
\* or not, is one its request asks for; LREM is sent after an LSET took effect.
Stages ==
    /\ \A r \in Requests :
          pc[r] = "idle" => req[r] = NoRequest /\ applied[r] = 0 /\ r \notin swept
    /\ \A r \in Requests : pc[r] \in Commands => Serves(req[r], pc[r])
    /\ \A m \in late : Serves(req[m.request], m.command)
    /\ \A m \in late : m.command = "lrem" => applied[m.request] > 0

\* What is owed can be counted.
OwedFinite == \A u \in Users : IsFiniteSet(Owed(u))

CartInv == TypeOK /\ Stages /\ OwedFinite /\ MarkersOwed

\* Owed, element by element: an LSET of a removal of u, by its number, and not
\* the one its LREM answers for.
LEMMA OwedElements ==
    ASSUME TypeOK, NEW u \in Users
    PROVE  Owed(u) = {e \in Requests \X Nat :
                         /\ e[1] \in RemovalsOf(u)
                         /\ e[2] \in 1..applied[e[1]]
                         /\ ~(e[1] \in swept /\ e[2] = 1)}
<1>1. \A r \in Requests : applied[r] \in Nat
  BY DEF TypeOK
<1>2. RemovalsOf(u) \subseteq Requests
  BY DEF RemovalsOf
<1> QED
  BY <1>1, <1>2 DEF Owed

\* The same in the next state.
LEMMA OwedElementsNext ==
    ASSUME applied' \in [Requests -> Nat], NEW u \in Users
    PROVE  Owed(u)' = {e \in Requests \X Nat :
                         /\ e[1] \in RemovalsOf(u)'
                         /\ e[2] \in 1..applied'[e[1]]
                         /\ ~(e[1] \in swept' /\ e[2] = 1)}
<1>1. \A r \in Requests : applied'[r] \in Nat
  OBVIOUS
<1>2. RemovalsOf(u)' \subseteq Requests
  BY DEF RemovalsOf
<1> QED
  BY <1>1, <1>2 DEF Owed

\* Nothing is owed by a request not received, and its reception owes nothing.
LEMMA OwedUnchanged ==
    ASSUME TypeOK, UNCHANGED <<applied, swept>>, NEW u \in Users,
           \A r \in Requests : req'[r] = req[r] \/ applied[r] = 0
    PROVE  Owed(u)' = Owed(u)
<1>1. applied' \in [Requests -> Nat]
  BY DEF TypeOK
<1>2. \A e \in Requests \X Nat :
         e[2] \in 1..applied[e[1]] => (e[1] \in RemovalsOf(u) <=> e[1] \in RemovalsOf(u)')
  <2> SUFFICES ASSUME NEW r \in Requests, applied[r] # 0
               PROVE  r \in RemovalsOf(u) <=> r \in RemovalsOf(u)'
    BY DEF TypeOK
  <2>1. req'[r] = req[r]
    OBVIOUS
  <2> QED
    BY <2>1 DEF RemovalsOf
<1> QED
  BY <1>1, <1>2, OwedElements, OwedElementsNext

--------------------------------------------------------------------------------
\* A command that Redis runs, waited for or late.

\* Redis keeps the types of the lists, counts up and sweeps for r alone.
LEMMA RunTypes ==
    ASSUME CartInv, NEW r \in Requests, NEW command \in Commands,
           Serves(req[r], command), command = "lrem" => applied[r] > 0,
           Run(r, command), req' = req
    PROVE  /\ req[r].user \in Users
           /\ cart' \in [Users -> Seq(Elements)]
           /\ applied' \in [Requests -> Nat]
           /\ swept' \subseteq Requests
           /\ \A q \in Requests : applied'[q] >= applied[q]
           /\ \A q \in Requests : q \in swept' => applied'[q] > 0
           /\ \A q \in Requests : q # r => applied'[q] = applied[q]
           /\ \A q \in Requests : q # r => (q \in swept' <=> q \in swept)
<1>1. /\ cart \in [Users -> Seq(Elements)]
      /\ applied \in [Requests -> Nat]
      /\ swept \subseteq Requests
      /\ \A q \in Requests : q \in swept => applied[q] > 0
  BY DEF CartInv, TypeOK, Elements
<1>2. req[r].user \in Users
  BY DEF Serves, AddInputs, GetInputs, RemoveInputs, ClearInputs
<1>3. cart[req[r].user] \in Seq(Elements)
  BY <1>1, <1>2
<1>4. Result(r, command, cart[req[r].user]) \in Seq(Elements)
  <2>1. CASE command = "lpush"
    BY <2>1, <1>3, PushedList DEF Result, Serves
  <2>2. CASE command = "lset"
    BY <2>2, <1>3, MarkedList DEF Result, Serves, RemoveInputs
  <2>3. CASE command = "lrem"
    BY <2>3, <1>3, SweptMarkers DEF Result
  <2>4. CASE command \in {"del", "lrange"}
    BY <2>4, <1>3 DEF Result
  <2> QED
    BY <2>1, <2>2, <2>3, <2>4 DEF Commands
<1>5. cart' \in [Users -> Seq(Elements)]
  BY <1>1, <1>2, <1>4 DEF Run
<1>6. /\ applied' \in [Requests -> Nat]
      /\ \A q \in Requests : applied'[q] >= applied[q]
      /\ \A q \in Requests : q # r => applied'[q] = applied[q]
  BY <1>1 DEF Run
<1>7. /\ swept' \subseteq Requests
      /\ \A q \in Requests : q # r => (q \in swept' <=> q \in swept)
      /\ \A q \in Requests : q \in swept' => applied[q] > 0
  BY <1>1 DEF Run
<1>8. \A q \in Requests : q \in swept' => applied'[q] > 0
  BY <1>1, <1>6, <1>7
<1> QED
  BY <1>2, <1>5, <1>6, <1>7, <1>8

\* Redis never leaves more markers than are owed: LSET owes one more, LREM
\* pays with the marker it takes.
LEMMA RunOwed ==
    ASSUME CartInv, NEW r \in Requests, NEW command \in Commands,
           Serves(req[r], command), command = "lrem" => applied[r] > 0,
           Run(r, command), req' = req,
           NEW u \in Users
    PROVE  /\ IsFiniteSet(Owed(u)')
           /\ Cardinality(Markers(u)') <= Cardinality(Owed(u)')
<1> DEFINE v == req[r].user
           n == applied[r] + 1
<1>1. /\ cart \in [Users -> Seq(Elements)]
      /\ cart' \in [Users -> Seq(Elements)]
      /\ applied \in [Requests -> Nat]
      /\ applied' \in [Requests -> Nat]
      /\ v \in Users
      /\ \A q \in Requests : q \in swept => applied[q] > 0
  BY RunTypes DEF CartInv, TypeOK, Elements
<1>2. IsFiniteSet(Owed(u)) /\ Cardinality(Markers(u)) <= Cardinality(Owed(u))
  BY DEF CartInv, OwedFinite, MarkersOwed
<1>3. Cardinality(Owed(u)) \in Nat /\ Cardinality(Markers(u)) \in Nat
  BY <1>1, <1>2, MarkersFinite, FS_CardinalityType DEF Markers
<1>4. RemovalsOf(u)' = RemovalsOf(u)
  BY DEF RemovalsOf
<1>5. /\ Owed(u) = {e \in Requests \X Nat :
                       /\ e[1] \in RemovalsOf(u)
                       /\ e[2] \in 1..applied[e[1]]
                       /\ ~(e[1] \in swept /\ e[2] = 1)}
      /\ Owed(u)' = {e \in Requests \X Nat :
                       /\ e[1] \in RemovalsOf(u)
                       /\ e[2] \in 1..applied'[e[1]]
                       /\ ~(e[1] \in swept' /\ e[2] = 1)}
  BY <1>1, <1>4, OwedElements, OwedElementsNext DEF CartInv
<1>6. cart'[u] = IF u = v THEN Result(r, command, cart[v]) ELSE cart[u]
  BY <1>1 DEF Run
<1> HIDE DEF v
<1>7. r \in RemovalsOf(u) <=> req[r] # NoRequest /\ req[r].op = "remove" /\ v = u
  BY DEF RemovalsOf, v
\* What does not touch the debts, and writes no marker.
<1>8. ASSUME Owed(u)' = Owed(u), Cardinality(Markers(u)') <= Cardinality(Markers(u))
      PROVE  IsFiniteSet(Owed(u)') /\ Cardinality(Markers(u)') <= Cardinality(Owed(u)')
  <2>1. Cardinality(Markers(u)') \in Nat
    BY <1>1, MarkersFinite DEF Markers
  <2> QED
    BY <1>2, <1>3, <1>8, <2>1
<1>9. ASSUME r \notin RemovalsOf(u)
      PROVE  Owed(u)' = Owed(u)
  <2>1. \A q \in RemovalsOf(u) : applied'[q] = applied[q] /\ (q \in swept' <=> q \in swept)
    BY <1>9, RunTypes DEF RemovalsOf
  <2> QED
    BY <1>5, <2>1
<1>10. CASE u # v
  <2>1. Markers(u)' = Markers(u)
    BY <1>6, <1>10 DEF Markers
  <2> QED
    BY <1>3, <1>7, <1>8, <1>9, <1>10, <2>1
<1>11. CASE u = v /\ command = "lpush"
  <2>1. r \notin RemovalsOf(u) /\ req[r].item \in Items
    BY <1>11 DEF Serves, AddInputs, RemovalsOf
  <2>2. cart'[u] = Pushed(cart[u], req[r].item)
    BY <1>6, <1>11 DEF Result
  <2> QED
    BY <1>1, <1>8, <1>9, <2>1, <2>2, PushedMarkers DEF Markers
<1>12. CASE u = v /\ command = "lrange"
  <2>1. r \notin RemovalsOf(u)
    BY <1>12 DEF Serves, GetInputs, RemovalsOf
  <2>2. cart'[u] = cart[u]
    BY <1>6, <1>12 DEF Result
  <2> QED
    BY <1>3, <1>8, <1>9, <2>1, <2>2 DEF Markers
<1>13. CASE u = v /\ command = "del"
  <2>1. r \notin RemovalsOf(u)
    BY <1>13 DEF Serves, ClearInputs, RemovalsOf
  <2>2. Cardinality(Markers(u)') = 0
    <3>1. cart'[u] = << >>
      BY <1>6, <1>13 DEF Result
    <3>2. Markers(u)' = {}
      BY <3>1 DEF Markers, MarkersIn
    <3> QED
      BY <3>2, FS_EmptySet
  <2> QED
    BY <1>3, <1>8, <1>9, <2>1, <2>2
<1>14. CASE u = v /\ command = "lset" /\ ~InRange(cart[u], req[r].index)
  <2>1. cart'[u] = cart[u]
    BY <1>6, <1>14 DEF Result, Marked
  <2>2. applied' = applied /\ swept' = swept
    BY <1>14 DEF Run, Changes, v
  <2>3. Owed(u)' = Owed(u)
    BY <1>5, <2>2
  <2> QED
    BY <1>3, <1>8, <2>1, <2>3 DEF Markers
<1>15. CASE u = v /\ command = "lset" /\ InRange(cart[u], req[r].index)
  <2>1. req[r].index \in Int /\ r \in RemovalsOf(u)
    <3>1. req[r] \in RemoveInputs
      BY <1>15 DEF Serves
    <3>2. req[r] # NoRequest
      BY <3>1, CartConstantsAssumption DEF AnyInput
    <3> QED
      BY <1>7, <1>15, <3>1, <3>2 DEF RemoveInputs
  <2>2. cart'[u] = Marked(cart[u], req[r].index)
    BY <1>6, <1>15 DEF Result
  <2>3. Cardinality(Markers(u)') <= Cardinality(Markers(u)) + 1
    BY <1>1, <2>1, <2>2, MarkedMarkers DEF Markers
  <2>4. applied' = [applied EXCEPT ![r] = n] /\ swept' = swept
    BY <1>15 DEF Run, Changes, v
  <2>5. n \in Nat /\ ~(r \in swept /\ n = 1)
    BY <1>1
  <2>6. Owed(u)' = Owed(u) \cup {<<r, n>>}
    <3>1. ASSUME NEW e \in Requests \X Nat
          PROVE  e \in Owed(u)' <=> e \in Owed(u) \/ e = <<r, n>>
      <4>1. CASE e[1] = r
        <5>1. e[2] \in 1..applied'[r] <=> e[2] \in 1..applied[r] \/ e[2] = n
          BY <1>1, <2>4, <2>5
        <5>2. e = <<r, n>> <=> e[2] = n
          BY <4>1, <2>5
        <5> QED
          BY <1>5, <2>1, <2>4, <2>5, <4>1, <5>1, <5>2
      <4>2. CASE e[1] # r
        BY <1>1, <1>5, <2>4, <4>2
      <4> QED
        BY <4>1, <4>2
    <3>2. Owed(u) \subseteq Requests \X Nat /\ Owed(u)' \subseteq Requests \X Nat
      BY <1>5
    <3>3. <<r, n>> \in Requests \X Nat
      BY <2>5
    <3> QED
      BY <3>1, <3>2, <3>3
  <2>7. <<r, n>> \notin Owed(u)
    BY <1>1, <1>5
  <2>8. IsFiniteSet(Owed(u)') /\ Cardinality(Owed(u)') = Cardinality(Owed(u)) + 1
    BY <1>2, <2>6, <2>7, FS_AddElement
  <2>9. Cardinality(Markers(u)') \in Nat
    BY <1>1, MarkersFinite DEF Markers
  <2> QED
    BY <1>2, <1>3, <2>3, <2>8, <2>9
<1>16. CASE u = v /\ command = "lrem"
  <2>1. r \in RemovalsOf(u)
    <3>1. req[r] \in RemoveInputs
      BY <1>16 DEF Serves
    <3>2. req[r] # NoRequest
      BY <3>1, CartConstantsAssumption DEF AnyInput
    <3> QED
      BY <1>7, <1>16, <3>1, <3>2 DEF RemoveInputs
  <2>2. cart'[u] = Swept(cart[u])
    BY <1>6, <1>16 DEF Result
  <2>3. \/ Cardinality(Markers(u)') = 0
        \/ Cardinality(Markers(u)') <= Cardinality(Markers(u)) - 1
    BY <1>1, <2>2, SweptMarkers DEF Markers
  <2>4. applied' = applied /\ swept' = swept \cup {r}
    BY <1>16 DEF Run, Changes
  <2>5. Owed(u)' = Owed(u) \ {<<r, 1>>}
    <3>1. ASSUME NEW e \in Requests \X Nat
          PROVE  e \in Owed(u)' <=> e \in Owed(u) /\ e # <<r, 1>>
      <4>1. e = <<r, 1>> <=> e[1] = r /\ e[2] = 1
        OBVIOUS
      <4> QED
        BY <1>5, <2>4, <4>1
    <3>2. Owed(u) \subseteq Requests \X Nat /\ Owed(u)' \subseteq Requests \X Nat
      BY <1>5
    <3> QED
      BY <3>1, <3>2
  <2>6. /\ IsFiniteSet(Owed(u)')
        /\ Cardinality(Owed(u)') \in Nat
        /\ Cardinality(Owed(u)') >= Cardinality(Owed(u)) - 1
    <3>1. IsFiniteSet(Owed(u)')
      BY <1>2, <2>5, FS_Subset
    <3>2. CASE <<r, 1>> \in Owed(u)
      BY <1>2, <1>3, <2>5, <3>1, <3>2, FS_RemoveElement, FS_CardinalityType
    <3>3. CASE <<r, 1>> \notin Owed(u)
      <4>1. Owed(u)' = Owed(u)
        BY <2>5, <3>3
      <4> QED
        BY <1>2, <1>3, <4>1
    <3> QED
      BY <3>1, <3>2, <3>3
  <2>7. Cardinality(Markers(u)') \in Nat
    BY <1>1, MarkersFinite DEF Markers
  <2> QED
    BY <1>2, <1>3, <2>3, <2>6, <2>7
<1> QED
  BY <1>10, <1>11, <1>12, <1>13, <1>14, <1>15, <1>16 DEF Commands

--------------------------------------------------------------------------------
\* The steps.

\* Nothing Redis keeps, or counts, changes: nothing is owed but what was.
LEMMA NothingRun ==
    ASSUME CartInv, UNCHANGED <<cart, applied, swept>>,
           \A r \in Requests : req'[r] = req[r] \/ applied[r] = 0
    PROVE  OwedFinite' /\ MarkersOwed'
<1> SUFFICES ASSUME NEW u \in Users
             PROVE  /\ IsFiniteSet(Owed(u)')
                    /\ Cardinality(Markers(u)') <= Cardinality(Owed(u)')
  BY DEF OwedFinite, MarkersOwed
<1>1. Owed(u)' = Owed(u)
  BY OwedUnchanged DEF CartInv
<1>2. Markers(u)' = Markers(u)
  BY DEF Markers
<1> QED
  BY <1>1, <1>2 DEF CartInv, OwedFinite, MarkersOwed

\* A request is received, and goes to a command it asks for or is refused.
LEMMA ReceiveStep ==
    ASSUME CartInv, NEW r \in Requests, NEW op, Receive(r, op),
           NEW next \in {"lpush", "lrange", "lset", "del", "done"},
           pc' = [pc EXCEPT ![r] = next],
           next # "done" => Serves(req'[r], next),
           resp' \in [Requests -> {0, 200, 201, 400, 500}]
    PROVE  CartInv'
<1>1. /\ UNCHANGED <<cart, late, applied, swept, sent, faults>>
      /\ pc[r] = "idle"
  BY DEF Receive, redis
<1>2. PICK in \in Inputs[r] : req' = [req EXCEPT ![r] = in]
  BY DEF Receive
<1>3. in \in AnyInput
  BY CartInputsAssumption
<1>4. applied[r] = 0 /\ r \notin swept
  BY <1>1 DEF CartInv, Stages
<1>5. req' \in [Requests -> AnyInput \cup {NoRequest}]
  BY <1>2, <1>3 DEF CartInv, TypeOK
<1>6. pc' \in [Requests -> Commands \cup {"idle", "done", "dead"}]
  BY DEF CartInv, TypeOK, Commands
<1>7. \A q \in Requests : pc'[q] = "lrem" => pc[q] = "lrem"
  BY DEF CartInv, TypeOK
<1>8. TypeOK'
  BY <1>1, <1>5, <1>6, <1>7 DEF CartInv, TypeOK
<1>9. \A q \in Requests : q # r => req'[q] = req[q] /\ pc'[q] = pc[q]
  BY <1>2 DEF CartInv, TypeOK
<1>10. \A m \in late : m.request # r
  <2> SUFFICES ASSUME NEW m \in late, m.request = r
               PROVE  FALSE
    OBVIOUS
  <2>1. m.command \in Commands /\ Serves(req[r], m.command)
    BY DEF CartInv, TypeOK, Stages
  <2>2. pc[r] = "idle"
    BY <1>1
  <2>3. req[r] = NoRequest
    BY <2>2 DEF CartInv, Stages
  <2> QED
    BY <2>1, <2>3, CartConstantsAssumption DEF Serves, AnyInput
<1>11. Stages'
  <2>1. pc'[r] = next
    BY DEF CartInv, TypeOK
  <2>2. ASSUME NEW q \in Requests, pc'[q] = "idle"
        PROVE  req'[q] = NoRequest /\ applied'[q] = 0 /\ q \notin swept'
    BY <1>1, <1>9, <2>1, <2>2 DEF CartInv, Stages
  <2>3. ASSUME NEW q \in Requests, pc'[q] \in Commands
        PROVE  Serves(req'[q], pc'[q])
    <3>1. CASE q = r
      BY <2>1, <2>3, <3>1 DEF Commands
    <3>2. CASE q # r
      BY <1>9, <2>3, <3>2 DEF CartInv, Stages
    <3> QED
      BY <3>1, <3>2
  <2>4. ASSUME NEW m \in late'
        PROVE  /\ Serves(req'[m.request], m.command)
               /\ m.command = "lrem" => applied'[m.request] > 0
    <3>1. m \in late /\ m.request \in Requests /\ req'[m.request] = req[m.request]
      BY <1>1, <1>9, <1>10 DEF CartInv, TypeOK
    <3> QED
      BY <1>1, <3>1 DEF CartInv, Stages
  <2> QED
    BY <2>2, <2>3, <2>4 DEF Stages
<1>12. OwedFinite' /\ MarkersOwed'
  BY <1>1, <1>4, <1>9, NothingRun DEF CartInv, TypeOK
<1> QED
  BY <1>8, <1>11, <1>12 DEF CartInv

\* Redis runs the command r waits for, and r goes on to LREM after an LSET that
\* took effect, or is answered.
LEMMA ExecuteStep ==
    ASSUME CartInv, NEW r \in Requests, NEW command \in Commands, Executes(r, command),
           NEW next \in {"lrem", "done"}, pc' = [pc EXCEPT ![r] = next],
           next = "lrem" => /\ command = "lset"
                            /\ InRange(cart[req[r].user], req[r].index),
           resp' \in [Requests -> {0, 200, 201, 400, 500}]
    PROVE  CartInv'
<1>1. /\ pc[r] = command
      /\ Run(r, command)
      /\ sent' = [sent EXCEPT ![r] = 0]
      /\ UNCHANGED <<req, late, faults>>
  BY DEF Executes
<1>2. /\ Serves(req[r], command)
      /\ command = "lrem" => applied[r] > 0
  BY <1>1 DEF CartInv, Stages, TypeOK
<1>3. /\ cart' \in [Users -> Seq(Elements)]
      /\ applied' \in [Requests -> Nat]
      /\ swept' \subseteq Requests
      /\ \A q \in Requests : applied'[q] >= applied[q]
      /\ \A q \in Requests : q \in swept' => applied'[q] > 0
      /\ \A q \in Requests : q # r => applied'[q] = applied[q]
      /\ \A q \in Requests : q # r => (q \in swept' <=> q \in swept)
  BY <1>1, <1>2, RunTypes
<1>4. pc'[r] = next /\ \A q \in Requests : q # r => pc'[q] = pc[q]
  BY DEF CartInv, TypeOK
<1>5. next = "lrem" => applied'[r] > 0
  BY <1>1 DEF Run, Changes, CartInv, TypeOK
<1>6. TypeOK'
  <2>1. /\ pc' \in [Requests -> Commands \cup {"idle", "done", "dead"}]
        /\ sent' \in [Requests -> 0..MaxResends]
    BY <1>1, CartConstantsAssumption DEF CartInv, TypeOK, Commands
  <2>2. ASSUME NEW q \in Requests, pc'[q] = "lrem" \/ q \in swept'
        PROVE  applied'[q] > 0
    BY <1>3, <1>4, <1>5, <2>2 DEF CartInv, TypeOK
  <2> QED
    BY <1>1, <1>3, <2>1, <2>2 DEF CartInv, TypeOK, Elements
<1>7. Stages'
  <2>1. ASSUME NEW q \in Requests, pc'[q] = "idle"
        PROVE  req'[q] = NoRequest /\ applied'[q] = 0 /\ q \notin swept'
    BY <1>1, <1>3, <1>4, <2>1 DEF CartInv, Stages
  <2>2. ASSUME NEW q \in Requests, pc'[q] \in Commands
        PROVE  Serves(req'[q], pc'[q])
    <3>1. CASE q = r
      BY <1>1, <1>2, <1>4, <2>2, <3>1 DEF Commands, Serves
    <3>2. CASE q # r
      BY <1>1, <1>4, <2>2, <3>2 DEF CartInv, Stages
    <3> QED
      BY <3>1, <3>2
  <2>3. ASSUME NEW m \in late'
        PROVE  /\ Serves(req'[m.request], m.command)
               /\ m.command = "lrem" => applied'[m.request] > 0
    <3>1. m \in late /\ m.request \in Requests /\ applied[m.request] \in Nat
      BY <1>1 DEF CartInv, TypeOK
    <3>2. applied'[m.request] \in Nat /\ applied'[m.request] >= applied[m.request]
      BY <1>3, <3>1
    <3> QED
      BY <1>1, <3>1, <3>2 DEF CartInv, Stages
  <2> QED
    BY <2>1, <2>2, <2>3 DEF Stages
<1>8. OwedFinite' /\ MarkersOwed'
  BY <1>1, <1>2, RunOwed DEF OwedFinite, MarkersOwed
<1> QED
  BY <1>6, <1>7, <1>8 DEF CartInv

\* A command that is late runs.
LEMMA LateStep ==
    ASSUME CartInv, NEW m \in late, Late(m)
    PROVE  CartInv'
<1> DEFINE r == m.request
<1>1. /\ r \in Requests /\ m.command \in Commands
      /\ Serves(req[r], m.command)
      /\ m.command = "lrem" => applied[r] > 0
  BY DEF CartInv, TypeOK, Stages
<1>2. /\ late' = late \ {m}
      /\ Run(r, m.command)
      /\ UNCHANGED <<req, pc, sent, resp, faults>>
  BY DEF Late
<1>3. /\ cart' \in [Users -> Seq(Elements)]
      /\ applied' \in [Requests -> Nat]
      /\ swept' \subseteq Requests
      /\ \A q \in Requests : applied'[q] >= applied[q]
      /\ \A q \in Requests : q \in swept' => applied'[q] > 0
      /\ \A q \in Requests : q # r => applied'[q] = applied[q]
      /\ \A q \in Requests : q # r => (q \in swept' <=> q \in swept)
  BY <1>1, <1>2, RunTypes
<1>4. pc[r] # "idle"
  <2>1. req[r] # NoRequest
    BY <1>1, CartConstantsAssumption DEF Serves, AnyInput
  <2> QED
    BY <1>1, <2>1 DEF CartInv, Stages
<1> HIDE DEF r
<1>5. TypeOK'
  <2>1. ASSUME NEW q \in Requests, pc'[q] = "lrem" \/ q \in swept'
        PROVE  applied'[q] > 0
    BY <1>2, <1>3, <2>1 DEF CartInv, TypeOK
  <2> QED
    BY <1>2, <1>3, <2>1 DEF CartInv, TypeOK, Elements
<1>6. Stages'
  <2>1. ASSUME NEW q \in Requests, pc'[q] = "idle"
        PROVE  req'[q] = NoRequest /\ applied'[q] = 0 /\ q \notin swept'
    BY <1>2, <1>3, <1>4, <2>1 DEF CartInv, Stages
  <2>2. ASSUME NEW n \in late'
        PROVE  /\ Serves(req'[n.request], n.command)
               /\ n.command = "lrem" => applied'[n.request] > 0
    <3>1. n \in late /\ n.request \in Requests /\ applied[n.request] \in Nat
      BY <1>2 DEF CartInv, TypeOK
    <3>2. applied'[n.request] \in Nat /\ applied'[n.request] >= applied[n.request]
      BY <1>3, <3>1
    <3> QED
      BY <1>2, <3>1, <3>2 DEF CartInv, Stages
  <2> QED
    BY <1>2, <2>1, <2>2 DEF CartInv, Stages
<1>7. OwedFinite' /\ MarkersOwed'
  BY <1>1, <1>2, RunOwed DEF OwedFinite, MarkersOwed
<1> QED
  BY <1>5, <1>6, <1>7 DEF CartInv

\* Commands under way become late, and their requests are repeated, answered
\* with an error or lost.
LEMMA FailureStep ==
    ASSUME CartInv, UNCHANGED <<cart, req, applied, swept>>, Fault,
           sent' \in [Requests -> 0..MaxResends],
           resp' \in [Requests -> {0, 200, 201, 400, 500}],
           pc' \in [Requests -> Commands \cup {"idle", "done", "dead"}],
           \A r \in Requests : pc'[r] \in {pc[r], "done", "dead"},
           \A m \in late' :
              m \in late \/ \E r \in Requests : Working(r) /\ m = Sending(r)
    PROVE  CartInv'
<1>1. ASSUME NEW m \in late'
      PROVE  /\ m \in [request : Requests, command : Commands, attempt : 0..MaxResends]
             /\ Serves(req[m.request], m.command)
             /\ m.command = "lrem" => applied[m.request] > 0
  <2>1. CASE m \in late
    BY <2>1 DEF CartInv, TypeOK, Stages
  <2>2. CASE m \notin late
    <3>1. PICK r \in Requests : Working(r) /\ m = Sending(r)
      BY <2>2
    <3>2. pc[r] \in Commands /\ sent[r] \in 0..MaxResends
      BY <3>1 DEF Working, CartInv, TypeOK
    <3> QED
      BY <3>1, <3>2 DEF Sending, CartInv, TypeOK, Stages
  <2> QED
    BY <2>1, <2>2
<1>2. faults' \in 0..MaxFaults
  BY CartConstantsAssumption DEF Fault, CartInv, TypeOK
<1>3. TypeOK'
  BY <1>1, <1>2 DEF CartInv, TypeOK
<1>4. Stages'
  <2>1. ASSUME NEW r \in Requests, pc'[r] = "idle" \/ pc'[r] \in Commands
        PROVE  pc'[r] = pc[r]
    BY <2>1 DEF Commands
  <2> QED
    BY <1>1, <2>1 DEF CartInv, Stages
<1>5. OwedFinite' /\ MarkersOwed'
  BY NothingRun
<1> QED
  BY <1>3, <1>4, <1>5 DEF CartInv

\* Initially there is nothing to owe.
LEMMA CartInitially == Init => CartInv
<1> SUFFICES ASSUME Init PROVE CartInv
  OBVIOUS
<1>1. TypeOK
  BY CartConstantsAssumption DEF Init, TypeOK
<1>2. Stages
  BY DEF Init, Stages, Commands
<1>3. ASSUME NEW u \in Users
      PROVE  Owed(u) = {} /\ Markers(u) = {}
  <2>1. RemovalsOf(u) = {}
    BY DEF Init, RemovalsOf
  <2>2. cart[u] = << >>
    BY DEF Init
  <2> QED
    BY <2>1, <2>2 DEF Owed, Markers, MarkersIn
<1>4. OwedFinite /\ MarkersOwed
  BY <1>3, FS_EmptySet DEF OwedFinite, MarkersOwed
<1> QED
  BY <1>1, <1>2, <1>4 DEF CartInv

\* Every step keeps the invariant.
LEMMA CartNext == CartInv /\ [Next]_vars => CartInv'
<1> SUFFICES ASSUME CartInv, [Next]_vars PROVE CartInv'
  OBVIOUS
<1>1. /\ resp \in [Requests -> {0, 200, 201, 400, 500}]
      /\ pc \in [Requests -> Commands \cup {"idle", "done", "dead"}]
      /\ sent \in [Requests -> 0..MaxResends]
  BY DEF CartInv, TypeOK
<1>2. ASSUME NEW r \in Requests, NEW op, Receive(r, op)
      PROVE  /\ req'[r] \in AnyInput /\ req'[r].op = op
             /\ req'[r].op = "add" => req'[r] \in AddInputs
             /\ req'[r].op = "get" => req'[r] \in GetInputs
             /\ req'[r].op = "remove" => req'[r] \in RemoveInputs
             /\ req'[r].op = "clear" => req'[r] \in ClearInputs
  <2>1. PICK in \in Inputs[r] : in.op = op /\ req' = [req EXCEPT ![r] = in]
    BY <1>2 DEF Receive
  <2>2. Inputs[r] \subseteq AnyInput
    BY CartInputsAssumption
  <2>3. req'[r] = in
    BY <2>1 DEF CartInv, TypeOK
  <2> QED
    BY <2>1, <2>2, <2>3 DEF AnyInput, AddInputs, GetInputs, RemoveInputs, ClearInputs
<1>3. ASSUME NEW r \in Requests, AddToCart(r)
      PROVE  CartInv'
  <2>1. CASE req'[r].item = NoItem
    BY <1>1, <1>3, <2>1, ReceiveStep DEF AddToCart, Answer
  <2>2. CASE req'[r].item # NoItem
    BY <1>1, <1>2, <1>3, <2>2, ReceiveStep DEF AddToCart, Goto, Serves, AddInputs
  <2> QED
    BY <2>1, <2>2
<1>4. ASSUME NEW r \in Requests, GetCart(r)
      PROVE  CartInv'
  BY <1>1, <1>2, <1>4, ReceiveStep DEF GetCart, Goto, Serves
<1>5. ASSUME NEW r \in Requests, RemoveFromCart(r)
      PROVE  CartInv'
  <2>1. CASE req'[r].index < 0
    BY <1>1, <1>5, <2>1, ReceiveStep DEF RemoveFromCart, Answer
  <2>2. CASE ~(req'[r].index < 0)
    BY <1>1, <1>2, <1>5, <2>2, ReceiveStep DEF RemoveFromCart, Goto, Serves
  <2> QED
    BY <2>1, <2>2
<1>6. ASSUME NEW r \in Requests, ClearCart(r)
      PROVE  CartInv'
  BY <1>1, <1>2, <1>6, ReceiveStep DEF ClearCart, Goto, Serves
<1>7. ASSUME NEW r \in Requests, Step(r)
      PROVE  CartInv'
  <2>1. ASSUME NEW command \in Commands, Executes(r, command),
               NEW status \in {200, 201, 500}, Answer(r, status)
        PROVE  CartInv'
    <3>1. pc' = [pc EXCEPT ![r] = "done"]
      BY <2>1 DEF Answer
    <3>2. resp' \in [Requests -> {0, 200, 201, 400, 500}]
      BY <1>1, <2>1 DEF Answer
    <3> QED
      BY <2>1, <3>1, <3>2, ExecuteStep
  <2>2. CASE LPush(r) \/ LRem(r) \/ Del(r)
    BY <2>1, <2>2 DEF LPush, LRem, Del, Commands
  <2>3. CASE LRange(r)
    <3>1. \E status \in {200, 500} : Answer(r, status)
      BY <2>3 DEF LRange
    <3>2. Executes(r, "lrange") /\ "lrange" \in Commands
      BY <2>3 DEF LRange, Commands
    <3> QED
      BY <2>1, <3>1, <3>2
  <2>4. CASE LSet(r)
    <3>1. Executes(r, "lset") /\ "lset" \in Commands
      BY <2>4 DEF LSet, Commands
    <3>2. CASE InRange(cart[req[r].user], req[r].index)
      <4>1. pc' = [pc EXCEPT ![r] = "lrem"] /\ resp' = resp
        BY <2>4, <3>2 DEF LSet, AfterLSet, Goto
      <4> QED
        BY <1>1, <3>1, <3>2, <4>1, ExecuteStep
    <3>3. CASE ~InRange(cart[req[r].user], req[r].index)
      <4>1. Answer(r, 500)
        BY <2>4, <3>3 DEF LSet, AfterLSet
      <4> QED
        BY <2>1, <3>1, <4>1
    <3> QED
      BY <3>2, <3>3
  <2> QED
    BY <1>7, <2>2, <2>3, <2>4 DEF Step
<1>8. ASSUME NEW r \in Requests, Resend(r)
      PROVE  CartInv'
  <2>1. /\ sent' \in [Requests -> 0..MaxResends]
        /\ resp' \in [Requests -> {0, 200, 201, 400, 500}]
        /\ pc' \in [Requests -> Commands \cup {"idle", "done", "dead"}]
        /\ \A q \in Requests : pc'[q] \in {pc[q], "done", "dead"}
    BY <1>1, <1>8, CartConstantsAssumption DEF Resend, MayResend
  <2>2. /\ \A m \in late' : m \in late \/ \E q \in Requests : Working(q) /\ m = Sending(q)
        /\ UNCHANGED <<cart, req, applied, swept>>
        /\ Fault
    BY <1>8 DEF Resend
  <2> QED
    BY <2>1, <2>2, FailureStep
<1>9. ASSUME NEW r \in Requests, GiveUp(r)
      PROVE  CartInv'
  <2>1. /\ sent' \in [Requests -> 0..MaxResends]
        /\ resp' \in [Requests -> {0, 200, 201, 400, 500}]
        /\ pc' \in [Requests -> Commands \cup {"idle", "done", "dead"}]
        /\ \A q \in Requests : pc'[q] \in {pc[q], "done", "dead"}
    BY <1>1, <1>9 DEF GiveUp, Answer
  <2>2. /\ \A m \in late' : m \in late \/ \E q \in Requests : Working(q) /\ m = Sending(q)
        /\ UNCHANGED <<cart, req, applied, swept>>
        /\ Fault
    BY <1>9 DEF GiveUp
  <2> QED
    BY <2>1, <2>2, FailureStep
<1>10. ASSUME Crash
       PROVE  CartInv'
  <2>1. PICK r \in Requests : Working(r)
    BY <1>10 DEF Crash
  <2>2. /\ sent' \in [Requests -> 0..MaxResends]
        /\ resp' \in [Requests -> {0, 200, 201, 400, 500}]
        /\ pc' \in [Requests -> Commands \cup {"idle", "done", "dead"}]
        /\ \A q \in Requests : pc'[q] \in {pc[q], "done", "dead"}
    BY <1>1, <1>10, <2>1 DEF Crash
  <2>3. /\ \A m \in late' : m \in late \/ \E q \in Requests : Working(q) /\ m = Sending(q)
        /\ UNCHANGED <<cart, req, applied, swept>>
        /\ Fault
    BY <1>10 DEF Crash
  <2> QED
    BY <2>2, <2>3, FailureStep
<1>11. CASE UNCHANGED vars
  <2>1. UNCHANGED <<cart, req, pc, sent, late, applied, swept, resp, faults>>
    BY <1>11 DEF vars
  <2>2. TypeOK' /\ Stages'
    BY <2>1 DEF CartInv, TypeOK, Stages
  <2>3. OwedFinite' /\ MarkersOwed'
    BY <2>1, NothingRun
  <2> QED
    BY <2>2, <2>3 DEF CartInv
<1> QED
  BY <1>3, <1>4, <1>5, <1>6, <1>7, <1>8, <1>9, <1>10, <1>11, LateStep DEF Next, Quiet

--------------------------------------------------------------------------------
\* The theorems.

\* The cart's invariant, which the two theorems rest on.
LEMMA CartInvariant == Spec => []CartInv
BY CartInitially, CartNext, PTL DEF Spec

\* The type invariant: in particular LREM is sent, and repeated, only for a
\* removal whose LSET took effect (redis_cache.go:50-57).
THEOREM CartTypeCorrect == Spec => []TypeOK
<1>1. CartInv => TypeOK
  BY DEF CartInv
<1> QED
  BY <1>1, CartInvariant, PTL

\* No cart ever holds more markers than removals under way, broken off or run
\* twice account for, however many removals of one user overlap, however often
\* commands are repeated or come late, and wherever the process dies
\* (redis_cache.go:50-57).
THEOREM MarkersOwedHolds == Spec => []MarkersOwed
<1>1. CartInv => MarkersOwed
  BY DEF CartInv
<1> QED
  BY <1>1, CartInvariant, PTL

\* A request that is answered is done.
Answered == \A r \in Requests : resp[r] # 0 => pc[r] = "done"

\* It always holds.
LEMMA AnsweredAlways == Spec => []Answered
<1>1. Init => Answered
  BY DEF Init, Answered
<1>2. TypeOK /\ Answered /\ [Next]_vars => Answered'
  <2> SUFFICES ASSUME TypeOK, Answered, [Next]_vars PROVE Answered'
    OBVIOUS
  <2>1. resp \in [Requests -> {0, 200, 201, 400, 500}] /\ DOMAIN pc = Requests
    BY DEF TypeOK
  <2>2. ASSUME NEW r \in Requests, NEW status, Answer(r, status)
        PROVE  Answered'
    BY <2>1, <2>2 DEF Answer, Answered
  <2>3. ASSUME NEW r \in Requests, NEW command, pc[r] # "done", Goto(r, command)
        PROVE  Answered'
    BY <2>1, <2>3 DEF Goto, Answered
  <2>4. CASE \E r \in Requests : AddToCart(r) \/ GetCart(r) \/ RemoveFromCart(r) \/ ClearCart(r)
    BY <2>2, <2>3, <2>4 DEF AddToCart, GetCart, RemoveFromCart, ClearCart, Receive
  <2>5. CASE \E r \in Requests : Step(r)
    BY <2>2, <2>3, <2>5 DEF Step, LPush, LRange, LSet, LRem, Del, AfterLSet, Executes
  <2>6. CASE \E r \in Requests : Resend(r) \/ GiveUp(r)
    BY <2>2, <2>6 DEF Resend, GiveUp, Answered
  <2>7. CASE \E m \in late : Late(m)
    BY <2>7 DEF Late, Answered
  <2>8. CASE Crash
    BY <2>1, <2>8 DEF Crash, Answered, Working, Commands
  <2>9. CASE UNCHANGED vars
    BY <2>9 DEF vars, Answered
  <2> QED
    BY <2>4, <2>5, <2>6, <2>7, <2>8, <2>9 DEF Next, Quiet
<1> QED
  BY <1>1, <1>2, CartTypeCorrect, PTL DEF Spec

\* parsePaginationParams never yields a negative number.
LEMMA PageBounds ==
    ASSUME NEW in \in GetInputs
    PROVE  Offset(in) \in Nat /\ Limit(in) \in Nat
<1>1. in.offset \in Int /\ in.limit \in Int
  BY DEF GetInputs
<1>2. Offset(in) \in Nat
  BY <1>1 DEF Offset
<1>3. CASE in.limit \in 1..1000
  BY <1>1, <1>2, <1>3 DEF Limit
<1>4. CASE in.limit \notin 1..1000
  BY <1>2, <1>4 DEF Limit
<1> QED
  BY <1>2, <1>3, <1>4

\* A page without a marker decodes; a page with one is of a list with one.
LEMMA PageMarkers ==
    ASSUME NEW l \in Seq(Elements), NEW in \in GetInputs, ~Decodes(Page(l, in))
    PROVE  MarkersIn(l) # {}
<1> DEFINE m == Offset(in) + 1
           n == Min({Offset(in) + Limit(in), Len(l)})
<1>1. Offset(in) \in Nat /\ Limit(in) \in Nat
  BY PageBounds
<1>2. n \in Nat /\ n <= Len(l)
  <2> DEFINE S == {Offset(in) + Limit(in), Len(l)}
  <2>1. Len(l) \in Nat /\ Offset(in) + Limit(in) \in Nat
    BY <1>1
  <2>2. \E x \in S : \A y \in S : x <= y
    BY <2>1
  <2>3. Min(S) \in S /\ \A y \in S : Min(S) <= y
    BY <2>2 DEF Min
  <2> QED
    BY <2>1, <2>3
<1> HIDE DEF n
<1>3. PICK i \in DOMAIN SubSeq(l, m, n) : SubSeq(l, m, n)[i] = Marker
  BY DEF Decodes, Page, MarkersIn, n
<1>4. m + i - 1 \in DOMAIN l /\ l[m + i - 1] = Marker
  BY <1>1, <1>2, <1>3
<1> QED
  BY <1>4 DEF MarkersIn

\* A cart that owes nothing has no marker.
LEMMA NothingOwed ==
    ASSUME CartInv, NEW u \in Users, Owed(u) = {}
    PROVE  Markers(u) = {}
<1>1. cart[u] \in Seq(Elements)
  BY DEF CartInv, TypeOK, Elements
<1>2. IsFiniteSet(Markers(u)) /\ Cardinality(Markers(u)) \in Nat
  BY <1>1, MarkersFinite DEF Markers
<1>3. Cardinality(Markers(u)) <= 0
  BY FS_EmptySet DEF CartInv, MarkersOwed
<1>4. Cardinality(Markers(u)) = 0
  BY <1>2, <1>3
<1> QED
  BY <1>2, <1>4, FS_EmptySet

\* While Redis answers, GetCart fails only while a removal of the same user is
\* under way or was broken off (handlers.go:553).
THEOREM UnreadableOnlyWhileRemovingHolds == Spec => UnreadableOnlyWhileRemoving
<1> DEFINE Readable(r) == pc[r] = "lrange" /\ resp'[r] = 500 /\ faults' = faults
                            => Owed(req[r].user) # {}
<1>1. ASSUME CartInv, Answered, Next, NEW r \in Requests,
             pc[r] = "lrange", resp'[r] = 500, faults' = faults
      PROVE  Owed(req[r].user) # {}
  <2>1. resp[r] = 0 /\ DOMAIN resp = Requests
    BY <1>1 DEF Answered, CartInv, TypeOK
  <2>2. ASSUME NEW q \in Requests, NEW status, Answer(q, status)
        PROVE  q = r
    BY <1>1, <2>1, <2>2 DEF Answer
  <2>3. ~\E q \in Requests : AddToCart(q) \/ GetCart(q) \/ RemoveFromCart(q) \/ ClearCart(q)
    BY <1>1, <2>1, <2>2 DEF AddToCart, GetCart, RemoveFromCart, ClearCart, Receive, Goto
  <2>4. ~\E q \in Requests : LPush(q) \/ LSet(q) \/ LRem(q) \/ Del(q)
    BY <1>1, <2>1, <2>2 DEF LPush, LSet, LRem, Del, AfterLSet, Executes, Goto
  <2>5. ~\E q \in Requests : Resend(q) \/ GiveUp(q)
    BY <1>1 DEF Resend, GiveUp, Fault, CartInv, TypeOK
  <2>6. ~\E m \in late : Late(m)
    BY <1>1, <2>1 DEF Late
  <2>7. ~Crash /\ ~Quiet
    BY <1>1, <2>1 DEF Crash, Quiet, Fault, vars, CartInv, TypeOK
  <2>8. PICK q \in Requests : LRange(q)
    BY <1>1, <2>3, <2>4, <2>5, <2>6, <2>7 DEF Next, Step
  <2>9. LRange(r)
    BY <2>2, <2>8 DEF LRange
  <2>10. ~Decodes(Page(cart[req[r].user], req[r]))
    BY <1>1, <2>1, <2>9 DEF LRange, Answer
  <2>11. req[r] \in GetInputs /\ req[r].user \in Users
    BY <1>1 DEF CartInv, Stages, Serves, Commands, GetInputs
  <2> DEFINE u == req[r].user
  <2>12. cart[u] \in Seq(Elements)
    BY <1>1, <2>11 DEF CartInv, TypeOK, Elements
  <2>13. Markers(u) # {}
    BY <2>10, <2>11, <2>12, PageMarkers DEF Markers
  <2> QED
    BY <1>1, <2>11, <2>13, NothingOwed
<1>2. CartInv /\ Answered /\ [Next]_vars => [\A r \in Requests : Readable(r)]_vars
  BY <1>1
<1> QED
  BY <1>2, CartInvariant, AnsweredAlways, PTL DEF UnreadableOnlyWhileRemoving, Spec
--------------------------------------------------------------------------------
\* How often a command takes effect.

\* The commands that change what is seen of a list; a request has one of them.
Writing == {"lpush", "lset", "del"}

\* Those of r that nobody waits for, and Redis may still run.
StillOut(r) == {m \in late : m.request = r /\ m.command \in Writing}

\* What took effect and what may still was sent: one each time.
Tried(r) ==
    /\ IsFiniteSet(StillOut(r))
    /\ pc[r] = "idle" => sent[r] = 0 /\ StillOut(r) = {}
    /\ pc[r] \in Writing =>
          /\ applied[r] + Cardinality(StillOut(r)) <= sent[r]
          /\ \A m \in StillOut(r) : m.attempt < sent[r]
    /\ applied[r] + Cardinality(StillOut(r)) <= MaxResends + 1

Attempts == \A r \in Requests : Tried(r)

CartStoreInv == CartInv /\ Answered /\ Attempts

\* A request to which nothing happens, or that goes on to read or to sweep.
LEMMA TriedStays ==
    ASSUME TypeOK, NEW q \in Requests, Tried(q),
           StillOut(q)' = StillOut(q), applied'[q] = applied[q],
           \/ pc'[q] = pc[q] /\ sent'[q] = sent[q]
           \/ pc'[q] \notin Writing \cup {"idle"}
    PROVE  Tried(q)'
BY DEF Tried, Writing

\* What is waited for is sent again, or not waited for any more.
LEMMA TriedAgain ==
    ASSUME TypeOK, NEW q \in Requests, Tried(q), Working(q),
           StillOut(q)' = StillOut(q) \cup (IF pc[q] \in Writing THEN {Sending(q)} ELSE {}),
           applied'[q] = applied[q],
           \/ pc'[q] = pc[q] /\ sent'[q] = sent[q] + 1
           \/ pc'[q] \in {"done", "dead"}
    PROVE  Tried(q)'
<1>1. applied[q] \in Nat /\ sent[q] \in 0..MaxResends /\ MaxResends \in Nat /\ pc[q] \in Commands
  BY CartConstantsAssumption DEF TypeOK, Working
<1>2. /\ IsFiniteSet(StillOut(q))
      /\ Cardinality(StillOut(q)) \in Nat
  BY FS_CardinalityType DEF Tried
<1>3. CASE pc[q] \in Writing
  <2>1. StillOut(q)' = StillOut(q) \cup {Sending(q)}
    BY <1>3
  <2>2. /\ IsFiniteSet(StillOut(q)')
        /\ Cardinality(StillOut(q)') \in Nat
        /\ Cardinality(StillOut(q)') <= Cardinality(StillOut(q)) + 1
    BY <1>2, <2>1, OneMore
  <2>3. /\ applied[q] + Cardinality(StillOut(q)) <= sent[q]
        /\ \A m \in StillOut(q) : m.attempt < sent[q]
    BY <1>3 DEF Tried
  <2>4. applied'[q] + Cardinality(StillOut(q)') <= sent[q] + 1
    BY <1>1, <1>2, <2>2, <2>3
  <2>5. \A m \in StillOut(q)' : m.attempt \in Nat /\ m.attempt < sent[q] + 1
    <3>1. Sending(q).attempt = sent[q]
      BY DEF Sending
    <3>2. \A m \in StillOut(q) : m.attempt \in Nat
      BY DEF StillOut, TypeOK
    <3> QED
      BY <1>1, <2>1, <2>3, <3>1, <3>2
  <2>6. applied'[q] + Cardinality(StillOut(q)') <= MaxResends + 1
    BY <1>1, <2>2, <2>4
  <2>7. pc'[q] # "idle"
    BY <1>1 DEF Commands
  <2>8. pc'[q] \in Writing => sent'[q] = sent[q] + 1
    BY DEF Writing
  <2> QED
    BY <2>2, <2>4, <2>5, <2>6, <2>7, <2>8 DEF Tried
<1>4. CASE pc[q] \notin Writing
  <2>1. StillOut(q)' = StillOut(q)
    BY <1>4
  <2>2. pc'[q] \notin Writing \cup {"idle"}
    BY <1>1, <1>4 DEF Writing, Commands
  <2> QED
    BY <2>1, <2>2, TriedStays
<1> QED
  BY <1>3, <1>4

\* A request comes in.
LEMMA TriedReceived ==
    ASSUME CartInv, NEW q \in Requests, Tried(q), NEW r \in Requests, NEW op, Receive(r, op),
           \A p \in Requests : p # r => pc'[p] = pc[p],
           pc'[r] # "idle"
    PROVE  Tried(q)'
<1>1. StillOut(q)' = StillOut(q) /\ applied' = applied /\ sent' = sent
  BY DEF Receive, redis, StillOut
<1>2. CASE q # r
  BY <1>1, <1>2, TriedStays DEF CartInv
<1>3. CASE q = r
  <2>1. applied[q] = 0 /\ sent[q] = 0 /\ StillOut(q) = {} /\ MaxResends \in Nat
    BY <1>3, CartConstantsAssumption DEF Receive, CartInv, Stages, Tried
  <2>2. Cardinality(StillOut(q)') = 0 /\ IsFiniteSet(StillOut(q)')
    BY <1>1, <2>1, FS_EmptySet
  <2> QED
    BY <1>1, <1>3, <2>1, <2>2 DEF Tried
<1> QED
  BY <1>2, <1>3

\* Redis runs a command for r: nothing takes effect more than once, or for another.
LEMMA RunApplies ==
    ASSUME CartInv, NEW r \in Requests, NEW command \in Commands, Run(r, command)
    PROVE  /\ \A q \in Requests : q # r => applied'[q] = applied[q]
           /\ applied'[r] \in {applied[r], applied[r] + 1}
           /\ command \notin Writing => applied' = applied
           /\ Changes(r, command) => applied' = [applied EXCEPT ![r] = @ + 1]
           /\ ~Changes(r, command) => applied' = applied
BY DEF Run, Changes, Writing, CartInv, TypeOK

\* A command is answered.
LEMMA TriedExecuted ==
    ASSUME CartInv, NEW q \in Requests, Tried(q), NEW r \in Requests, NEW command \in Commands,
           Executes(r, command),
           \A p \in Requests : p # r => pc'[p] = pc[p],
           pc'[r] \in {"done", "lrem"}
    PROVE  Tried(q)'
<1>1. /\ StillOut(q)' = StillOut(q)
      /\ Run(r, command) /\ pc[r] = command
      /\ \A p \in Requests : p # r => sent'[p] = sent[p]
  BY DEF Executes, StillOut, CartInv, TypeOK
<1>2. CASE q # r
  BY <1>1, <1>2, RunApplies, TriedStays DEF CartInv
<1>3. CASE q = r /\ command \notin Writing
  <2>1. applied' = applied
    BY <1>1, <1>3, RunApplies
  <2>2. pc'[q] \notin Writing \cup {"idle"}
    BY <1>3 DEF Writing
  <2> QED
    BY <1>1, <2>1, <2>2, TriedStays DEF CartInv
<1>4. CASE q = r /\ command \in Writing
  <2>1. applied'[q] \in {applied[q], applied[q] + 1}
    BY <1>1, <1>4, RunApplies
  <2>2. /\ applied[q] \in Nat /\ sent[q] \in 0..MaxResends /\ MaxResends \in Nat
        /\ Cardinality(StillOut(q)) \in Nat
    BY CartConstantsAssumption, FS_CardinalityType DEF CartInv, TypeOK, Tried
  <2>3. applied[q] + Cardinality(StillOut(q)) <= sent[q]
    BY <1>1, <1>4 DEF Tried
  <2>4. applied'[q] + Cardinality(StillOut(q)) <= MaxResends + 1
    BY <2>1, <2>2, <2>3
  <2>5. pc'[q] \notin Writing \cup {"idle"}
    BY <1>4 DEF Writing
  <2> QED
    BY <1>1, <2>4, <2>5 DEF Tried
<1> QED
  BY <1>2, <1>3, <1>4

\* A command runs that nobody waits for.
LEMMA TriedLate ==
    ASSUME CartInv, NEW q \in Requests, Tried(q), NEW m \in late, Late(m)
    PROVE  Tried(q)'
<1>1. /\ late' = late \ {m} /\ pc' = pc /\ sent' = sent
      /\ m.request \in Requests /\ m.command \in Commands /\ Run(m.request, m.command)
  BY DEF Late, CartInv, TypeOK
<1>2. CASE m \notin StillOut(q)
  <2>1. StillOut(q)' = StillOut(q)
    BY <1>1, <1>2 DEF StillOut
  <2>2. applied'[q] = applied[q]
    BY <1>1, <1>2, RunApplies DEF StillOut
  <2> QED
    BY <1>1, <2>1, <2>2, TriedStays DEF CartInv
<1>3. CASE m \in StillOut(q)
  <2>1. StillOut(q)' = StillOut(q) \ {m} /\ m.request = q
    BY <1>1, <1>3 DEF StillOut
  <2>2. /\ IsFiniteSet(StillOut(q)')
        /\ Cardinality(StillOut(q)') = Cardinality(StillOut(q)) - 1
        /\ Cardinality(StillOut(q)) \in Nat
        /\ Cardinality(StillOut(q)') \in Nat
    BY <1>3, <2>1, FS_RemoveElement, FS_CardinalityType DEF Tried
  <2>3. applied'[q] \in {applied[q], applied[q] + 1} /\ applied[q] \in Nat
    BY <1>1, <2>1, RunApplies DEF CartInv, TypeOK
  <2>4. applied'[q] + Cardinality(StillOut(q)') <= applied[q] + Cardinality(StillOut(q))
    BY <2>2, <2>3
  <2>5. /\ sent[q] \in Nat /\ MaxResends \in Nat
        /\ StillOut(q) # {} /\ StillOut(q)' \subseteq StillOut(q)
    BY <1>3, <2>1, CartConstantsAssumption DEF CartInv, TypeOK
  <2>6. applied'[q] + Cardinality(StillOut(q)') \in Nat /\ applied[q] + Cardinality(StillOut(q)) \in Nat
    BY <2>2, <2>3
  <2>7. pc[q] \in Writing => applied'[q] + Cardinality(StillOut(q)') <= sent[q]
    BY <2>4, <2>5, <2>6 DEF Tried
  <2>8. applied'[q] + Cardinality(StillOut(q)') <= MaxResends + 1
    BY <2>4, <2>5, <2>6 DEF Tried
  <2> QED
    BY <1>1, <2>2, <2>5, <2>7, <2>8 DEF Tried
<1> QED
  BY <1>2, <1>3

\* Attempts is inductive.
LEMMA AttemptsNext == CartInv /\ Attempts /\ [Next]_vars => Attempts'
<1> SUFFICES ASSUME CartInv, Attempts, [Next]_vars, NEW q \in Requests PROVE Tried(q)'
  BY DEF Attempts
<1>1. Tried(q) /\ TypeOK /\ DOMAIN pc = Requests /\ DOMAIN sent = Requests
  BY DEF Attempts, CartInv, TypeOK
<1>2. ASSUME NEW r \in Requests, AddToCart(r) \/ GetCart(r) \/ RemoveFromCart(r) \/ ClearCart(r)
      PROVE  Tried(q)'
  <2>1. \E op : Receive(r, op)
    BY <1>2 DEF AddToCart, GetCart, RemoveFromCart, ClearCart
  <2>2. pc'[r] # "idle" /\ \A p \in Requests : p # r => pc'[p] = pc[p]
    BY <1>1, <1>2 DEF AddToCart, GetCart, RemoveFromCart, ClearCart, Answer, Goto
  <2> QED
    BY <1>1, <2>1, <2>2, TriedReceived
<1>3. ASSUME NEW r \in Requests, Step(r)
      PROVE  Tried(q)'
  <2>1. \E command \in Commands : Executes(r, command)
    BY <1>3 DEF Step, LPush, LRange, LSet, LRem, Del, Commands
  <2>2. pc'[r] \in {"done", "lrem"} /\ \A p \in Requests : p # r => pc'[p] = pc[p]
    BY <1>1, <1>3 DEF Step, LPush, LRange, LSet, LRem, Del, AfterLSet, Answer, Goto
  <2> QED
    BY <1>1, <2>1, <2>2, TriedExecuted
<1>4. ASSUME NEW r \in Requests, Resend(r) \/ GiveUp(r)
      PROVE  Tried(q)'
  <2>1. /\ Working(r) /\ late' = late \cup {Sending(r)} /\ applied' = applied
        /\ \/ pc' = pc /\ sent' = [sent EXCEPT ![r] = @ + 1]
           \/ pc' = [pc EXCEPT ![r] = "done"] /\ sent' = sent
    BY <1>4 DEF Resend, GiveUp, Answer
  <2>2. Sending(r).request = r /\ Sending(r).command = pc[r]
    BY DEF Sending
  <2>3. CASE q # r
    <3>1. StillOut(q)' = StillOut(q)
      BY <2>1, <2>2, <2>3 DEF StillOut
    <3>2. pc'[q] = pc[q] /\ sent'[q] = sent[q]
      BY <1>1, <2>1, <2>3
    <3> QED
      BY <1>1, <2>1, <3>1, <3>2, TriedStays
  <2>4. CASE q = r
    <3>1. StillOut(q)' = StillOut(q) \cup (IF pc[q] \in Writing THEN {Sending(q)} ELSE {})
      BY <2>1, <2>2, <2>4 DEF StillOut
    <3>2. \/ pc'[q] = pc[q] /\ sent'[q] = sent[q] + 1
          \/ pc'[q] \in {"done", "dead"}
      BY <1>1, <2>1, <2>4
    <3> QED
      BY <1>1, <2>1, <2>4, <3>1, <3>2, TriedAgain
  <2> QED
    BY <2>3, <2>4
<1>5. ASSUME NEW m \in late, Late(m)
      PROVE  Tried(q)'
  BY <1>1, <1>5, TriedLate
<1>6. CASE Crash
  <2>1. /\ late' = late \cup {Sending(r) : r \in {r \in Requests : Working(r)}}
        /\ applied' = applied /\ sent' = sent
        /\ pc'[q] = IF Working(q) THEN "dead" ELSE pc[q]
    BY <1>6 DEF Crash
  <2>2. \A r : Sending(r).request = r /\ Sending(r).command = pc[r]
    BY DEF Sending
  <2>3. CASE ~Working(q)
    <3>1. StillOut(q)' = StillOut(q)
      BY <2>1, <2>2, <2>3 DEF StillOut
    <3> QED
      BY <1>1, <2>1, <2>3, <3>1, TriedStays
  <2>4. CASE Working(q)
    <3>1. StillOut(q)' = StillOut(q) \cup (IF pc[q] \in Writing THEN {Sending(q)} ELSE {})
      BY <2>1, <2>2, <2>4 DEF StillOut
    <3> QED
      BY <1>1, <2>1, <2>4, <3>1, TriedAgain
  <2> QED
    BY <2>3, <2>4
<1>7. CASE UNCHANGED vars
  <2>1. StillOut(q)' = StillOut(q) /\ applied' = applied /\ pc' = pc /\ sent' = sent
    BY <1>7 DEF vars, StillOut
  <2> QED
    BY <1>1, <2>1, TriedStays
<1> QED
  BY <1>2, <1>3, <1>4, <1>5, <1>6, <1>7 DEF Next, Quiet

\* So it always holds, with what went before.
LEMMA CartStoreInvariant == Spec => []CartStoreInv
<1>1. Init => Attempts
  <2> SUFFICES ASSUME Init, NEW r \in Requests PROVE Tried(r)
    BY DEF Attempts
  <2>1. StillOut(r) = {} /\ pc[r] = "idle" /\ sent[r] = 0 /\ applied[r] = 0
    BY DEF Init, StillOut
  <2>2. IsFiniteSet(StillOut(r)) /\ Cardinality(StillOut(r)) = 0
    BY <2>1, FS_EmptySet
  <2> QED
    BY <2>1, <2>2, CartConstantsAssumption DEF Tried, Writing
<1> QED
  BY <1>1, AttemptsNext, CartInvariant, AnsweredAlways, PTL DEF Spec, CartStoreInv

--------------------------------------------------------------------------------
\* The store.

\* The lists as their users see them, and the requests answered with success.
Seen  == [u \in Users |-> Visible(cart[u])]
Acked == {r \in Requests : resp[r] \in {200, 201}}

\* An empty list shows nothing.
LEMMA SeenEmpty == Visible(<< >>) = << >>
<1>1. << >> \in Seq(Elements) /\ Len(<< >>) = 0
  OBVIOUS
<1>2. ItemsUpTo(<< >>, 0) = 0
  BY <1>1, ItemsCounted
<1>3. Visible(<< >>) \in Seq(Elements) /\ Len(Visible(<< >>)) = ItemsUpTo(<< >>, Len(<< >>))
  BY <1>1, SeenAt
<1> QED
  BY <1>1, <1>2, <1>3, EmptySeq

\* What a request asks, whose command Redis runs.
LEMMA RunsFor ==
    ASSUME CartInv, NEW r \in Requests, NEW command \in Commands, Serves(req[r], command)
    PROVE  /\ req[r] # NoRequest
           /\ req[r].user \in Users
           /\ cart[req[r].user] \in Seq(Elements)
           /\ command = "lpush"  => req[r].op = "add" /\ req[r].item \in Items
           /\ command = "lrange" => req[r].op = "get"
           /\ command \in {"lset", "lrem"} => req[r].op = "remove" /\ req[r].index \in Int
           /\ command = "del"    => req[r].op = "clear"
<1>1. req[r] # NoRequest
  BY CartConstantsAssumption DEF Serves, AnyInput
<1>2. req[r].user \in Users
  BY DEF Serves, AddInputs, GetInputs, RemoveInputs, ClearInputs
<1>3. cart[req[r].user] \in Seq(Elements)
  BY <1>2 DEF CartInv, TypeOK, Elements
<1> QED
  BY <1>1, <1>2, <1>3 DEF Serves, AddInputs, GetInputs, RemoveInputs, ClearInputs

\* A command that changes what is seen does what its request may do to the store;
\* every other changes nothing that is seen.
LEMMA RunSeen ==
    ASSUME CartInv, NEW r \in Requests, NEW command \in Commands,
           Serves(req[r], command), Run(r, command)
    PROVE  /\ Changes(r, command) => Store!Add(r) \/ Store!TakeOut(r) \/ Store!Clear(r)
           /\ ~Changes(r, command) => Seen' = Seen
<1> DEFINE u == req[r].user
           l == cart[u]
           after == Result(r, command, l)
<1>1. u \in Users /\ l \in Seq(Elements)
  BY RunsFor
<1>2. cart' = [cart EXCEPT ![u] = after] /\ DOMAIN cart = Users
  BY DEF Run, CartInv, TypeOK
<1>3. Seen[u] = Visible(l)
  BY <1>1 DEF Seen
<1> HIDE DEF u, l, after
<1>4. Seen' = [Seen EXCEPT ![u] = Visible(after)]
  BY <1>1, <1>2 DEF Seen
<1>5. Visible(after) = Seen[u] => Seen' = Seen
  BY <1>4 DEF Seen
<1>6. CASE command = "lpush"
  <2>1. after = Pushed(l, req[r].item) /\ req[r].op = "add" /\ req[r].item \in Items
    BY <1>6, RunsFor DEF Result, after, l
  <2>2. Seen' = [Seen EXCEPT ![u] = <<req[r].item>> \o Seen[u]]
    BY <1>1, <1>3, <1>4, <2>1, SeenPushed
  <2>3. Store!Add(r)
    BY <2>1, <2>2 DEF Store!Add, Store!Becomes, Seen, u
  <2> QED
    BY <1>6, <2>3 DEF Changes
<1>7. CASE command = "lset"
  <2>1. after = Marked(l, req[r].index) /\ req[r].op = "remove" /\ req[r].index \in Int
    BY <1>7, RunsFor DEF Result, after, l
  <2>2. CASE InRange(l, req[r].index)
    <3>1. \/ Seen' = Seen
          \/ \E k \in DOMAIN Seen[u] : Seen' = [Seen EXCEPT ![u] = RemoveAt(Seen[u], k)]
      BY <1>1, <1>3, <1>4, <1>5, <2>1, SeenMarked
    <3>2. Store!TakeOut(r)
      BY <2>1, <3>1 DEF Store!TakeOut, Store!Becomes, Store!RemoveAt, RemoveAt, Seen, u
    <3>3. Changes(r, command)
      BY <1>7, <2>2 DEF Changes, l, u
    <3> QED
      BY <3>2, <3>3
  <2>3. CASE ~InRange(l, req[r].index)
    <3>1. after = l
      BY <2>1, <2>3 DEF Marked
    <3>2. ~Changes(r, command)
      BY <1>7, <2>3 DEF Changes, l, u
    <3> QED
      BY <1>3, <1>5, <3>1, <3>2
  <2> QED
    BY <2>2, <2>3
<1>8. CASE command = "del"
  <2>1. after = << >> /\ req[r].op = "clear"
    BY <1>8, RunsFor DEF Result, after
  <2>2. Seen' = [Seen EXCEPT ![u] = << >>]
    BY <1>4, <2>1, SeenEmpty
  <2>3. Store!Clear(r)
    BY <2>1, <2>2 DEF Store!Clear, Store!Becomes, Seen, u
  <2> QED
    BY <1>8, <2>3 DEF Changes
<1>9. CASE command \in {"lrem", "lrange"}
  <2>1. after = IF command = "lrem" THEN Swept(l) ELSE l
    BY <1>9 DEF Result, after
  <2>2. Visible(after) = Seen[u]
    BY <1>1, <1>3, <2>1, SeenSwept
  <2>3. ~Changes(r, command)
    BY <1>9 DEF Changes
  <2> QED
    BY <1>5, <2>2, <2>3
<1> QED
  BY <1>6, <1>7, <1>8, <1>9 DEF Commands

\* What takes effect was not sent more often than it may be.
LEMMA RunEffects ==
    ASSUME CartInv, NEW r \in Requests, NEW command \in Commands,
           Serves(req[r], command), Run(r, command), req' = req,
           Changes(r, command), applied[r] <= MaxResends,
           Acked' \in {Acked, Acked \cup {r}}
    PROVE  Store!Effect(r)
<1>1. req[r] # NoRequest
  BY RunsFor
<1>2. applied[r] < MaxResends + 1
  BY CartConstantsAssumption DEF CartInv, TypeOK
<1>3. applied' = [applied EXCEPT ![r] = @ + 1]
  BY RunApplies
<1>4. Store!Add(r) \/ Store!TakeOut(r) \/ Store!Clear(r)
  BY RunSeen
<1> QED
  BY <1>1, <1>2, <1>3, <1>4 DEF Store!Effect, Acked

\* Nothing happens to the store.
LEMMA NothingSeen ==
    ASSUME Seen' = Seen, req' = req, applied' = applied, Acked' = Acked
    PROVE  UNCHANGED Store!vars
BY DEF Store!vars, Seen, Acked

\* A reply is an acknowledgement if it says so.
LEMMA Replies ==
    ASSUME CartInv, NEW r \in Requests, NEW status, Answer(r, status), resp[r] = 0
    PROVE  Acked' = IF status \in {200, 201} THEN Acked \cup {r} ELSE Acked
BY DEF Answer, Acked, CartInv, TypeOK

\* A request comes in: it is asked, and acknowledged not yet.
LEMMA ReceivedAsks ==
    ASSUME CartInv, Answered, NEW r \in Requests,
           AddToCart(r) \/ GetCart(r) \/ RemoveFromCart(r) \/ ClearCart(r)
    PROVE  Store!Ask(r)
<1>1. PICK op : Receive(r, op)
  BY DEF AddToCart, GetCart, RemoveFromCart, ClearCart
<1>2. pc[r] = "idle" /\ req[r] = NoRequest /\ resp[r] = 0
  BY <1>1 DEF Receive, CartInv, Stages, Answered, TypeOK
<1>3. \E in \in UNION {Inputs[q] : q \in Requests} : req' = [req EXCEPT ![r] = in]
  BY <1>1 DEF Receive
<1>4. Acked' = Acked
  <2>1. CASE Answer(r, 400)
    BY <1>2, <2>1, Replies
  <2>2. CASE resp' = resp
    BY <2>2 DEF Acked
  <2> QED
    BY <2>1, <2>2 DEF AddToCart, GetCart, RemoveFromCart, ClearCart, Goto
<1>5. cart' = cart /\ applied' = applied
  BY <1>1 DEF Receive, redis
<1>6. Seen' = Seen
  BY <1>5 DEF Seen
<1> QED
  BY <1>2, <1>3, <1>4, <1>5, <1>6 DEF Store!Ask, Seen, Acked

\* Redis answers: a write takes effect, a page or a sweep is acknowledged.
LEMMA StepsServe ==
    ASSUME CartStoreInv, NEW r \in Requests, Step(r)
    PROVE  Store!Effect(r) \/ Store!Acknowledge(r) \/ UNCHANGED Store!vars
<1>1. CartInv /\ Answered /\ Tried(r)
  BY DEF CartStoreInv, Attempts
<1>2. resp[r] = 0
  BY <1>1 DEF Step, LPush, LRange, LSet, LRem, Del, Executes, Answered, CartInv, TypeOK
<1>3. ASSUME NEW command \in Writing, Executes(r, command), Changes(r, command),
             Acked' \in {Acked, Acked \cup {r}}
      PROVE  Store!Effect(r)
  <2>1. command \in Commands /\ Serves(req[r], command) /\ Run(r, command) /\ req' = req
    BY <1>1, <1>3 DEF Executes, CartInv, Stages, Writing, Commands
  <2>2. applied[r] <= MaxResends
    <3>1. applied[r] + Cardinality(StillOut(r)) <= sent[r]
      BY <1>1, <1>3 DEF Executes, Tried
    <3>2. /\ applied[r] \in Nat /\ sent[r] \in 0..MaxResends
          /\ Cardinality(StillOut(r)) \in Nat
      BY <1>1, FS_CardinalityType DEF CartInv, TypeOK, Tried
    <3> QED
      BY <3>1, <3>2, CartConstantsAssumption
  <2> QED
    BY <1>1, <1>3, <2>1, <2>2, RunEffects
<1>4. ASSUME NEW command \in Commands, Executes(r, command), ~Changes(r, command)
      PROVE  Seen' = Seen /\ applied' = applied /\ req' = req /\ req[r] # NoRequest
  <2>1. Serves(req[r], command) /\ Run(r, command) /\ req' = req
    BY <1>1, <1>4 DEF Executes, CartInv, Stages
  <2> QED
    BY <1>1, <1>4, <2>1, RunSeen, RunApplies, RunsFor
<1>5. CASE LPush(r)
  <2>1. Executes(r, "lpush") /\ Changes(r, "lpush") /\ Acked' = Acked \cup {r}
    BY <1>1, <1>2, <1>5, Replies DEF LPush, Changes
  <2> QED
    BY <1>3, <2>1 DEF Writing
<1>6. CASE Del(r)
  <2>1. Executes(r, "del") /\ Changes(r, "del") /\ Acked' = Acked \cup {r}
    BY <1>1, <1>2, <1>6, Replies DEF Del, Changes
  <2> QED
    BY <1>3, <2>1 DEF Writing
<1>7. CASE LSet(r)
  <2>1. CASE InRange(cart[req[r].user], req[r].index)
    <3>1. Executes(r, "lset") /\ Changes(r, "lset") /\ resp' = resp
      BY <1>7, <2>1 DEF LSet, AfterLSet, Goto, Changes
    <3>2. Acked' = Acked
      BY <3>1 DEF Acked
    <3> QED
      BY <1>3, <3>1, <3>2 DEF Writing
  <2>2. CASE ~InRange(cart[req[r].user], req[r].index)
    <3>1. Executes(r, "lset") /\ ~Changes(r, "lset") /\ Answer(r, 500)
      BY <1>7, <2>2 DEF LSet, AfterLSet, Changes
    <3>2. Acked' = Acked
      BY <1>1, <1>2, <3>1, Replies
    <3> QED
      BY <1>4, <3>1, <3>2, NothingSeen DEF Commands
  <2> QED
    BY <2>1, <2>2
<1>8. CASE LRem(r)
  <2>1. Executes(r, "lrem") /\ ~Changes(r, "lrem") /\ Acked' = Acked \cup {r}
    BY <1>1, <1>2, <1>8, Replies DEF LRem, Changes
  <2>2. Seen' = Seen /\ applied' = applied /\ req' = req /\ req[r] # NoRequest
    BY <1>4, <2>1 DEF Commands
  <2>3. applied[r] > 0
    BY <1>1, <2>1 DEF Executes, CartInv, TypeOK
  <2> QED
    BY <2>1, <2>2, <2>3 DEF Store!Acknowledge, Seen, Acked
<1>9. CASE LRange(r)
  <2>1. Executes(r, "lrange") /\ ~Changes(r, "lrange") /\ Acked' \in {Acked, Acked \cup {r}}
    BY <1>1, <1>2, <1>9, Replies DEF LRange, Changes
  <2>2. Seen' = Seen /\ applied' = applied /\ req' = req /\ req[r] # NoRequest
    BY <1>4, <2>1 DEF Commands
  <2>3. req[r].op = "get"
    BY <1>1, <2>1, RunsFor DEF Executes, CartInv, Stages, Commands
  <2>4. CASE Acked' = Acked
    BY <2>2, <2>4, NothingSeen
  <2>5. CASE Acked' = Acked \cup {r}
    BY <2>2, <2>3, <2>5 DEF Store!Acknowledge, Seen, Acked
  <2> QED
    BY <2>1, <2>4, <2>5
<1> QED
  BY <1>5, <1>6, <1>7, <1>8, <1>9 DEF Step

\* A command nobody waits for takes effect, unacknowledged, or does nothing.
LEMMA LateServes ==
    ASSUME CartStoreInv, NEW m \in late, Late(m)
    PROVE  Store!Effect(m.request) \/ UNCHANGED Store!vars
<1> DEFINE r == m.request
           command == m.command
<1>1. CartInv /\ r \in Requests /\ command \in Commands
  BY DEF CartStoreInv, CartInv, TypeOK
<1>2. /\ Serves(req[r], command) /\ Run(r, command)
      /\ req' = req /\ resp' = resp /\ Tried(r)
  BY <1>1 DEF Late, CartInv, Stages, CartStoreInv, Attempts
<1>3. Acked' = Acked
  BY <1>2 DEF Acked
<1>4. m \in StillOut(r) <=> command \in Writing
  BY DEF StillOut
<1> HIDE DEF r, command
<1>5. CASE Changes(r, command)
  <2>1. command \in Writing
    BY <1>5 DEF Changes, Writing
  <2>2. /\ IsFiniteSet(StillOut(r)) /\ StillOut(r) # {}
        /\ applied[r] + Cardinality(StillOut(r)) <= MaxResends + 1
    BY <1>2, <1>4, <2>1 DEF Tried
  <2>3. Cardinality(StillOut(r)) \in Nat /\ Cardinality(StillOut(r)) # 0
    BY <2>2, FS_CardinalityType, FS_EmptySet
  <2>4. applied[r] \in Nat /\ MaxResends \in Nat
    BY <1>1, CartConstantsAssumption DEF CartInv, TypeOK
  <2>5. applied[r] <= MaxResends
    BY <2>2, <2>3, <2>4
  <2> QED
    BY <1>1, <1>2, <1>3, <1>5, <2>5, RunEffects DEF r
<1>6. CASE ~Changes(r, command)
  <2>1. Seen' = Seen /\ applied' = applied
    BY <1>1, <1>2, <1>6, RunSeen, RunApplies
  <2> QED
    BY <1>2, <1>3, <2>1, NothingSeen
<1> QED
  BY <1>5, <1>6

\* An empty cart is an empty list.
LEMMA StoreInitially == Init => Store!Init
<1> SUFFICES ASSUME Init PROVE Store!Init
  OBVIOUS
<1>1. [u \in Users |-> Visible(cart[u])] = [u \in Users |-> << >>]
  BY SeenEmpty DEF Init
<1>2. {r \in Requests : resp[r] \in {200, 201}} = {}
  BY DEF Init
<1> QED
  BY <1>1, <1>2 DEF Init, Store!Init

\* Every step is one of the store, or nothing is seen of it.
LEMMA StoreNext == CartStoreInv /\ [Next]_vars => [Store!Next]_Store!vars
<1> SUFFICES ASSUME CartStoreInv, [Next]_vars PROVE [Store!Next]_Store!vars
  OBVIOUS
<1>1. CartInv /\ Answered
  BY DEF CartStoreInv
<1>2. ASSUME NEW r \in Requests, AddToCart(r) \/ GetCart(r) \/ RemoveFromCart(r) \/ ClearCart(r)
      PROVE  Store!Next
  BY <1>1, <1>2, ReceivedAsks DEF Store!Next
<1>3. ASSUME NEW r \in Requests, Step(r)
      PROVE  [Store!Next]_Store!vars
  BY <1>3, StepsServe DEF Store!Next
<1>4. ASSUME NEW m \in late, Late(m)
      PROVE  [Store!Next]_Store!vars
  <2>1. m.request \in Requests
    BY <1>1 DEF CartInv, TypeOK
  <2> QED
    BY <1>4, <2>1, LateServes DEF Store!Next
<1>5. ASSUME NEW r \in Requests, Resend(r) \/ GiveUp(r)
      PROVE  UNCHANGED Store!vars
  <2>1. cart' = cart /\ req' = req /\ applied' = applied
    BY <1>5 DEF Resend, GiveUp
  <2>2. Acked' = Acked
    <3>1. CASE Resend(r)
      BY <3>1 DEF Resend, Acked
    <3>2. CASE GiveUp(r)
      <4>1. resp[r] = 0
        BY <1>1, <3>2 DEF GiveUp, Working, Commands, Answered, CartInv, TypeOK
      <4> QED
        BY <1>1, <3>2, <4>1, Replies DEF GiveUp
    <3> QED
      BY <1>5, <3>1, <3>2
  <2>3. Seen' = Seen
    BY <2>1 DEF Seen
  <2> QED
    BY <2>1, <2>2, <2>3, NothingSeen
<1>6. CASE Crash \/ UNCHANGED vars
  <2>1. cart' = cart /\ req' = req /\ applied' = applied /\ resp' = resp
    BY <1>6 DEF Crash, vars
  <2>2. Seen' = Seen /\ Acked' = Acked
    BY <2>1 DEF Seen, Acked
  <2> QED
    BY <2>1, <2>2, NothingSeen
<1> QED
  BY <1>2, <1>3, <1>4, <1>5, <1>6 DEF Next, Quiet

\* Seen without its markers, a cart is the list its users were promised: whatever is lost,
\* late, sent again or broken off by a crash, each request changes its own user's list
\* only, as it may and no more often than it was sent; nothing that LREM takes out can be
\* seen; and what is acknowledged has taken effect (redis_cache.go:30-71).
THEOREM ImplementsCartStoreHolds == Spec => ImplementsCartStore
BY StoreInitially, StoreNext, CartStoreInvariant, PTL DEF Spec, ImplementsCartStore, Store!Spec

--------------------------------------------------------------------------------
\* What follows for a user: what went in is there or was taken out, and nothing else is.

\* The requests of u that ask for op; the additions of x to the list of u, each time
\* they took effect; and the places of a list where x is.
Wanting(u, op) == {r \in Requests : req[r] # NoRequest /\ req[r].op = op /\ req[r].user = u}
AddedAs(u, x)  == {d \in Store!Done(u, "add") : req[d[1]].item = x}
Places(l, x)   == {j \in DOMAIN l : l[j] = x}

\* The effects of requests, element by element, and in the next state.
LEMMA DoneElements ==
    ASSUME TypeOK, NEW u, NEW op
    PROVE  Store!Done(u, op) = {d \in Requests \X Nat :
                                   d[1] \in Wanting(u, op) /\ d[2] \in 1..applied[d[1]]}
<1>1. \A r \in Requests : applied[r] \in Nat
  BY DEF TypeOK
<1> QED
  BY <1>1 DEF Store!Done, Wanting

LEMMA DoneElementsNext ==
    ASSUME applied' \in [Requests -> Nat], NEW u, NEW op
    PROVE  Store!Done(u, op)' = {d \in Requests \X Nat :
                                    d[1] \in Wanting(u, op)' /\ d[2] \in 1..applied'[d[1]]}
<1>1. \A r \in Requests : applied'[r] \in Nat
  OBVIOUS
<1> QED
  BY <1>1 DEF Store!Done, Wanting

\* A request comes in, or one is acknowledged: no effect more, and none becomes another's.
LEMMA DoneStays ==
    ASSUME TypeOK, applied' = applied,
           \A r \in Requests : req'[r] = req[r] \/ applied[r] = 0,
           NEW u, NEW op, NEW x
    PROVE  /\ Store!Done(u, op)' = Store!Done(u, op)
           /\ AddedAs(u, x)' = AddedAs(u, x)
<1>1. applied' \in [Requests -> Nat]
  BY DEF TypeOK
<1>2. ASSUME NEW o, NEW d \in Requests \X Nat, d[2] \in 1..applied[d[1]]
      PROVE  req'[d[1]] = req[d[1]] /\ (d[1] \in Wanting(u, o) <=> d[1] \in Wanting(u, o)')
  <2>1. applied[d[1]] # 0
    BY <1>2 DEF TypeOK
  <2>2. req'[d[1]] = req[d[1]]
    BY <2>1
  <2> QED
    BY <2>2 DEF Wanting
<1>3. \A o : Store!Done(u, o)' = Store!Done(u, o)
  <2> TAKE o
  <2>1. Store!Done(u, o) = {d \in Requests \X Nat : d[1] \in Wanting(u, o) /\ d[2] \in 1..applied[d[1]]}
    BY DoneElements
  <2>2. Store!Done(u, o)' = {d \in Requests \X Nat : d[1] \in Wanting(u, o)' /\ d[2] \in 1..applied[d[1]]}
    BY <1>1, DoneElementsNext
  <2> QED
    BY <1>2, <2>1, <2>2
<1>4. \A d \in Store!Done(u, "add") : req'[d[1]] = req[d[1]]
  BY <1>2, DoneElements
<1>5. AddedAs(u, x)' = {d \in Store!Done(u, "add")' : req'[d[1]].item = x}
  BY DEF AddedAs
<1>6. AddedAs(u, x)' = AddedAs(u, x)
  BY <1>3, <1>4, <1>5 DEF AddedAs
<1> QED
  BY <1>3, <1>6

\* A request takes effect: one effect more, of its own.
LEMMA DoneGrows ==
    ASSUME TypeOK, NEW r \in Requests, Store!Effect(r), NEW u, NEW op, NEW x
    PROVE  /\ <<r, applied[r] + 1>> \notin Store!Done(u, op)
           /\ Store!Done(u, op)' = IF r \in Wanting(u, op)
                                   THEN Store!Done(u, op) \cup {<<r, applied[r] + 1>>}
                                   ELSE Store!Done(u, op)
           /\ AddedAs(u, x)' = IF r \in Wanting(u, "add") /\ req[r].item = x
                               THEN AddedAs(u, x) \cup {<<r, applied[r] + 1>>}
                               ELSE AddedAs(u, x)
<1>1. /\ applied' = [applied EXCEPT ![r] = @ + 1] /\ req' = req
      /\ applied \in [Requests -> Nat]
  BY DEF Store!Effect, TypeOK
<1>2. /\ applied' \in [Requests -> Nat]
      /\ applied'[r] = applied[r] + 1
      /\ \A q \in Requests : q # r => applied'[q] = applied[q]
  BY <1>1
<1> DEFINE new == <<r, applied[r] + 1>>
<1>3. new \in Requests \X Nat /\ new[1] = r /\ new[2] = applied[r] + 1
  BY <1>1
<1>4. \A d \in Requests \X Nat :
         d[2] \in 1..applied'[d[1]] <=> d[2] \in 1..applied[d[1]] \/ d = new
  <2> TAKE d \in Requests \X Nat
  <2>1. CASE d[1] = r
    <3>1. d = <<r, d[2]>> /\ d[2] \in Nat /\ applied[r] \in Nat
      BY <1>1, <2>1
    <3> QED
      BY <1>2, <2>1, <3>1
  <2>2. CASE d[1] # r
    BY <1>2, <2>2
  <2> QED
    BY <2>1, <2>2
<1>5. new[2] \notin 1..applied[new[1]]
  BY <1>1
<1> HIDE DEF new
<1>6. \A o : /\ new \notin Store!Done(u, o)
             /\ Store!Done(u, o)' = IF r \in Wanting(u, o) THEN Store!Done(u, o) \cup {new}
                                    ELSE Store!Done(u, o)
  <2> TAKE o
  <2>1. Store!Done(u, o) = {d \in Requests \X Nat : d[1] \in Wanting(u, o) /\ d[2] \in 1..applied[d[1]]}
    BY DoneElements
  <2>2. Wanting(u, o)' = Wanting(u, o)
    BY <1>1 DEF Wanting
  <2>3. Store!Done(u, o)' = {d \in Requests \X Nat : d[1] \in Wanting(u, o) /\ d[2] \in 1..applied'[d[1]]}
    BY <1>2, <2>2, DoneElementsNext
  <2> QED
    BY <1>3, <1>4, <1>5, <2>1, <2>3
<1>7. AddedAs(u, x)' = {d \in Store!Done(u, "add")' : req[d[1]].item = x}
  BY <1>1 DEF AddedAs
<1>8. AddedAs(u, x)' = IF r \in Wanting(u, "add") /\ req[r].item = x
                       THEN AddedAs(u, x) \cup {new} ELSE AddedAs(u, x)
  BY <1>3, <1>6, <1>7 DEF AddedAs
<1> QED
  BY <1>6, <1>8 DEF new

\* A list has finitely many places.
LEMMA PlacesFinite ==
    ASSUME NEW l \in Seq(Elements), NEW x
    PROVE  IsFiniteSet(Places(l, x)) /\ Cardinality(Places(l, x)) \in Nat
<1>1. IsFiniteSet(1..Len(l)) /\ Places(l, x) \subseteq 1..Len(l)
  BY FS_Interval DEF Places
<1> QED
  BY <1>1, FS_Subset, FS_CardinalityType

\* An item put in front is in one place more; every other is in as many.
LEMMA PlacesPut ==
    ASSUME NEW l \in Seq(Elements), NEW item \in Items, NEW x
    PROVE  Cardinality(Places(<<item>> \o l, x))
              <= Cardinality(Places(l, x)) + (IF x = item THEN 1 ELSE 0)
<1> DEFINE moved == Places(<<item>> \o l, x)
           room  == IF x = item THEN Places(l, x) \cup {0} ELSE Places(l, x)
           down  == [i \in moved |-> i - 1]
<1>1. /\ <<item>> \o l \in Seq(Elements)
      /\ Len(<<item>> \o l) = Len(l) + 1
      /\ (<<item>> \o l)[1] = item
      /\ \A i \in 2..(Len(l) + 1) : (<<item>> \o l)[i] = l[i - 1]
  BY PushedList DEF Pushed
<1>2. ASSUME NEW i \in moved
      PROVE  i \in Nat /\ i - 1 \in room
  <2>1. i \in 1..(Len(l) + 1) /\ (<<item>> \o l)[i] = x
    BY <1>1 DEF Places
  <2>2. CASE i = 1
    BY <1>1, <2>1, <2>2
  <2>3. CASE i # 1
    <3>1. i \in 2..(Len(l) + 1) /\ i - 1 \in 1..Len(l)
      BY <2>1, <2>3
    <3>2. i - 1 \in Places(l, x)
      BY <1>1, <2>1, <3>1 DEF Places
    <3> QED
      BY <2>1, <3>2
  <2> QED
    BY <2>2, <2>3
<1>3. /\ IsFiniteSet(room)
      /\ Cardinality(room) <= Cardinality(Places(l, x)) + (IF x = item THEN 1 ELSE 0)
      /\ Cardinality(room) \in Nat
  <2>1. IsFiniteSet(Places(l, x)) /\ Cardinality(Places(l, x)) \in Nat
    BY PlacesFinite
  <2>2. CASE x = item
    <3>1. room = Places(l, x) \cup {0}
      BY <2>2
    <3> HIDE DEF room
    <3> QED
      BY <2>1, <2>2, <3>1, OneMore
  <2>3. CASE x # item
    BY <2>1, <2>3
  <2> QED
    BY <2>2, <2>3
<1>4. down \in Injection(moved, room)
  <2>1. down \in [moved -> room]
    BY <1>2
  <2>2. \A i, j \in moved : down[i] = down[j] => i = j
    BY <1>2
  <2> HIDE DEF moved, room, down
  <2> QED
    BY <2>1, <2>2, Fun_IsInj
<1> HIDE DEF room, down
<1>5. Cardinality(moved) <= Cardinality(room)
  BY <1>3, <1>4, FS_Injection
<1>6. Cardinality(moved) \in Nat /\ Cardinality(Places(l, x)) \in Nat
  BY <1>1, PlacesFinite
<1> HIDE DEF moved
<1>7. Cardinality(moved) <= Cardinality(Places(l, x)) + (IF x = item THEN 1 ELSE 0)
  BY <1>3, <1>5, <1>6
<1> QED
  BY <1>7 DEF moved

\* With one place less nothing is in more places.
LEMMA PlacesTakenOut ==
    ASSUME NEW l \in Seq(Elements), NEW j \in 1..Len(l), NEW x
    PROVE  Cardinality(Places(RemoveAt(l, j), x)) <= Cardinality(Places(l, x))
<1> DEFINE t    == RemoveAt(l, j)
           left == Places(t, x)
           up   == [i \in left |-> IF i < j THEN i ELSE i + 1]
<1>1. /\ t \in Seq(Elements)
      /\ Len(t) = Len(l) - 1
      /\ \A k \in 1..(Len(l) - 1) : t[k] = IF k < j THEN l[k] ELSE l[k + 1]
  BY RemovedAt
<1> HIDE DEF t
<1>2. ASSUME NEW i \in left
      PROVE  i \in Nat /\ (IF i < j THEN i ELSE i + 1) \in Places(l, x)
  <2>1. i \in 1..(Len(l) - 1) /\ t[i] = x
    BY <1>1 DEF Places
  <2> QED
    BY <1>1, <2>1 DEF Places
<1>3. up \in Injection(left, Places(l, x))
  <2>1. up \in [left -> Places(l, x)]
    BY <1>2
  <2>2. \A i, k \in left : up[i] = up[k] => i = k
    BY <1>2
  <2> HIDE DEF left, up
  <2> QED
    BY <2>1, <2>2, Fun_IsInj
<1> HIDE DEF left, up
<1> QED
  BY <1>3, PlacesFinite, FS_Injection DEF left, t

\* Nothing is done for a request that asks nothing, and what is done can be counted.
Counted ==
    /\ \A r \in Requests : req[r] = NoRequest => applied[r] = 0
    /\ \A u \in Users, op \in {"add", "remove", "clear"} : IsFiniteSet(Store!Done(u, op))

\* What is seen of a cart lacks of the additions no more than was taken out, and has of
\* no item more than was added, unless it was cleared.
Lacks(u) ==
    Store!Done(u, "clear") = {} =>
        Cardinality(Store!Done(u, "add")) <= Len(Seen[u]) + Cardinality(Store!Done(u, "remove"))
Has(u) == \A x \in Items : Cardinality(Places(Seen[u], x)) <= Cardinality(AddedAs(u, x))

Kept == Counted /\ \A u \in Users : Lacks(u) /\ Has(u)

\* The store counts as this module does.
LEMMA SameCount == ASSUME NEW S PROVE Store!Cardinality(S) = Cardinality(S)
BY Zenon DEF Store!Cardinality, Cardinality

\* What is seen of a cart is a list of items.
LEMMA SeenTypes ==
    ASSUME TypeOK, NEW u \in Users
    PROVE  Seen[u] \in Seq(Items) /\ Seen[u] \in Seq(Elements) /\ Len(Seen[u]) \in Nat
<1>1. cart[u] \in Seq(Elements)
  BY DEF TypeOK, Elements
<1> QED
  BY <1>1, SeenAt DEF Seen

\* A list that is replaced is the list of the request's user.
LEMMA SeenBecomes ==
    ASSUME NEW r \in Requests, req[r].user \in Users, NEW l, Store!Becomes(r, l)
    PROVE  Seen' = [Seen EXCEPT ![req[r].user] = l] /\ Seen'[req[r].user] = l
BY DEF Store!Becomes, Seen

\* What is kept stays so when no list changes and nothing takes effect.
LEMMA KeptUnchanged ==
    ASSUME TypeOK, Kept, Seen' = Seen, applied' = applied,
           \A r \in Requests : req'[r] = req[r] \/ applied[r] = 0
    PROVE  Kept'
<1>1. \A u, op, x : Store!Done(u, op)' = Store!Done(u, op) /\ AddedAs(u, x)' = AddedAs(u, x)
  BY DoneStays
<1>2. Counted'
  BY <1>1 DEF Kept, Counted
<1>3. \A u \in Users : Lacks(u)' /\ Has(u)'
  BY <1>1 DEF Kept, Lacks, Has
<1> QED
  BY <1>2, <1>3 DEF Kept

\* One effect of r, whose user is u, more: the lists of others, and what was done for
\* them, stay.
LEMMA KeptOthers ==
    ASSUME TypeOK, Kept, NEW r \in Requests, Store!Effect(r), req[r].user \in Users,
           NEW u \in Users, u # req[r].user
    PROVE  Lacks(u)' /\ Has(u)'
<1>1. Seen'[u] = Seen[u]
  BY DEF Store!Effect, Store!Add, Store!TakeOut, Store!Clear, Store!Becomes, Seen
<1>2. \A op : r \notin Wanting(u, op)
  BY DEF Wanting
<1>3. \A op, x : Store!Done(u, op)' = Store!Done(u, op) /\ AddedAs(u, x)' = AddedAs(u, x)
  BY <1>2, DoneGrows
<1> QED
  BY <1>1, <1>3 DEF Kept, Lacks, Has

\* What is done stays countable, and only grows.
LEMMA CountedGrows ==
    ASSUME TypeOK, Counted, NEW r \in Requests, Store!Effect(r)
    PROVE  Counted'
<1>1. /\ applied' = [applied EXCEPT ![r] = @ + 1] /\ req' = req /\ req[r] # NoRequest
      /\ applied \in [Requests -> Nat]
  BY DEF Store!Effect, TypeOK
<1>2. \A q \in Requests : req'[q] = NoRequest => applied'[q] = 0
  BY <1>1 DEF Counted
<1>3. ASSUME NEW u \in Users, NEW op \in {"add", "remove", "clear"}
      PROVE  IsFiniteSet(Store!Done(u, op)')
  <2>1. IsFiniteSet(Store!Done(u, op))
    BY DEF Counted
  <2>2. Store!Done(u, op)' \in {Store!Done(u, op), Store!Done(u, op) \cup {<<r, applied[r] + 1>>}}
    BY DoneGrows
  <2> QED
    BY <2>1, <2>2, OneMore
<1> QED
  BY <1>2, <1>3 DEF Counted

\* One effect of r more: the list of its user lacks nothing and has nothing more.
LEMMA KeptOwn ==
    ASSUME TypeOK, Kept, NEW r \in Requests, Store!Effect(r), NEW u \in Users, u = req[r].user,
           Store!Add(r) => req[r].item \in Items
    PROVE  Lacks(u)' /\ Has(u)'
<1> DEFINE l   == Seen[u]
           new == <<r, applied[r] + 1>>
           Adds     == Store!Done(u, "add")
           Removals == Store!Done(u, "remove")
           Clears   == Store!Done(u, "clear")
<1>1. /\ l \in Seq(Elements) /\ Len(l) \in Nat
      /\ req[r] # NoRequest
      /\ Seen[req[r].user] = l
      /\ DOMAIN Seen = Users
  BY SeenTypes DEF Store!Effect, Seen
<1>2. /\ IsFiniteSet(Adds) /\ Cardinality(Adds) \in Nat
      /\ IsFiniteSet(Removals) /\ Cardinality(Removals) \in Nat
  BY FS_CardinalityType DEF Kept, Counted
<1>3. /\ Clears = {} => Cardinality(Adds) <= Len(l) + Cardinality(Removals)
      /\ \A x \in Items : Cardinality(Places(l, x)) <= Cardinality(AddedAs(u, x))
  BY DEF Kept, Lacks, Has
<1>4. \A op : r \in Wanting(u, op) <=> req[r].op = op
  BY <1>1 DEF Wanting
<1>5. ASSUME NEW x
      PROVE  /\ IsFiniteSet(AddedAs(u, x)) /\ Cardinality(AddedAs(u, x)) \in Nat
             /\ new \notin AddedAs(u, x)
  <2>1. AddedAs(u, x) \subseteq Adds
    BY DEF AddedAs
  <2>2. new \notin Adds
    BY DoneGrows
  <2> QED
    BY <1>2, <2>1, <2>2, FS_Subset, FS_CardinalityType
<1>6. ASSUME NEW op, NEW x
      PROVE  /\ new \notin Store!Done(u, op)
             /\ Store!Done(u, op)' = IF req[r].op = op THEN Store!Done(u, op) \cup {new}
                                     ELSE Store!Done(u, op)
             /\ AddedAs(u, x)' = IF req[r].op = "add" /\ req[r].item = x
                                 THEN AddedAs(u, x) \cup {new} ELSE AddedAs(u, x)
  <2>1. /\ new \notin Store!Done(u, op)
        /\ Store!Done(u, op)' = IF r \in Wanting(u, op) THEN Store!Done(u, op) \cup {new}
                                ELSE Store!Done(u, op)
        /\ AddedAs(u, x)' = IF r \in Wanting(u, "add") /\ req[r].item = x
                            THEN AddedAs(u, x) \cup {new} ELSE AddedAs(u, x)
    BY DoneGrows
  <2>2. /\ r \in Wanting(u, op) <=> req[r].op = op
        /\ r \in Wanting(u, "add") <=> req[r].op = "add"
    BY <1>4
  <2> HIDE DEF new
  <2> QED
    BY <2>1, <2>2
<1> HIDE DEF l, new
<1>7. CASE Store!Add(r)
  <2>1. req[r].op = "add" /\ req[r].item \in Items /\ Seen'[u] = <<req[r].item>> \o l
    BY <1>1, <1>7, SeenBecomes DEF Store!Add, Seen
  <2>2. /\ Store!Done(u, "add")' = Adds \cup {new}
        /\ new \notin Adds
        /\ Store!Done(u, "remove")' = Removals
        /\ Store!Done(u, "clear")' = Clears
        /\ \A x : AddedAs(u, x)' = IF x = req[r].item THEN AddedAs(u, x) \cup {new} ELSE AddedAs(u, x)
    BY <1>6, <2>1
  <2>3. Len(Seen'[u]) = Len(l) + 1
    BY <1>1, <2>1, PushedList DEF Pushed
  <2>4. Lacks(u)'
    <3>1. Cardinality(Adds \cup {new}) = Cardinality(Adds) + 1
      BY <1>2, <2>2, FS_AddElement
    <3> HIDE DEF Adds, Removals, Clears
    <3>2. Clears = {} => Cardinality(Adds \cup {new}) <= Len(Seen'[u]) + Cardinality(Removals)
      BY <1>1, <1>2, <1>3, <2>3, <3>1
    <3> QED
      BY <2>2, <3>2 DEF Lacks
  <2>5. ASSUME NEW x \in Items
        PROVE  Cardinality(Places(Seen'[u], x)) <= Cardinality(AddedAs(u, x)')
    <3>1. Cardinality(Places(Seen'[u], x)) <= Cardinality(Places(l, x)) + (IF x = req[r].item THEN 1 ELSE 0)
      BY <1>1, <2>1, PlacesPut
    <3>2. Cardinality(AddedAs(u, x)') = Cardinality(AddedAs(u, x)) + (IF x = req[r].item THEN 1 ELSE 0)
      <4>1. CASE x = req[r].item
        <5>1. AddedAs(u, x)' = AddedAs(u, x) \cup {new}
          BY <2>2, <4>1
        <5>2. Cardinality(AddedAs(u, x) \cup {new}) = Cardinality(AddedAs(u, x)) + 1
          BY <1>5, FS_AddElement
        <5> QED
          BY <4>1, <5>1, <5>2
      <4>2. CASE x # req[r].item
        <5>1. AddedAs(u, x)' = AddedAs(u, x)
          BY <2>2, <4>2
        <5>2. Cardinality(AddedAs(u, x)) \in Nat
          BY <1>5
        <5> QED
          BY <4>2, <5>1, <5>2
      <4> QED
        BY <4>1, <4>2
    <3>3. Cardinality(Places(l, x)) \in Nat /\ Cardinality(AddedAs(u, x)) \in Nat
      BY <1>1, <1>5, PlacesFinite
    <3>4. Seen'[u] \in Seq(Elements)
      BY <1>1, <2>1, PushedList DEF Pushed
    <3>5. Cardinality(Places(Seen'[u], x)) \in Nat
      BY <3>4, PlacesFinite
    <3>6. Cardinality(Places(l, x)) <= Cardinality(AddedAs(u, x))
      BY <1>3
    <3> QED
      BY <3>1, <3>2, <3>3, <3>5, <3>6
  <2>6. Has(u)'
    BY <2>5 DEF Has
  <2> QED
    BY <2>4, <2>6
<1>8. CASE Store!TakeOut(r)
  <2>1. req[r].op = "remove"
    BY <1>8 DEF Store!TakeOut
  <2>2. \/ Seen'[u] = l
        \/ \E j \in 1..Len(l) : Seen'[u] = RemoveAt(l, j)
    <3>1. CASE Seen' = Seen
      BY <1>1, <3>1
    <3>2. ASSUME NEW j \in DOMAIN l, Store!Becomes(r, Store!RemoveAt(l, j))
          PROVE  Seen'[u] = RemoveAt(l, j)
      BY <1>1, <3>2, SeenBecomes DEF Store!RemoveAt, RemoveAt
    <3>3. \/ Seen' = Seen
          \/ \E j \in DOMAIN l : Store!Becomes(r, Store!RemoveAt(l, j))
      BY <1>1, <1>8 DEF Store!TakeOut, Seen
    <3> QED
      BY <1>1, <3>1, <3>2, <3>3
  <2>3. /\ Store!Done(u, "add")' = Adds
        /\ Store!Done(u, "remove")' = Removals \cup {new}
        /\ new \notin Removals
        /\ Store!Done(u, "clear")' = Clears
        /\ \A x : AddedAs(u, x)' = AddedAs(u, x)
    BY <1>6, <2>1
  <2>4. /\ Len(Seen'[u]) \in Nat /\ Len(l) <= Len(Seen'[u]) + 1
        /\ \A x : Cardinality(Places(Seen'[u], x)) <= Cardinality(Places(l, x))
    <3>1. CASE Seen'[u] = l
      BY <1>1, <3>1, PlacesFinite
    <3>2. ASSUME NEW j \in 1..Len(l), Seen'[u] = RemoveAt(l, j)
          PROVE  /\ Len(Seen'[u]) \in Nat /\ Len(l) <= Len(Seen'[u]) + 1
                 /\ \A x : Cardinality(Places(Seen'[u], x)) <= Cardinality(Places(l, x))
      BY <1>1, <3>2, RemovedAt, PlacesTakenOut
    <3> QED
      BY <2>2, <3>1, <3>2
  <2>5. Lacks(u)'
    <3>1. Cardinality(Removals \cup {new}) = Cardinality(Removals) + 1
      BY <1>2, <2>3, FS_AddElement
    <3> HIDE DEF Adds, Removals, Clears
    <3>2. Clears = {} => Cardinality(Adds) <= Len(Seen'[u]) + Cardinality(Removals \cup {new})
      BY <1>1, <1>2, <1>3, <2>4, <3>1
    <3> QED
      BY <2>3, <3>2 DEF Lacks
  <2>6. ASSUME NEW x \in Items
        PROVE  Cardinality(Places(Seen'[u], x)) <= Cardinality(AddedAs(u, x)')
    <3>1. Cardinality(Places(l, x)) <= Cardinality(AddedAs(u, x))
      BY <1>3
    <3>2. Cardinality(Places(l, x)) \in Nat /\ Cardinality(AddedAs(u, x)) \in Nat
      BY <1>1, <1>5, PlacesFinite
    <3>3. Cardinality(Places(Seen'[u], x)) \in Nat
      <4>1. Seen'[u] \in Seq(Elements)
        BY <1>1, <2>2, RemovedAt
      <4> QED
        BY <4>1, PlacesFinite
    <3>4. Cardinality(Places(Seen'[u], x)) <= Cardinality(Places(l, x))
      BY <2>4
    <3> QED
      BY <2>3, <3>1, <3>2, <3>3, <3>4
  <2>7. Has(u)'
    BY <2>6 DEF Has
  <2> QED
    BY <2>5, <2>7
<1>9. CASE Store!Clear(r)
  <2>1. req[r].op = "clear" /\ Seen'[u] = << >>
    BY <1>1, <1>9, SeenBecomes DEF Store!Clear
  <2>2. /\ Store!Done(u, "clear")' # {}
        /\ \A x : AddedAs(u, x)' = AddedAs(u, x)
    BY <1>6, <2>1
  <2>3. \A x : Places(<< >>, x) = {}
    BY DEF Places
  <2>4. ASSUME NEW x \in Items
        PROVE  Cardinality(Places(Seen'[u], x)) <= Cardinality(AddedAs(u, x)')
    <3>1. Cardinality(Places(Seen'[u], x)) = 0
      BY <2>1, <2>3, FS_EmptySet
    <3>2. Cardinality(AddedAs(u, x)') \in Nat
      BY <1>5, <2>2
    <3> QED
      BY <3>1, <3>2
  <2> QED
    BY <2>2, <2>4 DEF Lacks, Has
<1> QED
  BY <1>7, <1>8, <1>9 DEF Store!Effect

\* What is kept is kept in every step of the store.
LEMMA KeptNext == CartStoreInv /\ Kept /\ [Next]_vars => Kept'
<1> SUFFICES ASSUME CartStoreInv, Kept, [Next]_vars PROVE Kept'
  OBVIOUS
<1>1. TypeOK
  BY DEF CartStoreInv, CartInv
<1>2. ASSUME NEW r \in Requests, Store!Ask(r)
      PROVE  Kept'
  <2>1. Seen' = Seen /\ applied' = applied /\ req[r] = NoRequest
    BY <1>2 DEF Store!Ask, Seen
  <2>2. \A q \in Requests : req'[q] = req[q] \/ applied[q] = 0
    BY <1>1, <1>2, <2>1 DEF Store!Ask, Kept, Counted, TypeOK
  <2> QED
    BY <1>1, <2>1, <2>2, KeptUnchanged
<1>3. ASSUME NEW r \in Requests, Store!Effect(r)
      PROVE  Kept'
  <2>1. req[r] \in AnyInput /\ req[r].op \in {"add", "remove", "clear"}
    BY <1>1, <1>3 DEF Store!Effect, Store!Add, Store!TakeOut, Store!Clear, TypeOK
  <2>2. req[r].user \in Users
    BY <2>1 DEF AnyInput, AddInputs, GetInputs, RemoveInputs, ClearInputs
  <2>3. ASSUME Store!Add(r) PROVE req[r].item \in Items
    <3> DEFINE u == req[r].user
    <3>1. cart'[u] \in Seq(Elements)
      <4>1. cart' \in [Users -> Seq(Items \cup {Marker})]
        <5>1. CartInv'
          BY CartNext DEF CartStoreInv
        <5> QED
          BY <5>1 DEF CartInv, TypeOK
      <4> QED
        BY <2>2, <4>1 DEF Elements
    <3>2. Seen'[u] \in Seq(Items)
      BY <2>2, <3>1, SeenAt DEF Seen
    <3>3. Seen[u] \in Seq(Items)
      BY <1>1, <2>2, SeenTypes
    <3>4. Seen'[u] = <<req[r].item>> \o Seen[u]
      BY <2>2, <2>3, SeenBecomes DEF Store!Add, Seen
    <3> HIDE DEF u
    <3>5. /\ Len(<<req[r].item>> \o Seen[u]) = 1 + Len(Seen[u])
          /\ (<<req[r].item>> \o Seen[u])[1] = req[r].item
      BY <3>3
    <3> QED
      BY <3>2, <3>3, <3>4, <3>5
  <2>4. \A u \in Users : Lacks(u)' /\ Has(u)'
    BY <1>1, <1>3, <2>2, <2>3, KeptOwn, KeptOthers
  <2> QED
    BY <1>1, <1>3, <2>4, CountedGrows DEF Kept
<1>4. ASSUME NEW r \in Requests, Store!Acknowledge(r)
      PROVE  Kept'
  <2>1. Seen' = Seen /\ applied' = applied /\ req' = req
    BY <1>4 DEF Store!Acknowledge, Seen
  <2> QED
    BY <1>1, <2>1, KeptUnchanged
<1>5. CASE UNCHANGED Store!vars
  <2>1. Seen' = Seen /\ applied' = applied /\ req' = req
    BY <1>5 DEF Store!vars, Seen
  <2> QED
    BY <1>1, <2>1, KeptUnchanged
<1>6. [Store!Next]_Store!vars
  BY StoreNext
<1> QED
  BY <1>2, <1>3, <1>4, <1>5, <1>6 DEF Store!Next

\* So it always holds.
LEMMA KeptAlways == Spec => [](TypeOK /\ Kept)
<1>1. Init => Kept
  <2> SUFFICES ASSUME Init PROVE Kept
    OBVIOUS
  <2>1. \A u, op, x : Store!Done(u, op) = {} /\ AddedAs(u, x) = {}
    BY DEF Init, Store!Done, AddedAs
  <2>2. \A u \in Users : Seen[u] = << >>
    BY SeenEmpty DEF Init, Seen
  <2>3. IsFiniteSet({}) /\ Cardinality({}) = 0
    BY FS_EmptySet
  <2>4. \A x : Places(<< >>, x) = {}
    BY DEF Places
  <2>5. Counted
    BY <2>1, <2>3 DEF Counted, Init
  <2> QED
    <3>1. ASSUME NEW u \in Users PROVE Lacks(u) /\ Has(u)
      <4>1. /\ Cardinality(Store!Done(u, "add")) = 0
            /\ Cardinality(Store!Done(u, "remove")) = 0
        BY <2>1, <2>3
      <4>2. Len(Seen[u]) = 0
        BY <2>2
      <4>3. Lacks(u)
        BY <4>1, <4>2 DEF Lacks
      <4>4. ASSUME NEW x \in Items
            PROVE  Cardinality(Places(Seen[u], x)) = 0 /\ Cardinality(AddedAs(u, x)) = 0
        BY <2>1, <2>2, <2>3, <2>4
      <4>5. Has(u)
        BY <4>4 DEF Has
      <4> QED
        BY <4>3, <4>5
    <3> QED
      BY <2>5, <3>1 DEF Kept
<1> QED
  BY <1>1, KeptNext, CartStoreInvariant, CartTypeCorrect, PTL DEF Spec

\* Whatever is lost, late, sent again or broken off, and whichever requests overlap: of
\* the items added to a cart that was never cleared, at most one for each time the LSET
\* of a removal took effect is not seen any more; none goes to the marker another removal
\* left there, or to LREM (redis_cache.go:48-57).
THEOREM NothingLostHolds == Spec => []NothingLost
<1>1. ASSUME Kept PROVE NothingLost
  <2>1. \A u \in Users : Lacks(u)
    BY <1>1 DEF Kept
  <2> QED
    BY <2>1, SameCount DEF Lacks, Seen, NothingLost, Store!NothingLost
<1> QED
  BY <1>1, KeptAlways, PTL

\* And what is seen in a cart was put there, by requests of its own user, as often as it
\* is seen (redis_cache.go:30-36).
THEOREM NothingForgedHolds == Spec => []NothingForged
<1>1. ASSUME TypeOK, Kept PROVE NothingForged
  <2>1. ASSUME NEW u \in Users, NEW i \in DOMAIN Seen[u]
        PROVE  Cardinality({j \in DOMAIN Seen[u] : Seen[u][j] = Seen[u][i]})
                  <= Cardinality({d \in Store!Done(u, "add") : req[d[1]].item = Seen[u][i]})
    <3>1. Seen[u][i] \in Items
      BY <1>1, <2>1, SeenTypes
    <3> QED
      BY <1>1, <3>1 DEF Kept, Has, Places, AddedAs
  <2> QED
    BY <2>1, SameCount DEF NothingForged, Store!NothingForged, Seen
<1> QED
  BY <1>1, KeptAlways, PTL

--------------------------------------------------------------------------------
\* What a removal takes.

\* Only its own LSET takes a removal to its LREM.
LEMMA LSetRan ==
    ASSUME TypeOK, [Next]_vars, NEW r \in Requests, pc[r] = "lset", pc'[r] = "lrem"
    PROVE  LSet(r) /\ InRange(cart[req[r].user], req[r].index)
<1>1. DOMAIN pc = Requests
  BY DEF TypeOK
<1>2. ASSUME NEW q \in Requests, NEW status, Answer(q, status) PROVE FALSE
  BY <1>1, <1>2 DEF Answer
<1>3. ASSUME NEW q \in Requests, NEW command, Goto(q, command) PROVE q = r
  BY <1>1, <1>3 DEF Goto
<1>4. ~\E q \in Requests : AddToCart(q) \/ GetCart(q) \/ RemoveFromCart(q) \/ ClearCart(q)
  BY <1>2, <1>3 DEF AddToCart, GetCart, RemoveFromCart, ClearCart, Receive
<1>5. ~\E q \in Requests : LPush(q) \/ LRange(q) \/ LRem(q) \/ Del(q)
  BY <1>2 DEF LPush, LRange, LRem, Del
<1>6. ~\E q \in Requests : Resend(q) \/ GiveUp(q)
  BY <1>2 DEF Resend, GiveUp
<1>7. ~(\E m \in late : Late(m)) /\ ~Crash /\ ~(UNCHANGED vars)
  BY DEF Late, Crash, vars
<1>8. PICK q \in Requests : LSet(q)
  BY <1>4, <1>5, <1>6, <1>7 DEF Next, Step, Quiet
<1>9. CASE InRange(cart[req[q].user], req[q].index)
  BY <1>3, <1>8, <1>9 DEF LSet, AfterLSet
<1>10. CASE ~InRange(cart[req[q].user], req[q].index)
  BY <1>2, <1>8, <1>10 DEF LSet, AfterLSet
<1> QED
  BY <1>9, <1>10

\* The comment on RemoveItemByIndex, as far as it goes (redis_cache.go:48-57): a removal
\* that no other removal of its user disturbs takes out the item its user sees at the
\* index. For then the cart has no marker, and what is seen is the list itself.
THEOREM RemovalTakesItsItemHolds == Spec => RemovalTakesItsItem
<1> DEFINE Takes(r) ==
       LET u     == req[r].user
           place == req[r].index + 1
       IN  pc[r] = "lset" /\ pc'[r] = "lrem" /\ Owed(u) = {} =>
              /\ place \in DOMAIN Visible(cart[u])
              /\ Visible(cart'[u]) = RemoveAt(Visible(cart[u]), place)
<1>1. ASSUME CartInv, [Next]_vars, NEW r \in Requests,
             pc[r] = "lset", pc'[r] = "lrem", Owed(req[r].user) = {}
      PROVE  /\ req[r].index + 1 \in DOMAIN Visible(cart[req[r].user])
             /\ Visible(cart'[req[r].user])
                   = RemoveAt(Visible(cart[req[r].user]), req[r].index + 1)
  <2> DEFINE u     == req[r].user
             index == req[r].index
  <2>1. LSet(r) /\ InRange(cart[u], index)
    BY <1>1, LSetRan DEF CartInv
  <2>2. Serves(req[r], "lset") /\ Run(r, "lset")
    BY <1>1, <2>1 DEF LSet, Executes, CartInv, Stages, Commands
  <2>3. u \in Users /\ cart[u] \in Seq(Elements) /\ index \in Int
    BY <1>1, <2>2, RunsFor DEF Commands
  <2>4. MarkersIn(cart[u]) = {}
    BY <1>1, <2>3, NothingOwed DEF Markers
  <2>5. cart'[u] = Marked(cart[u], index)
    BY <1>1, <2>2, <2>3 DEF Run, Result, CartInv, TypeOK
  <2> HIDE DEF u, index
  <2>6. index + 1 \in 1..Len(cart[u])
    BY <2>1, <2>3 DEF InRange
  <2>7. cart[u][index + 1] # Marker
    BY <2>4, <2>6 DEF MarkersIn
  <2>8. ItemsUpTo(cart[u], index + 1) = index + 1
    BY <2>3, <2>4, <2>6, AllSeen
  <2>9. /\ ItemsUpTo(cart[u], index + 1) \in DOMAIN Visible(cart[u])
        /\ Visible(Marked(cart[u], index))
              = RemoveAt(Visible(cart[u]), ItemsUpTo(cart[u], index + 1))
    BY <2>1, <2>3, <2>7, SeenMarkedItem
  <2> QED
    BY <2>5, <2>8, <2>9 DEF u, index
<1>2. CartInv /\ [Next]_vars => [\A r \in Requests : Takes(r)]_vars
  BY <1>1
<1> QED
  BY <1>2, CartInvariant, PTL DEF RemovalTakesItsItem, Spec
================================================================================

--------------------------- MODULE IcingaDBProofs ---------------------------
(***************************************************************************)
(* Once the pending items are processed, Redis has what the objects say     *)
(* (RedisInSync), for any number of creations, groups, changes and broken   *)
(* connections.                                                             *)
(*                                                                          *)
(* The invariant says what the pending items will make of what Redis has,   *)
(* or what a dump is going to write: of everything that should not be there *)
(* one of them is a deletion, and everything that should be there is        *)
(* written by one that no deletion follows, or is there and not deleted. It *)
(* is stated with the item the worker has taken, or the queries it has made *)
(* of it, with what a dump has read and has still to read, the order of the *)
(* items and the state of their objects by then.                            *)
(***************************************************************************)
EXTENDS IcingaDB, FiniteSetTheorems, SequenceTheorems, WellFoundedInduction, TLAPS

-----------------------------------------------------------------------------
(* The queue                                                                 *)

Bits == {"ConfigUpdate", "ConfigDelete", "VolatileState", "NextUpdate"}
RelationIds == {"child", "parent", "edgeId", "edgeStateId"} \cup Groups
Items == [kind : {"config", "edge", "groupState", "relations"},
          key : Nat \cup RelationIds,
          what : SUBSET (Bits \cup Entries \cup Nat)]

\* No two items are about the same.
Unique(q) == \A m, n \in DOMAIN q : Same(q[m], q[n]) => m = n

\* An item that is merged into another stays about the same.
LEMMA MergeItems ==
  ASSUME NEW i \in Items, NEW j \in Items
  PROVE  Merge(i, j) \in Items /\ Same(Merge(i, j), i)
<1>1. i = [kind |-> i.kind, key |-> i.key, what |-> i.what] /\ i.what \subseteq Bits \cup Entries \cup Nat
      /\ j.what \subseteq Bits \cup Entries \cup Nat
  BY DEF Items
<1>2. MergeBits(i.what, j.what) \subseteq Bits \cup Entries \cup Nat
  BY <1>1 DEF MergeBits
<1>3. CASE i.kind = "config"
  <2>1. Merge(i, j) = [i EXCEPT !.what = MergeBits(i.what, j.what)] BY <1>3 DEF Merge
  <2> HIDE DEF Entries
  <2> QED BY <2>1, <1>2 DEF Items, Same
<1>4. CASE i.kind = "relations"
  <2>1. Merge(i, j) = [i EXCEPT !.what = i.what \cup j.what] BY <1>4 DEF Merge
  <2> QED BY <2>1, <1>1 DEF Items, Same
<1>5. CASE i.kind \notin {"config", "relations"}
  <2>1. Merge(i, j) = i BY <1>5 DEF Merge
  <2> QED BY <2>1 DEF Items, Same
<1> QED BY <1>3, <1>4, <1>5

\* What an item has after another was merged into it
LEMMA MergeWhat ==
  ASSUME NEW i \in Items, NEW j \in Items
  PROVE  /\ i.kind = "config" => Merge(i, j).what = MergeBits(i.what, j.what)
         /\ i.kind = "relations" => Merge(i, j).what = i.what \cup j.what
         /\ i.kind \notin {"config", "relations"} => Merge(i, j) = i
<1>1. CASE i.kind = "config"
  <2>1. Merge(i, j) = [i EXCEPT !.what = MergeBits(i.what, j.what)] BY <1>1 DEF Merge
  <2>2. Merge(i, j).what = MergeBits(i.what, j.what) BY <2>1 DEF Items
  <2> QED BY <2>2, <1>1
<1>2. CASE i.kind = "relations"
  <2>1. Merge(i, j) = [i EXCEPT !.what = i.what \cup j.what] BY <1>2 DEF Merge
  <2>2. Merge(i, j).what = i.what \cup j.what BY <2>1 DEF Items
  <2> QED BY <2>2, <1>2
<1>3. CASE i.kind \notin {"config", "relations"}
  BY <1>3 DEF Merge
<1> QED BY <1>1, <1>2, <1>3

\* An item is merged into the one about the same, or becomes the last.
LEMMA EnqueueOne ==
  ASSUME NEW q \in Seq(Items), NEW x \in Items
  PROVE  /\ Enqueue(q, x) \in Seq(Items)
         /\ Len(Enqueue(q, x)) \in {Len(q), Len(q) + 1}
         /\ \A n \in DOMAIN q :
               Enqueue(q, x)[n] = IF Same(q[n], x) THEN Merge(q[n], x) ELSE q[n]
         /\ Len(Enqueue(q, x)) = Len(q) + 1 =>
               ~Pending(q, x) /\ Enqueue(q, x)[Len(q) + 1] = x
         /\ Pending(Enqueue(q, x), x)
<1> DEFINE r == Enqueue(q, x)
<1>0. Len(q) \in Nat /\ DOMAIN q = 1..Len(q) /\ \A n \in DOMAIN q : q[n] \in Items
  <2>1. Len(q) \in Nat /\ DOMAIN q = 1..Len(q) OBVIOUS
  <2> QED BY <2>1, ElementOfSeq
<1>1. CASE Pending(q, x)
  <2> DEFINE M(n) == IF Same(q[n], x) THEN Merge(q[n], x) ELSE q[n]
  <2>1. r = [n \in 1..Len(q) |-> M(n)] BY <1>0, <1>1 DEF Enqueue
  <2>2. \A n \in 1..Len(q) : M(n) \in Items BY <1>0, MergeItems
  <2>3. PICK k \in 1..Len(q) : Same(q[k], x) BY <1>0, <1>1 DEF Pending
  <2>4. Same(M(k), x) BY <2>3, <1>0, MergeItems DEF Same
  <2> HIDE DEF r, M
  <2>5. r \in Seq(Items) /\ Len(r) = Len(q) /\ DOMAIN r = 1..Len(q) BY <2>1, <2>2, <1>0
  <2>6. \A n \in 1..Len(q) : r[n] = M(n) BY <2>1
  <2>7. Pending(r, x) BY <2>3, <2>4, <2>5, <2>6 DEF Pending
  <2>a. \A l \in Nat : l # l + 1 OBVIOUS
  <2>8. Len(r) # Len(q) + 1 BY <2>5, <1>0, <2>a
  <2> QED BY <2>5, <2>6, <2>7, <2>8, <1>0 DEF r, M
<1>2. CASE ~Pending(q, x)
  <2>1. r = Append(q, x) BY <1>2 DEF Enqueue
  <2> HIDE DEF r
  <2>2. r \in Seq(Items) /\ Len(r) = Len(q) + 1 /\ DOMAIN r = 1..(Len(q) + 1) BY <2>1, <1>0
  <2>3. \A n \in 1..Len(q) : r[n] = q[n] BY <2>1, <1>0
  <2>4. r[Len(q) + 1] = x BY <2>1, <1>0
  <2>5. Same(r[Len(q) + 1], x) /\ Len(q) + 1 \in DOMAIN r BY <2>2, <2>4, <1>0 DEF Same
  <2>6. Pending(r, x) BY <2>5 DEF Pending
  <2>7. \A n \in DOMAIN q : ~Same(q[n], x) BY <1>2 DEF Pending
  <2> QED BY <2>2, <2>3, <2>4, <2>6, <2>7, <1>0, <1>2 DEF r
<1> QED BY <1>1, <1>2

\* Items that are enqueued together: two about the same do not delete.
Compatible(items) ==
    /\ items \in Seq(Items)
    /\ \A m, n \in DOMAIN items : Same(items[m], items[n]) /\ m # n =>
          items[m].kind = "config" /\ "ConfigDelete" \notin items[m].what

\* A bit of item i is cancelled when j is merged into it.
Cancels(j, bit) == \/ "ConfigDelete" \in j.what /\ bit \in {"ConfigUpdate", "VolatileState"}
                   \/ "ConfigUpdate" \in j.what /\ bit = "ConfigDelete"

\* What the queue q has become once the first k items are enqueued: the items keep their
\* places and what they are about, the others are added behind them, and nothing but
\* what is enqueued is added to an item or cancelled in it.
Extends(q, items, k, r) ==
    /\ r \in Seq(Items) /\ Unique(r) /\ Len(q) <= Len(r)
    /\ \A n \in DOMAIN q : Same(r[n], q[n])
    /\ \A n \in DOMAIN r : n \notin DOMAIN q => \E m \in 1..k : Same(r[n], items[m])
    /\ \A m \in 1..k : \E n \in DOMAIN r :
          /\ Same(r[n], items[m])
          /\ items[m].kind \in {"config", "relations"} => items[m].what \subseteq r[n].what
          /\ items[m].kind = "config" /\ "ConfigDelete" \in items[m].what =>
                r[n].what \cap {"ConfigUpdate", "VolatileState"} \subseteq items[m].what
          /\ items[m].kind \in {"edge", "groupState"} /\ n \notin DOMAIN q => r[n] = items[m]
    /\ \A n \in DOMAIN r : \A bit \in r[n].what :
          \/ n \in DOMAIN q /\ bit \in q[n].what
          \/ \E m \in 1..k : Same(r[n], items[m]) /\ bit \in items[m].what
    /\ \A n \in DOMAIN q : \A bit \in q[n].what :
          \/ bit \in r[n].what
          \/ \E m \in 1..k : Same(q[n], items[m]) /\ items[m].kind = "config" /\ Cancels(items[m], bit)

\* One more item is enqueued.
LEMMA ExtendsStep ==
  ASSUME NEW q \in Seq(Items), NEW items, Compatible(items), NEW k \in Nat, k + 1 \in DOMAIN items,
         NEW r, Extends(q, items, k, r)
  PROVE  Extends(q, items, k + 1, Enqueue(r, items[k + 1]))
<1> DEFINE x == items[k + 1]
           s == Enqueue(r, x)
<1>0. /\ Len(q) \in Nat /\ DOMAIN q = 1..Len(q) /\ Len(items) \in Nat /\ DOMAIN items = 1..Len(items)
      /\ r \in Seq(Items) /\ Len(r) \in Nat /\ DOMAIN r = 1..Len(r) /\ Len(q) <= Len(r)
  BY DEF Compatible, Extends
<1>1. /\ \A m \in 1..(k + 1) : items[m] \in Items
      /\ \A m \in DOMAIN q : q[m] \in Items
      /\ \A m \in DOMAIN r : r[m] \in Items
      /\ x \in Items
      /\ 1..k \subseteq DOMAIN items
  <2>1. 1..(k + 1) \subseteq DOMAIN items BY <1>0
  <2>2. \A m \in DOMAIN items : items[m] \in Items BY ElementOfSeq DEF Compatible
  <2>3. 1..k \subseteq 1..(k + 1) OBVIOUS
  <2> QED BY <1>0, <2>1, <2>2, <2>3, ElementOfSeq
<1>2. /\ s \in Seq(Items)
      /\ Len(s) \in {Len(r), Len(r) + 1}
      /\ \A n \in DOMAIN r : s[n] = IF Same(r[n], x) THEN Merge(r[n], x) ELSE r[n]
      /\ Len(s) = Len(r) + 1 => ~Pending(r, x) /\ s[Len(r) + 1] = x
      /\ Pending(s, x)
  BY <1>0, <1>1, EnqueueOne
<1>3. DOMAIN s = 1..Len(s) /\ Len(s) \in Nat /\ \A n \in DOMAIN s : s[n] \in Items
  BY <1>2, ElementOfSeq
<1>4. \A m \in 1..(k + 1) : m \in 1..k \/ m = k + 1 OBVIOUS
<1>5. 1..k \subseteq 1..(k + 1) /\ k + 1 \in 1..(k + 1) /\ k + 1 \notin 1..k OBVIOUS
<1>6. DOMAIN q \subseteq DOMAIN r /\ DOMAIN r \subseteq DOMAIN s /\ DOMAIN s \subseteq DOMAIN r \cup {Len(r) + 1}
      /\ Len(r) + 1 \notin DOMAIN r /\ Len(q) <= Len(s)
      /\ (Len(r) + 1 \in DOMAIN s => Len(s) = Len(r) + 1)
  BY <1>0, <1>2, <1>3
<1>7. \A n \in DOMAIN r : Same(s[n], r[n])
  BY <1>1, <1>2, MergeItems DEF Same
<1>8. \A n \in DOMAIN s : n \notin DOMAIN r => s[n] = x /\ ~Pending(r, x)
  BY <1>2, <1>6
<1>a. \A n \in DOMAIN r : ~Same(r[n], x) => s[n] = r[n] BY <1>2
<1>b. \A n \in DOMAIN r : Same(r[n], x) => s[n] = Merge(r[n], x) BY <1>2
<1>c. \A m \in 1..k : Same(items[m], x) => /\ items[m].kind = "config" /\ "ConfigDelete" \notin items[m].what
                                         /\ x.kind = "config" /\ "ConfigDelete" \notin x.what
  BY <1>1, <1>5, <1>0 DEF Compatible, Same
<1> HIDE DEF s, x
<1>9. Unique(s)
  <2> SUFFICES ASSUME NEW m \in DOMAIN s, NEW n \in DOMAIN s, Same(s[m], s[n]) PROVE m = n
    BY DEF Unique
  <2>1. CASE m \in DOMAIN r /\ n \in DOMAIN r
    <3>1. Same(r[m], r[n]) BY <2>1, <1>7 DEF Same
    <3> QED BY <3>1, <2>1 DEF Extends, Unique
  <2>2. CASE m \in DOMAIN r /\ n \notin DOMAIN r
    <3>1. s[n] = x /\ ~Pending(r, x) BY <2>2, <1>8
    <3>2. Same(r[m], x) BY <2>2, <3>1, <1>7 DEF Same
    <3> QED BY <3>1, <3>2, <2>2 DEF Pending
  <2>3. CASE m \notin DOMAIN r /\ n \in DOMAIN r
    <3>1. s[m] = x /\ ~Pending(r, x) BY <2>3, <1>8
    <3>2. Same(r[n], x) BY <2>3, <3>1, <1>7 DEF Same
    <3> QED BY <3>1, <3>2, <2>3 DEF Pending
  <2>4. CASE m \notin DOMAIN r /\ n \notin DOMAIN r BY <2>4, <1>6
  <2> QED BY <2>1, <2>2, <2>3, <2>4
<1>10. \A n \in DOMAIN q : Same(s[n], q[n])
  BY <1>6, <1>7 DEF Extends, Same
<1>11. ASSUME NEW n \in DOMAIN s, n \notin DOMAIN q
       PROVE  \E m \in 1..(k + 1) : Same(s[n], items[m])
  <2>1. CASE n \in DOMAIN r
    <3>1. PICK m \in 1..k : Same(r[n], items[m]) BY <2>1, <1>11 DEF Extends
    <3> QED BY <3>1, <2>1, <1>5, <1>7 DEF Same
  <2>2. CASE n \notin DOMAIN r BY <2>2, <1>5, <1>8 DEF Same, x
  <2> QED BY <2>1, <2>2
<1>12. ASSUME NEW m \in 1..(k + 1)
       PROVE  \E n \in DOMAIN s :
                /\ Same(s[n], items[m])
                /\ items[m].kind \in {"config", "relations"} => items[m].what \subseteq s[n].what
                /\ items[m].kind = "config" /\ "ConfigDelete" \in items[m].what =>
                      s[n].what \cap {"ConfigUpdate", "VolatileState"} \subseteq items[m].what
                /\ items[m].kind \in {"edge", "groupState"} /\ n \notin DOMAIN q => s[n] = items[m]
  <2>1. CASE m \in 1..k
    <3>1. PICK n \in DOMAIN r :
             /\ Same(r[n], items[m])
             /\ items[m].kind \in {"config", "relations"} => items[m].what \subseteq r[n].what
             /\ items[m].kind = "config" /\ "ConfigDelete" \in items[m].what =>
                   r[n].what \cap {"ConfigUpdate", "VolatileState"} \subseteq items[m].what
             /\ items[m].kind \in {"edge", "groupState"} /\ n \notin DOMAIN q => r[n] = items[m]
      BY <2>1 DEF Extends
    <3>2. n \in DOMAIN s BY <1>6
    <3>3. CASE ~Same(r[n], x) BY <3>1, <3>2, <3>3, <1>a
    <3>4. CASE Same(r[n], x)
      <4>1. Same(items[m], x) BY <3>1, <3>4 DEF Same
      <4>2. items[m].kind = "config" /\ "ConfigDelete" \notin items[m].what /\ "ConfigDelete" \notin x.what
        BY <4>1, <2>1, <1>c
      <4>3. r[n].kind = "config" BY <4>2, <3>1 DEF Same
      <4>4. s[n].what = MergeBits(r[n].what, x.what) BY <4>3, <3>4, <1>b, <1>1, MergeWhat
      <4>5. items[m].what \subseteq s[n].what BY <4>2, <4>4, <3>1 DEF MergeBits
      <4>6. Same(s[n], items[m]) BY <3>1, <1>7 DEF Same
      <4> QED BY <4>2, <4>5, <4>6, <3>2
    <3> QED BY <3>3, <3>4
  <2>2. CASE m = k + 1
    <3>1. items[m] = x BY <2>2 DEF x
    <3>2. PICK n \in DOMAIN s : Same(s[n], x) BY <1>2 DEF Pending
    <3>3. CASE n \notin DOMAIN r
      <4>1. s[n] = x BY <3>3, <1>8
      <4> QED BY <4>1, <3>1, <3>2
    <3>4. CASE n \in DOMAIN r
      <4>1. Same(r[n], x) BY <3>4, <3>2, <1>7 DEF Same
      <4>2. s[n] = Merge(r[n], x) BY <3>4, <4>1, <1>b
      <4>3. r[n] \in Items /\ r[n].kind = x.kind BY <3>4, <4>1, <1>1 DEF Same
      <4>4. x.kind = "config" => s[n].what = MergeBits(r[n].what, x.what)
        BY <4>2, <4>3, <1>1, MergeWhat
      <4>5. x.kind = "relations" => s[n].what = r[n].what \cup x.what BY <4>2, <4>3, <1>1, MergeWhat
      <4>6. x.kind \in {"config", "relations"} => x.what \subseteq s[n].what
        BY <4>4, <4>5 DEF MergeBits
      <4>7. x.kind = "config" /\ "ConfigDelete" \in x.what =>
              s[n].what \cap {"ConfigUpdate", "VolatileState"} \subseteq x.what
        BY <4>4 DEF MergeBits
      <4>8. ASSUME x.kind \in {"edge", "groupState"} PROVE n \in DOMAIN q
        <5>1. SUFFICES ASSUME n \notin DOMAIN q PROVE FALSE OBVIOUS
        <5>2. PICK j \in 1..k : Same(r[n], items[j]) BY <5>1, <3>4 DEF Extends
        <5>3. Same(items[j], x) BY <5>2, <4>1 DEF Same
        <5> QED BY <5>3, <4>8, <1>c
      <4> QED BY <4>6, <4>7, <4>8, <3>1, <3>2
    <3> QED BY <3>3, <3>4
  <2> QED BY <2>1, <2>2, <1>4
<1>13. ASSUME NEW n \in DOMAIN s, NEW bit \in s[n].what
       PROVE  \/ n \in DOMAIN q /\ bit \in q[n].what
              \/ \E m \in 1..(k + 1) : Same(s[n], items[m]) /\ bit \in items[m].what
  <2>1. CASE n \notin DOMAIN r BY <2>1, <1>5, <1>8 DEF Same, x
  <2>2. CASE n \in DOMAIN r /\ bit \in r[n].what
    <3>1. \/ n \in DOMAIN q /\ bit \in q[n].what
          \/ \E m \in 1..k : Same(r[n], items[m]) /\ bit \in items[m].what
      BY <2>2 DEF Extends
    <3> QED BY <3>1, <2>2, <1>5, <1>7 DEF Same
  <2>3. CASE n \in DOMAIN r /\ bit \notin r[n].what
    <3>1. Same(r[n], x) BY <2>3, <1>a
    <3>2. s[n] = Merge(r[n], x) /\ r[n] \in Items BY <3>1, <2>3, <1>b, <1>1
    <3>3. bit \in x.what BY <3>2, <2>3, <1>1, MergeWhat DEF MergeBits
    <3>4. Same(s[n], x) BY <3>1, <2>3, <1>7 DEF Same
    <3> QED BY <3>3, <3>4, <1>5 DEF x
  <2> QED BY <2>1, <2>2, <2>3
<1>14. ASSUME NEW n \in DOMAIN q, NEW bit \in q[n].what
       PROVE  \/ bit \in s[n].what
              \/ \E m \in 1..(k + 1) : Same(q[n], items[m]) /\ items[m].kind = "config" /\ Cancels(items[m], bit)
  <2>1. CASE bit \notin r[n].what
    <3>1. \E m \in 1..k : Same(q[n], items[m]) /\ items[m].kind = "config" /\ Cancels(items[m], bit)
      BY <2>1 DEF Extends
    <3> QED BY <3>1, <1>5
  <2>2. CASE bit \in r[n].what /\ bit \notin s[n].what
    <3>1. n \in DOMAIN r BY <1>6
    <3>2. Same(r[n], x) BY <2>2, <3>1, <1>a
    <3>3. s[n] = Merge(r[n], x) /\ r[n] \in Items BY <3>2, <3>1, <1>b, <1>1
    <3>4. Same(q[n], x) BY <3>2 DEF Extends, Same
    <3>5. r[n].kind = "config" /\ s[n].what = MergeBits(r[n].what, x.what)
      BY <3>3, <2>2, <1>1, MergeWhat
    <3>6. Cancels(x, bit) BY <3>5, <2>2 DEF MergeBits, Cancels
    <3>7. x.kind = "config" BY <3>5, <3>2 DEF Same
    <3> QED BY <3>4, <3>6, <3>7, <1>5 DEF x
  <2> QED BY <2>1, <2>2
<1>15. Extends(q, items, k + 1, s)
  BY <1>2, <1>6, <1>9, <1>10, <1>11, <1>12, <1>13, <1>14 DEF Extends
<1> QED BY <1>15 DEF s, x

\* A set of natural numbers has a least element.
LEMMA LeastNat ==
  ASSUME NEW T, T \subseteq Nat, T # {}
  PROVE  \E m \in T : \A k \in T : m <= k
<1> DEFINE R == OpToRel(<, Nat)
<1>1. IsWellFoundedOn(R, Nat)
  BY NatLessThanWellFounded
<1>2. PICK m \in T : \A k \in T : ~(<<k, m>> \in R)
  <2> HIDE DEF R
  <2> QED BY <1>1, WFMin
<1>3. \A k \in T : ~(k < m)
  <2> TAKE k \in T
  <2>1. <<k, m>> \notin R BY <1>2
  <2>2. <<k, m>> \in Nat \X Nat OBVIOUS
  <2>3. SUFFICES ASSUME k < m PROVE FALSE OBVIOUS
  <2>4. <<k, m>> \in R BY <2>2, <2>3 DEF OpToRel
  <2> QED BY <2>1, <2>4
<1> QED BY <1>3

\* What the loop behind EnqueueAll has after each round
Rounds(f, q, items, k) ==
    f = [n \in 0..k |-> IF n = 0 THEN q ELSE Enqueue(f[n - 1], items[n])]

\* The loop is well defined, for any number of rounds.
LEMMA RoundsExist ==
  ASSUME NEW q, NEW items, NEW k \in Nat
  PROVE  \E f : Rounds(f, q, items, k)
<1> DEFINE Bad == {m \in Nat : ~\E f : Rounds(f, q, items, m)}
<1>1. SUFFICES ASSUME Bad # {} PROVE FALSE OBVIOUS
<1>2. PICK m \in Bad : \A j \in Bad : m <= j BY <1>1, LeastNat
<1>3. CASE m = 0
  <2> DEFINE g == [n \in 0..m |-> q]
  <2>1. Rounds(g, q, items, m) BY <1>3 DEF Rounds
  <2> QED BY <2>1
<1>4. CASE m # 0
  <2>1. m - 1 \in Nat /\ m \in Nat BY <1>4
  <2>2. m - 1 \notin Bad BY <2>1, <1>2
  <2>3. PICK f : Rounds(f, q, items, m - 1) BY <2>1, <2>2
  <2> DEFINE g == [n \in 0..m |-> IF n = m THEN Enqueue(f[m - 1], items[m]) ELSE f[n]]
  <2>4. ASSUME NEW n \in 0..m
        PROVE  g[n] = IF n = 0 THEN q ELSE Enqueue(g[n - 1], items[n])
    <3>1. CASE n = m
      <4>1. n - 1 \in 0..m /\ n - 1 # m BY <3>1, <1>4, <2>1
      <4>2. g[n] = Enqueue(f[m - 1], items[m]) /\ g[n - 1] = f[m - 1] BY <3>1, <4>1
      <4> QED BY <4>2, <3>1, <1>4
    <3>2. CASE n # m
      <4>1. n \in 0..(m - 1) BY <3>2, <2>1
      <4>2. g[n] = f[n] BY <3>2
      <4>3. f[n] = IF n = 0 THEN q ELSE Enqueue(f[n - 1], items[n]) BY <4>1, <2>3 DEF Rounds
      <4>4. n # 0 => n - 1 \in 0..m /\ n - 1 # m BY <4>1, <2>1
      <4>5. n # 0 => g[n - 1] = f[n - 1] BY <4>4
      <4> QED BY <4>2, <4>3, <4>5
    <3> QED BY <3>1, <3>2
  <2>6. g = [n \in 0..m |-> g[n]] OBVIOUS
  <2> HIDE DEF g
  <2>7. Rounds(g, q, items, m) BY <2>4, <2>6 DEF Rounds
  <2> QED BY <2>7
<1> QED BY <1>3, <1>4

\* Items that are enqueued together extend the queue one by one.
LEMMA ExtendsAll ==
  ASSUME NEW q \in Seq(Items), Unique(q), NEW items, Compatible(items)
  PROVE  Extends(q, items, Len(items), EnqueueAll(q, items))
<1> DEFINE N == Len(items)
           F == CHOOSE f : Rounds(f, q, items, N)
<1>0. N \in Nat /\ DOMAIN items = 1..N /\ Len(q) \in Nat /\ DOMAIN q = 1..Len(q) BY DEF Compatible
<1>1. Rounds(F, q, items, N)
  <2>1. \E f : Rounds(f, q, items, N) BY <1>0, RoundsExist
  <2> QED BY <2>1
<1>2. EnqueueAll(q, items) = F[N] BY DEF EnqueueAll, Rounds
<1> HIDE DEF F, N
<1> DEFINE P(k) == Extends(q, items, k, F[k])
           Bad == {k \in 0..N : ~P(k)}
<1>3. SUFFICES ASSUME Bad # {} PROVE FALSE
  <2>1. Bad = {} BY <1>3
  <2>2. N \in 0..N BY <1>0
  <2>3. P(N) BY <2>1, <2>2
  <2> QED BY <2>3, <1>2 DEF N
<1>4. PICK m \in Bad : \A j \in Bad : m <= j
  <2>1. Bad \subseteq Nat BY <1>0
  <2> HIDE DEF Bad
  <2> QED BY <1>3, <2>1, LeastNat
<1>5. m \in 0..N /\ ~P(m) OBVIOUS
<1>6. F[m] = IF m = 0 THEN q ELSE Enqueue(F[m - 1], items[m]) BY <1>1, <1>5 DEF Rounds
<1>7. CASE m = 0
  <2>1. F[m] = q BY <1>6, <1>7
  <2>2. 1..m = {} BY <1>7
  <2>3. Extends(q, items, m, q) BY <2>2, <1>0 DEF Extends, Same
  <2> QED BY <2>1, <2>3, <1>5
<1>8. CASE m # 0
  <2>1. m - 1 \in 0..N /\ ~(m <= m - 1) /\ m \in 1..N /\ m - 1 \in Nat /\ (m - 1) + 1 = m
    BY <1>0, <1>5, <1>8
  <2>2. Extends(q, items, m - 1, F[m - 1]) BY <2>1, <1>4
  <2>3. F[m] = Enqueue(F[m - 1], items[(m - 1) + 1]) BY <1>6, <1>8, <2>1
  <2>4. (m - 1) + 1 \in DOMAIN items BY <2>1, <1>0
  <2> DEFINE k == m - 1
  <2>5. Extends(q, items, k + 1, Enqueue(F[k], items[k + 1]))
    <3>1. k \in Nat /\ k + 1 \in DOMAIN items /\ Extends(q, items, k, F[k]) BY <2>1, <2>2, <2>4
    <3> HIDE DEF k
    <3> QED BY <3>1, ExtendsStep
  <2> QED BY <2>1, <2>3, <2>5, <1>5
<1> QED BY <1>5, <1>7, <1>8

\* Just one item
LEMMA ExtendsOne ==
  ASSUME NEW q \in Seq(Items), Unique(q), NEW x \in Items
  PROVE  Extends(q, <<x>>, 1, Enqueue(q, x))
<1> DEFINE items == <<x>>
<1>1. items \in Seq(Items) /\ DOMAIN items = {1} /\ items[1] = x /\ Len(items) = 1 OBVIOUS
<1>2. Compatible(items) BY <1>1 DEF Compatible
<1> HIDE DEF items
<1>3. 1..0 = {} OBVIOUS
<1>4. Extends(q, items, 0, q) BY <1>3 DEF Extends, Same
<1>5. Extends(q, items, 0 + 1, Enqueue(q, items[0 + 1])) BY <1>1, <1>2, <1>4, ExtendsStep
<1> QED BY <1>1, <1>5 DEF items

\* A finite set as a sequence: every element once
LEMMA SetToSeqFacts ==
  ASSUME NEW S, IsFiniteSet(S)
  PROVE  /\ SetToSeq(S) \in Seq(S)
         /\ \A x \in S : \E n \in DOMAIN SetToSeq(S) : SetToSeq(S)[n] = x
         /\ \A m, n \in DOMAIN SetToSeq(S) : SetToSeq(S)[m] = SetToSeq(S)[n] => m = n
<1> DEFINE N == Cardinality(S)
           f == SetToSeq(S)
<1>1. N \in Nat BY FS_CardinalityType
<1>2. IsFiniteSet(1..N) /\ Cardinality(1..N) = N BY <1>1, FS_Interval
<1>3. ExistsBijection(1..N, S) BY <1>1, <1>2, FS_SameCardinalityBij
<1>4. \E g \in [1..N -> S] : IsInjective(g)
  BY <1>3 DEF ExistsBijection, Bijection, Injection
<1>5. f \in [1..N -> S] /\ IsInjective(f) BY <1>4 DEF SetToSeq
<1>6. f \in Injection(1..N, S) BY <1>5 DEF Injection
<1> HIDE DEF f, N
<1>7. f \in Surjection(1..N, S) BY <1>6, <1>2, FS_Injection DEF N
<1>8. \A x \in S : \E n \in 1..N : f[n] = x BY <1>7 DEF Surjection
<1>9. f \in Seq(S) /\ DOMAIN f = 1..N BY <1>1, <1>5
<1>10. \A m, n \in DOMAIN f : f[m] = f[n] => m = n BY <1>5 DEF IsInjective
<1> QED BY <1>8, <1>9, <1>10 DEF f

\* An item that is erased leaves a gap, which the ones behind it close.
LEMMA EraseFacts ==
  ASSUME NEW q \in Seq(Items), Unique(q), NEW x \in Items
  PROVE  /\ Erase(q, x) \in Seq(Items) /\ Unique(Erase(q, x))
         /\ \A n \in DOMAIN Erase(q, x) : \E m \in DOMAIN q : Erase(q, x)[n] = q[m] /\ ~Same(q[m], x)
         /\ \A m, n \in DOMAIN q : ~Same(q[m], x) /\ ~Same(q[n], x) /\ m <= n =>
               \E k, l \in DOMAIN Erase(q, x) : k <= l /\ Erase(q, x)[k] = q[m] /\ Erase(q, x)[l] = q[n]
<1> DEFINE r == Erase(q, x)
           N == Len(q)
<1>0. N \in Nat /\ DOMAIN q = 1..N OBVIOUS
<1>1. CASE ~Pending(q, x)
  <2>1. r = q BY <1>1 DEF Erase
  <2>2. \A n \in DOMAIN q : ~Same(q[n], x) BY <1>1 DEF Pending
  <2> HIDE DEF r
  <2> QED BY <2>1, <2>2 DEF r
<1>2. CASE Pending(q, x)
  <2> DEFINE p == CHOOSE n \in DOMAIN q : Same(q[n], x)
  <2>1. p \in 1..N /\ Same(q[p], x) BY <1>0, <1>2 DEF Pending
  <2>2. \A n \in 1..N : Same(q[n], x) => n = p
    BY <2>1, <1>0 DEF Unique, Same
  <2>3. r = SubSeq(q, 1, p - 1) \o SubSeq(q, p + 1, N) BY <1>2 DEF Erase, RemoveAt
  <2> HIDE DEF p, r, N
  <2> DEFINE u == SubSeq(q, 1, p - 1)
             v == SubSeq(q, p + 1, N)
  <2>4. u \in Seq(Items) /\ Len(u) = p - 1 /\ \A n \in 1..(p - 1) : u[n] = q[n]
    BY <2>1, <1>0 DEF N
  <2>5. v \in Seq(Items) /\ Len(v) = N - p /\ \A n \in 1..(N - p) : v[n] = q[n + p]
    <3>1. p + 1 \in 1..(N + 1) BY <2>1, <1>0
    <3>2. v \in Seq(Items) BY <2>1, <1>0 DEF N
    <3>3. Len(v) = N - p
      <4>1. p + 1 <= N + 1 /\ (N - (p + 1)) + 1 = N - p BY <2>1, <1>0
      <4>2. Len(v) = IF p + 1 <= N THEN N - (p + 1) + 1 ELSE 0 BY <2>1, <1>0, SubSeqProperties DEF N
      <4> QED BY <4>1, <4>2, <2>1, <1>0
    <3>4. \A n \in 1..(N - p) : v[n] = q[n + p] BY <2>1, <1>0 DEF N
    <3> QED BY <3>2, <3>3, <3>4
  <2> HIDE DEF u, v
  <2>6. r \in Seq(Items) /\ Len(r) = N - 1 /\ DOMAIN r = 1..(N - 1)
    BY <2>3, <2>4, <2>5, <2>1, <1>0 DEF u, v
  <2>7. \A n \in 1..(N - 1) : r[n] = IF n < p THEN q[n] ELSE q[n + 1]
    <3> SUFFICES ASSUME NEW n \in 1..(N - 1) PROVE r[n] = IF n < p THEN q[n] ELSE q[n + 1] OBVIOUS
    <3>0. r = u \o v BY <2>3 DEF u, v
    <3>1. CASE n < p
      <4>1. n \in 1..(p - 1) BY <3>1, <2>1, <1>0
      <4> QED BY <3>0, <3>1, <4>1, <2>4, <2>5, <2>1, <1>0
    <3>2. CASE ~(n < p)
      <4>1. n - (p - 1) \in 1..(N - p) /\ n > p - 1 /\ n - (p - 1) + p = n + 1 BY <3>2, <2>1, <1>0
      <4>2. r[n] = v[n - (p - 1)] BY <3>0, <4>1, <2>4, <2>5, <2>1, <1>0
      <4> QED BY <3>2, <4>1, <4>2, <2>5
    <3> QED BY <3>1, <3>2
  <2>8. \A n \in 1..(N - 1) : IF n < p THEN n \in 1..N /\ n # p ELSE n + 1 \in 1..N /\ n + 1 # p
    BY <1>0, <2>1
  <2>9. \A m \in 1..N : m # p => IF m < p THEN m \in 1..(N - 1) ELSE m - 1 \in 1..(N - 1) /\ ~(m - 1 < p) /\ m - 1 + 1 = m
    BY <1>0, <2>1
  <2>10. \A n \in 1..(N - 1) : \E m \in 1..N : r[n] = q[m] /\ ~Same(q[m], x)
    BY <2>2, <2>7, <2>8
  <2> DEFINE h(m) == IF m < p THEN m ELSE m - 1
  <2>11. \A m \in 1..N : m # p => h(m) \in 1..(N - 1) /\ r[h(m)] = q[m]
    BY <2>7, <2>9
  <2>12. \A m, n \in 1..N : m # p /\ n # p /\ m <= n => h(m) <= h(n)
    BY <2>1, <1>0
  <2>13. ASSUME NEW m \in 1..N, NEW n \in 1..N, ~Same(q[m], x), ~Same(q[n], x), m <= n
         PROVE  \E k, l \in 1..(N - 1) : k <= l /\ r[k] = q[m] /\ r[l] = q[n]
    <3>1. m # p /\ n # p BY <2>1, <2>13
    <3> HIDE DEF h
    <3> QED BY <3>1, <2>11, <2>12, <2>13
  <2>14. ASSUME NEW m \in 1..(N - 1), NEW n \in 1..(N - 1), Same(r[m], r[n]) PROVE m = n
    <3> DEFINE g(j) == IF j < p THEN j ELSE j + 1
    <3>1. g(m) \in 1..N /\ g(n) \in 1..N /\ r[m] = q[g(m)] /\ r[n] = q[g(n)] BY <2>7, <2>8
    <3>2. g(m) = g(n) BY <3>1, <2>14, <1>0 DEF Unique
    <3> QED BY <3>2, <2>1, <1>0
  <2>15. Unique(r) BY <2>6, <2>14 DEF Unique
  <2>16. \A n \in DOMAIN r : \E m \in DOMAIN q : r[n] = q[m] /\ ~Same(q[m], x) BY <2>6, <2>10, <1>0
  <2>17. \A m, n \in DOMAIN q : ~Same(q[m], x) /\ ~Same(q[n], x) /\ m <= n =>
            \E k, l \in DOMAIN r : k <= l /\ r[k] = q[m] /\ r[l] = q[n]
    <3> SUFFICES ASSUME NEW m \in 1..N, NEW n \in 1..N, ~Same(q[m], x), ~Same(q[n], x), m <= n
                 PROVE  \E k, l \in DOMAIN r : k <= l /\ r[k] = q[m] /\ r[l] = q[n]
      BY <1>0
    <3>1. \E k, l \in 1..(N - 1) : k <= l /\ r[k] = q[m] /\ r[l] = q[n] BY <2>13
    <3> QED BY <3>1, <2>6
  <2> QED BY <2>6, <2>15, <2>16, <2>17 DEF r
<1> QED BY <1>1, <1>2

-----------------------------------------------------------------------------
(* What the pending items will do, with h the host, g its groups and d the   *)
(* dependency group there will be then                                       *)

Wanted(h, g, d) == (IF h = 0 THEN {} ELSE {"config", "state", "nextUpdate"} \cup g[h])
                   \cup (IF d = 0 THEN {} ELSE DependencyEntries)

Related(h, g, d, k) ==
    IF k = 0 THEN IF d = 0 THEN {} ELSE {"parentNode"}
    ELSE g[k] \cup IF d = 0 \/ k # h THEN {} ELSE {"childNode", "edge"}

W(h, g, d, i) ==
    CASE i.kind = "config" ->
            (IF "ConfigUpdate" \in i.what THEN Related(h, g, d, i.key) ELSE {})
            \cup (IF i.key = 0 THEN {} ELSE
                  (IF "ConfigUpdate" \in i.what THEN {"config"} ELSE {})
                  \cup (IF "VolatileState" \in i.what THEN {"state"} ELSE {})
                  \cup (IF "NextUpdate" \in i.what /\ i.key = h THEN {"nextUpdate"} ELSE {}))
      [] i.kind = "edge" -> (IF d # 0 /\ h \in i.what THEN {"childNode"} ELSE {})
                            \cup (IF d = i.key THEN {"edge"} ELSE {})
      [] i.kind = "groupState" -> IF d = i.key THEN {"edgeState"} ELSE {}
      [] OTHER -> {}

D(h, i) ==
    CASE i.kind = "config" -> (IF "ConfigDelete" \in i.what THEN {"config"} ELSE {})
                              \cup (IF "NextUpdate" \in i.what /\ i.key # h THEN {"nextUpdate"} ELSE {})
      [] i.kind = "relations" -> i.what
      [] OTHER -> {}

\* The same for the item the worker has taken, if it has made queries of it
TakenW(h, g, d, i) == IF i.kind = "queries" THEN i.what ELSE W(h, g, d, i)
TakenD(h, i) == IF i.kind = "queries" THEN i.deletes ELSE D(h, i)

\* These are the operators of the specification.
LEMMA Operators ==
  /\ Actual = Wanted(host, groups, depGroup)
  /\ \A k : Written(k) = Related(host, groups, depGroup, k)
  /\ \A i : Writes(i) = W(host, groups, depGroup, i)
  /\ \A i : Deletes(i) = D(host, i)
<1>1. Actual = Wanted(host, groups, depGroup) BY DEF Actual, Wanted
<1>2. \A k : Written(k) = Related(host, groups, depGroup, k) BY DEF Written, Related, ParentHost
<1>3. ASSUME NEW i PROVE Writes(i) = W(host, groups, depGroup, i)
  BY <1>2 DEF Writes, W, ConfigWrites, ParentHost
<1>4. ASSUME NEW i PROVE Deletes(i) = D(host, i)
  BY DEF Deletes, D, ConfigDeletes
<1> QED BY <1>1, <1>2, <1>3, <1>4

\* The same for the next state
LEMMA OperatorsNext ==
  /\ Actual' = Wanted(host', groups', depGroup')
  /\ \A k : Written(k)' = Related(host', groups', depGroup', k)
  /\ \A i : Writes(i)' = W(host', groups', depGroup', i)
  /\ \A i : Deletes(i)' = D(host', i)
<1>1. Actual' = Wanted(host', groups', depGroup') BY DEF Actual, Wanted
<1>2. \A k : Written(k)' = Related(host', groups', depGroup', k) BY DEF Written, Related, ParentHost
<1>3. ASSUME NEW i PROVE Writes(i)' = W(host', groups', depGroup', i)
  BY DEF Writes, W, ConfigWrites, ParentHost, Written, Related
<1>4. ASSUME NEW i PROVE Deletes(i)' = D(host', i)
  BY DEF Deletes, D, ConfigDeletes
<1> QED BY <1>1, <1>2, <1>3, <1>4

\* The entries of a relation
EntriesOf(id) == CASE id = "child" -> {"state", "childNode"}
                   [] id = "parent" -> {"parentNode"}
                   [] id = "edgeId" -> {"edge"}
                   [] id = "edgeStateId" -> {"edgeState"}
                   [] OTHER -> {id}

\* What an item may be about, with h hosts and d dependency groups so far
ItemOK(h, d, i) ==
    /\ i.kind = "config" => /\ i.key \in 0..h /\ i.what \subseteq Bits
                            /\ i.key = 0 => i.what \subseteq {"ConfigUpdate", "VolatileState"}
    /\ i.kind \in {"edge", "groupState"} => i.key \in 1..d
    /\ i.kind = "relations" =>
          i.key \in RelationIds /\ i.what \subseteq EntriesOf(i.key)

QueueOK(h, d, q) ==
    /\ q \in Seq(Items) /\ Unique(q)
    /\ \A n \in DOMAIN q : ItemOK(h, d, q[n])

\* An entry is deleted by one of the items.
DeletedIn(h, q, e) == \E n \in DOMAIN q : e \in D(h, q[n])
Deleted(h, it, q, e) == e \in TakenD(h, it) \/ DeletedIn(h, q, e)

\* An entry is written and not deleted after that.
WrittenLast(h, g, d, it, q, e) ==
    \/ e \in TakenW(h, g, d, it) /\ ~DeletedIn(h, q, e)
    \/ \E n \in DOMAIN q : /\ e \in W(h, g, d, q[n])
                           /\ \A m \in DOMAIN q : m > n => e \notin D(h, q[m])

\* An entry is there in the end.
Kept(h, g, d, base, it, q, e) ==
    \/ e \in base /\ ~Deleted(h, it, q, e)
    \/ WrittenLast(h, g, d, it, q, e)

\* No update is merged into the deletion of its object.
NoRevival(q, items) ==
    \A n \in DOMAIN q, m \in DOMAIN items :
        Same(q[n], items[m]) /\ items[m].kind = "config" /\ "ConfigUpdate" \in items[m].what =>
            "ConfigDelete" \notin q[n].what
NoDeletion(items) == \A m \in DOMAIN items : items[m].kind = "config" => "ConfigDelete" \notin items[m].what

\* Which entries an item deletes depends on the bits it has.
LEMMA DeletesMore ==
  ASSUME NEW i, NEW j, Same(i, j), i.kind \in {"config", "relations"} => i.what \subseteq j.what, NEW h
  PROVE  D(h, i) \subseteq D(h, j)
<1>1. i.kind = j.kind /\ i.key = j.key BY DEF Same
<1>2. CASE i.kind = "config" BY <1>1, <1>2 DEF D
<1>3. CASE i.kind = "relations" BY <1>1, <1>3 DEF D
<1>4. CASE i.kind \notin {"config", "relations"} BY <1>1, <1>4 DEF D
<1> QED BY <1>2, <1>3, <1>4

LEMMA WritesMore ==
  ASSUME NEW i, NEW j, Same(i, j), i.what \subseteq j.what, NEW h, NEW g, NEW d
  PROVE  W(h, g, d, i) \subseteq W(h, g, d, j)
<1>1. i.kind = j.kind /\ i.key = j.key BY DEF Same
<1>2. CASE i.kind = "config" BY <1>1, <1>2 DEF W
<1>3. CASE i.kind = "edge" BY <1>1, <1>3 DEF W
<1>4. CASE i.kind \notin {"config", "edge"} BY <1>1, <1>4 DEF W
<1> QED BY <1>2, <1>3, <1>4

\* What is deleted by an item of the queue stays deleted by it.
LEMMA DeletedStays ==
  ASSUME NEW q \in Seq(Items), NEW items, Compatible(items), NEW r, Extends(q, items, Len(items), r),
         NoRevival(q, items), NEW h, NEW n \in DOMAIN q
  PROVE  D(h, q[n]) \subseteq D(h, r[n])
<1>0. DOMAIN items = 1..Len(items) BY DEF Compatible
<1>1. Same(q[n], r[n]) BY DEF Extends, Same
<1>2. \A bit \in q[n].what : bit \in r[n].what \/ bit \in {"ConfigUpdate", "VolatileState"}
  BY <1>0 DEF Extends, NoRevival, Cancels
<1>a. \A bit \in q[n].what :
          \/ bit \in r[n].what
          \/ \E m \in DOMAIN items : Same(q[n], items[m]) /\ items[m].kind = "config"
  BY <1>0 DEF Extends
<1>3. \A bit \in q[n].what : bit \in r[n].what \/ q[n].kind = "config"
  BY <1>a DEF Same
<1>4. CASE q[n].kind = "config" BY <1>1, <1>2, <1>4 DEF D, Same
<1>5. CASE q[n].kind # "config" BY <1>1, <1>3, <1>5, DeletesMore
<1> QED BY <1>4, <1>5

\* What is deleted in the new queue was before or is by one of the new items.
LEMMA DeletedBefore ==
  ASSUME NEW q \in Seq(Items), NEW items, Compatible(items), NEW r, Extends(q, items, Len(items), r),
         NEW h, NEW n \in DOMAIN r, NEW e \in D(h, r[n]), \A m \in DOMAIN items : e \notin D(h, items[m])
  PROVE  n \in DOMAIN q /\ e \in D(h, q[n])
<1>0. DOMAIN items = 1..Len(items) BY DEF Compatible
<1>1. \A bit \in r[n].what :
          \/ n \in DOMAIN q /\ bit \in q[n].what
          \/ \E m \in DOMAIN items : Same(r[n], items[m]) /\ bit \in items[m].what
  BY <1>0 DEF Extends
<1>2. n \in DOMAIN q => Same(q[n], r[n]) BY DEF Extends, Same
<1>3. CASE r[n].kind = "config" BY <1>1, <1>2, <1>3 DEF D, Same
<1>4. CASE r[n].kind = "relations" BY <1>1, <1>2, <1>4 DEF D, Same
<1>5. CASE r[n].kind \notin {"config", "relations"} BY <1>5 DEF D
<1> QED BY <1>3, <1>4, <1>5

\* What an item writes it still does after others were enqueued that delete no object.
LEMMA WrittenStays ==
  ASSUME NEW q \in Seq(Items), NEW items, Compatible(items), NEW r, Extends(q, items, Len(items), r),
         NoDeletion(items), NoRevival(q, items), NEW h, NEW g, NEW d, NEW n \in DOMAIN q
  PROVE  W(h, g, d, q[n]) \subseteq W(h, g, d, r[n])
<1>0. DOMAIN items = 1..Len(items) BY DEF Compatible
<1>1. Same(q[n], r[n]) BY DEF Extends, Same
<1>2. q[n].what \subseteq r[n].what
  BY <1>0 DEF Extends, NoRevival, NoDeletion, Cancels
<1> QED BY <1>1, <1>2, WritesMore

\* Every new item deletes in the new queue what it deletes by itself.
LEMMA DeletedNow ==
  ASSUME NEW q \in Seq(Items), NEW items, Compatible(items), NEW r, Extends(q, items, Len(items), r),
         NEW h, NEW m \in DOMAIN items
  PROVE  \A e \in D(h, items[m]) : DeletedIn(h, r, e)
<1>0. DOMAIN items = 1..Len(items) BY DEF Compatible
<1>1. PICK n \in DOMAIN r : /\ Same(r[n], items[m])
                            /\ items[m].kind \in {"config", "relations"} => items[m].what \subseteq r[n].what
  BY <1>0 DEF Extends
<1>a. Same(items[m], r[n]) BY <1>1 DEF Same
<1>2. D(h, items[m]) \subseteq D(h, r[n]) BY <1>1, <1>a, DeletesMore
<1> QED BY <1>2 DEF DeletedIn

LEMMA DeletedInStays ==
  ASSUME NEW q \in Seq(Items), NEW items, Compatible(items), NEW r, Extends(q, items, Len(items), r),
         NoRevival(q, items), NEW h, NEW e, DeletedIn(h, q, e)
  PROVE  DeletedIn(h, r, e)
<1>1. PICK n \in DOMAIN q : e \in D(h, q[n]) BY DEF DeletedIn
<1>2. e \in D(h, r[n]) BY <1>1, DeletedStays
<1>3. Len(q) \in Nat /\ DOMAIN q = 1..Len(q) OBVIOUS
<1>4. n \in DOMAIN r
  <2>1. r \in Seq(Items) /\ Len(q) <= Len(r) BY DEF Extends
  <2>2. Len(r) \in Nat /\ DOMAIN r = 1..Len(r) BY <2>1
  <2> QED BY <2>1, <2>2, <1>3
<1> QED BY <1>2, <1>4 DEF DeletedIn

\* What is there in the end still is, unless one of the new items deletes it.
LEMMA KeptStays ==
  ASSUME NEW q \in Seq(Items), NEW items, Compatible(items), NEW r, Extends(q, items, Len(items), r),
         NoDeletion(items), NoRevival(q, items), NEW h, NEW g, NEW d, NEW base, NEW it,
         NEW e, \A m \in DOMAIN items : e \notin D(h, items[m]), Kept(h, g, d, base, it, q, e)
  PROVE  Kept(h, g, d, base, it, r, e)
<1>0. Len(q) \in Nat /\ DOMAIN q = 1..Len(q) OBVIOUS
<1>1. DOMAIN q \subseteq DOMAIN r
  <2>1. r \in Seq(Items) /\ Len(q) <= Len(r) BY DEF Extends
  <2>2. Len(r) \in Nat /\ DOMAIN r = 1..Len(r) BY <2>1
  <2> QED BY <2>1, <2>2, <1>0
<1>2. \A n \in DOMAIN r : e \in D(h, r[n]) => n \in DOMAIN q /\ e \in D(h, q[n]) BY DeletedBefore
<1>3. ~DeletedIn(h, q, e) => ~DeletedIn(h, r, e) BY <1>2 DEF DeletedIn
<1>4. \A n \in DOMAIN q : W(h, g, d, q[n]) \subseteq W(h, g, d, r[n]) BY WrittenStays
<1>5. WrittenLast(h, g, d, it, q, e) => WrittenLast(h, g, d, it, r, e)
  BY <1>1, <1>2, <1>3, <1>4 DEF WrittenLast
<1> QED BY <1>3, <1>5 DEF Kept, Deleted

\* The types
LEMMA QueueOKStays ==
  ASSUME NEW h \in Nat, NEW d \in Nat, NEW q, QueueOK(h, d, q), NEW items, Compatible(items),
         \A m \in DOMAIN items : ItemOK(h, d, items[m]), NEW r, Extends(q, items, Len(items), r)
  PROVE  QueueOK(h, d, r)
<1>0. DOMAIN items = 1..Len(items) BY DEF Compatible
<1>1. r \in Seq(Items) /\ Unique(r) BY DEF Extends
<1>2. SUFFICES ASSUME NEW n \in DOMAIN r PROVE ItemOK(h, d, r[n]) BY <1>1 DEF QueueOK
<1>3. \A bit \in r[n].what :
          \/ n \in DOMAIN q /\ Same(r[n], q[n]) /\ bit \in q[n].what
          \/ \E m \in DOMAIN items : Same(r[n], items[m]) /\ bit \in items[m].what
  BY <1>0 DEF Extends
<1>4. \/ n \in DOMAIN q /\ Same(r[n], q[n])
      \/ \E m \in DOMAIN items : Same(r[n], items[m])
  BY <1>0 DEF Extends
<1>5. n \in DOMAIN q => ItemOK(h, d, q[n]) BY DEF QueueOK
<1>6. PICK j : ItemOK(h, d, j) /\ Same(r[n], j) BY <1>4, <1>5
<1>7. \A bit \in r[n].what : \E i : ItemOK(h, d, i) /\ Same(r[n], i) /\ bit \in i.what BY <1>3, <1>5
<1>8. CASE r[n].kind = "config"
  <2>1. r[n].key \in 0..h BY <1>6, <1>8 DEF ItemOK, Same
  <2>2. r[n].what \subseteq Bits BY <1>7, <1>8 DEF ItemOK, Same
  <2>3. r[n].key = 0 => r[n].what \subseteq {"ConfigUpdate", "VolatileState"}
    BY <1>7, <1>8 DEF ItemOK, Same
  <2> QED BY <2>1, <2>2, <2>3, <1>8 DEF ItemOK
<1>9. CASE r[n].kind = "relations"
  <2>1. r[n].key \in RelationIds BY <1>6, <1>9 DEF ItemOK, Same
  <2>2. r[n].what \subseteq EntriesOf(r[n].key) BY <1>7, <1>9 DEF ItemOK, Same
  <2> QED BY <2>1, <2>2, <1>9 DEF ItemOK
<1>10. CASE r[n].kind \in {"edge", "groupState"}
  BY <1>6, <1>10 DEF ItemOK, Same
<1>11. CASE r[n].kind \notin {"config", "relations", "edge", "groupState"}
  BY <1>11 DEF ItemOK
<1> QED BY <1>8, <1>9, <1>10, <1>11

-----------------------------------------------------------------------------
(* The inductive invariant                                                   *)

DBTypes ==
    /\ hosts \in 0..MaxObjects /\ host \in {0, hosts}
    /\ depGroups \in 0..MaxDependencies /\ depGroup \in {0, depGroups}
    /\ depGroup # 0 => host # 0
    /\ result \in 0..hosts
    /\ groups \in [Hosts -> SUBSET Groups]
    /\ connected \in BOOLEAN /\ reconnected \in BOOLEAN /\ unsent \in BOOLEAN /\ late \in BOOLEAN
    /\ leftover \subseteq {"parentNode", "edge", "edgeState"}
    /\ overtaken \subseteq Groups \cup DependencyEntries
    /\ unread \subseteq 0..hosts /\ reading \in 0..hosts /\ serializing \in 0..depGroups
    /\ dump # "listed" => unread = {} /\ reading = 0 /\ dumped = {}
    /\ dump # "done" => item = NoItem
    /\ ItemOK(hosts, depGroups, item)
    /\ item.kind = "queries" => item.what = {} \/ item.deletes \subseteq {"config", "nextUpdate"}
    /\ serializing # 0 => reading # 0 \/ item.kind = "queries"
    /\ QueueOK(hosts, depGroups, queue)

\* The dump that is under way, or was, is the last one.
LastDump == dump = "done" \/ (dump \in {"listed", "written"} /\ connected /\ ~reconnected)

\* What a dump has still to read, or to enqueue after that
ToRead ==
    (IF host # 0 /\ host \in unread THEN Wanted(host, groups, depGroup) \ {"parentNode"} ELSE {})
    \cup (IF 0 \in unread THEN Wanted(host, groups, depGroup) \cap {"parentNode"} ELSE {})
    \cup (IF host # 0 /\ reading = host THEN {"nextUpdate"} ELSE {})

\* What the pending items are applied to: what a dump will read, has read or has written
Base == IF ~LastDump THEN Wanted(host, groups, depGroup)
        ELSE IF dump = "listed" THEN dumped \cup ToRead ELSE redis

\* An item about a host that is gone deletes, one about a host there is does not.
OfTheirTime(h, q) ==
    \A n \in DOMAIN q : q[n].kind = "config" =>
        /\ q[n].key \notin {0, h} => q[n].what \subseteq {"ConfigDelete", "NextUpdate"}
        /\ q[n].key \in {0, h} => "ConfigDelete" \notin q[n].what

\* Items about hosts that are gone are older than that of the host there is.
HostLast(h, q) ==
    \A m, n \in DOMAIN q :
        /\ q[m].kind = "config" /\ q[m].key # 0 /\ q[m].key = h
        /\ q[n].kind = "config" /\ n > m
        => q[n].key = 0

\* What should not be there will be deleted.
Sound ==
    /\ \A e \in Base : e \in Wanted(host, groups, depGroup) \cup leftover \/ Deleted(host, item, queue, e)
    /\ \A e \in TakenW(host, groups, depGroup, item) :
          e \in Wanted(host, groups, depGroup) \cup leftover \/ DeletedIn(host, queue, e)

\* What should be there is or will be written, and not be deleted after that.
Complete ==
    \A e \in Wanted(host, groups, depGroup) \ overtaken :
        Kept(host, groups, depGroup, Base, item, queue, e)

HasBit(h, i, bit) == i.kind = "config" /\ i.key = h /\ bit \in i.what
PendingBit(h, q, bit) == \E n \in DOMAIN q : HasBit(h, q[n], bit)

\* What is outdated will be written again, also if an item about a host that is gone is
\* being processed.
Fresh ==
    host # 0 =>
      /\ LastDump /\ host \notin unread /\ "config" \in stale =>
            HasBit(host, item, "ConfigUpdate") \/ PendingBit(host, queue, "ConfigUpdate")
      /\ LastDump /\ host \notin unread /\ "state" \in stale =>
            \/ result = host
            \/ HasBit(host, item, "VolatileState") \/ PendingBit(host, queue, "VolatileState")
      /\ item.kind = "config" /\ item.key \notin {0, host} =>
            \A bit \in item.what \cap {"ConfigUpdate", "VolatileState"} : PendingBit(host, queue, bit)

\* What is there of the dependency, or has been read, if its group neither has an identifier
\* nor is getting one, is of an earlier one and will be deleted.
Present == IF dump = "listed" THEN dumped ELSE redis
Earlier ==
    LastDump /\ depGroup # 0 /\ depGroup \notin identified =>
        /\ dump # "listed" \/ serializing # depGroup =>
              \A e \in Present \cap {"edge", "edgeState"} : e \in leftover \/ Deleted(host, item, queue, e)
        /\ item.kind = "queries" /\ serializing # depGroup =>
              \A e \in item.what \cap {"edge", "edgeState"} : e \in leftover \/ DeletedIn(host, queue, e)

DBClean == ~unsent /\ ~late
DBSync == OfTheirTime(host, queue) /\ HostLast(host, queue) /\ Sound /\ Complete /\ Fresh /\ Earlier
DBInv == DBTypes /\ (DBClean => DBSync)

USE IcingaDBAssumption

\* More objects have been created.
LEMMA QueueOKMore ==
  ASSUME NEW h \in Nat, NEW d \in Nat, NEW hh \in Nat, NEW dd \in Nat, h <= hh, d <= dd,
         NEW q
  PROVE  /\ \A i : ItemOK(h, d, i) => ItemOK(hh, dd, i)
         /\ QueueOK(h, d, q) => QueueOK(hh, dd, q)
<1>1. ASSUME NEW i, ItemOK(h, d, i) PROVE ItemOK(hh, dd, i)
  BY <1>1 DEF ItemOK
<1> QED BY <1>1 DEF QueueOK

\* There is nothing to do for no item.
LEMMA NoItemDoes ==
  /\ \A h, g, d : W(h, g, d, NoItem) = {} /\ TakenW(h, g, d, NoItem) = {}
  /\ \A h : D(h, NoItem) = {} /\ TakenD(h, NoItem) = {}
  /\ NoItem.kind = "none" /\ \A h, bit : ~HasBit(h, NoItem, bit)
  /\ \A h, d : ItemOK(h, d, NoItem)
BY DEF NoItem, W, D, TakenW, TakenD, HasBit, ItemOK

\* Items of the specification
LEMMA ConfigItems ==
  ASSUME NEW k \in Nat, NEW bits \in SUBSET Bits
  PROVE  /\ ConfigItem(k, bits) \in Items
         /\ ConfigItem(k, bits).kind = "config" /\ ConfigItem(k, bits).key = k
         /\ ConfigItem(k, bits).what = bits
BY DEF ConfigItem, Items

LEMMA RelationItems ==
  ASSUME NEW id \in RelationIds, NEW entries \in SUBSET EntriesOf(id), entries \subseteq Entries
  PROVE  /\ RelationsDeletion(id, entries) \in Items
         /\ RelationsDeletion(id, entries).kind = "relations"
         /\ RelationsDeletion(id, entries).key = id
         /\ RelationsDeletion(id, entries).what = entries
         /\ \A h, d : ItemOK(h, d, RelationsDeletion(id, entries))
         /\ \A h : D(h, RelationsDeletion(id, entries)) = entries
<1> DEFINE i == RelationsDeletion(id, entries)
<1>1. i = [kind |-> "relations", key |-> id, what |-> entries] BY DEF RelationsDeletion
<1>2. i.kind = "relations" /\ i.key = id /\ i.what = entries BY <1>1
<1>3. i \in Items BY <1>1 DEF Items
<1> HIDE DEF i
<1>4. \A h, d : ItemOK(h, d, i) BY <1>2 DEF ItemOK
<1>5. \A h : D(h, i) = entries BY <1>2 DEF D
<1> QED BY <1>2, <1>3, <1>4, <1>5 DEF i

\* A new host: everything there is to do stays the same.
LEMMA NewHostChangesNothing ==
  ASSUME NEW hs \in Nat, NEW ds \in Nat, NEW g, NEW i, ItemOK(hs, ds, i)
  PROVE  W(hs + 1, g, 0, i) = W(0, g, 0, i) /\ D(hs + 1, i) = D(0, i)
<1>1. CASE i.kind = "config"
  <2>1. i.key \in 0..hs /\ i.key # hs + 1 BY <1>1 DEF ItemOK
  <2>2. i.key = 0 => "NextUpdate" \notin i.what BY <1>1 DEF ItemOK
  <2>3. Related(hs + 1, g, 0, i.key) = Related(0, g, 0, i.key) BY DEF Related
  <2>4. W(hs + 1, g, 0, i) = W(0, g, 0, i) BY <1>1, <2>1, <2>3 DEF W
  <2>5. D(hs + 1, i) = D(0, i) BY <1>1, <2>1, <2>2 DEF D
  <2> QED BY <2>4, <2>5
<1>2. CASE i.kind # "config"
  BY <1>2 DEF W, D
<1> QED BY <1>1, <1>2

\* What an update overtakes is not of the host itself.
LEMMA OvertakesRelated ==
  ASSUME NEW q, NEW items \in Seq(Items), groups' \in [Hosts -> SUBSET Groups], hosts' \in 0..MaxObjects,
         NEW d, \A m \in DOMAIN items : ItemOK(hosts', d, items[m])
  PROVE  Overtakes(q, items) \subseteq Groups \cup DependencyEntries
<1> SUFFICES ASSUME NEW e \in Overtakes(q, items) PROVE e \in Groups \cup DependencyEntries OBVIOUS
<1>1. PICK m \in DOMAIN items : items[m].kind = "config" /\ e \in Related(host', groups', depGroup', items[m].key)
  BY OperatorsNext DEF Overtakes, ToSet
<1>2. items[m].key \in 0..hosts' BY <1>1 DEF ItemOK
<1>3. items[m].key # 0 => items[m].key \in Hosts BY <1>2 DEF Hosts
<1> QED BY <1>1, <1>2, <1>3 DEF Related, DependencyEntries

\* What an update of the host writes
LEMMA HostUpdateWrites ==
  ASSUME NEW h \in Nat \ {0}, NEW g, NEW d, NEW i, i.kind = "config", i.key = h
  PROVE  /\ AllBits \subseteq i.what => Wanted(h, g, 0) \subseteq W(h, g, d, i)
         /\ "ConfigUpdate" \in i.what => g[h] \subseteq W(h, g, d, i)
         /\ "NextUpdate" \in i.what => "nextUpdate" \in W(h, g, d, i)
BY DEF W, Wanted, Related, AllBits

LEMMA CreateHostKeeps == DBInv /\ CreateHost => DBInv'
<1> SUFFICES ASSUME DBInv, CreateHost PROVE DBInv' OBVIOUS
<1> DEFINE x == ConfigItem(hosts + 1, AllBits)
           items == <<x>>
<1>0. /\ hosts \in Nat /\ depGroups \in Nat /\ hosts + 1 \in Nat /\ hosts + 1 \in 0..MaxObjects
      /\ host = 0 /\ depGroup = 0 /\ hosts + 1 # 0 /\ hosts <= hosts + 1
  BY DEF CreateHost, DBInv, DBTypes
<1>1. /\ host' = hosts + 1 /\ hosts' = hosts + 1 /\ stale' = {"config", "state"}
      /\ groups' = groups /\ depGroup' = depGroup /\ depGroups' = depGroups /\ result' = result
      /\ identified' = identified /\ connected' = connected /\ reconnected' = reconnected
      /\ dump' = dump /\ unread' = unread /\ reading' = reading /\ dumped' = dumped
      /\ serializing' = serializing /\ item' = item /\ redis' = redis
      /\ late' = late /\ leftover' = leftover /\ Post(queue, items)
  BY DEF CreateHost, handlerVars, connVars, dumpVars
<1>2. x \in Items /\ x.kind = "config" /\ x.key = hosts + 1 /\ x.what = AllBits
  BY <1>0, ConfigItems DEF AllBits, Bits
<1>3. ItemOK(hosts + 1, depGroups, x) BY <1>2, <1>0 DEF ItemOK, AllBits, Bits
<1>4. /\ items \in Seq(Items) /\ DOMAIN items = {1} /\ items[1] = x /\ Len(items) = 1
  BY <1>2
<1> HIDE DEF x, items
<1>5. Compatible(items) BY <1>4 DEF Compatible
<1>6. QueueOK(hosts, depGroups, queue) /\ QueueOK(hosts + 1, depGroups, queue)
      /\ ItemOK(hosts + 1, depGroups, item)
  BY <1>0, QueueOKMore DEF DBInv, DBTypes
<1>7. CASE ~connected
  <2>1. unsent' = TRUE /\ queue' = queue /\ overtaken' = overtaken BY <1>1, <1>7 DEF Post
  <2>2. DBTypes' BY <1>0, <1>1, <1>6, <2>1 DEF DBInv, DBTypes
  <2>3. ~DBClean' BY <2>1 DEF DBClean
  <2> QED BY <2>2, <2>3 DEF DBInv
<1>8. CASE connected
  <2>1. /\ queue' = EnqueueAll(queue, items) /\ unsent' = unsent
        /\ overtaken' = overtaken \cup Overtakes(queue', items)
    BY <1>1, <1>8 DEF Post
  <2>b. overtaken' \subseteq Groups \cup DependencyEntries
    <3>1. hosts' \in 0..MaxObjects /\ groups' \in [Hosts -> SUBSET Groups]
      BY <1>0, <1>1 DEF DBInv, DBTypes
    <3>2. Overtakes(queue', items) \subseteq Groups \cup DependencyEntries
      BY <3>1, <1>1, <1>3, <1>4, OvertakesRelated
    <3> QED BY <3>2, <2>1 DEF DBInv, DBTypes
  <2>2. Extends(queue, items, Len(items), queue')
    BY <2>1, <1>5, <1>6, ExtendsAll DEF QueueOK
  <2>3. QueueOK(hosts + 1, depGroups, queue') BY <2>2, <1>0, <1>3, <1>4, <1>5, <1>6, QueueOKStays
  <2>4. DBTypes' BY <1>0, <1>1, <1>6, <2>1, <2>3, <2>b DEF DBInv, DBTypes
  <2>5. SUFFICES ASSUME DBClean' PROVE DBSync' BY <2>4 DEF DBInv
  <2>6. DBClean /\ DBSync BY <2>5, <2>1, <1>1 DEF DBClean, DBInv
  \* The new item is the last one.
  <2>7. \A n \in DOMAIN queue : ItemOK(hosts, depGroups, queue[n]) /\ ~Same(queue[n], x)
    BY <1>0, <1>2, <1>6 DEF QueueOK, ItemOK, Same
  <2>8. PICK p \in DOMAIN queue' : Same(queue'[p], x) /\ x.what \subseteq queue'[p].what
    BY <2>2, <1>2, <1>4 DEF Extends
  <2>9. \A n \in DOMAIN queue' : n = p \/ (n \in DOMAIN queue /\ Same(queue'[n], queue[n]))
    BY <2>2, <2>8, <1>4 DEF Extends, Unique, Same
  <2>10. p \notin DOMAIN queue /\ queue'[p].kind = "config" /\ queue'[p].key = hosts + 1
    BY <2>2, <2>7, <2>8, <1>2 DEF Extends, Same
  <2>11. \A n \in DOMAIN queue' : n > p => FALSE
    <3>1. queue \in Seq(Items) /\ Len(queue) \in Nat /\ DOMAIN queue = 1..Len(queue)
      BY <1>6 DEF QueueOK
    <3>2. DOMAIN queue' = 1..Len(queue') /\ Len(queue') \in Nat BY <2>2 DEF Extends
    <3> QED BY <3>1, <3>2, <2>9, <2>10
  <2>12. NoRevival(queue, items) BY <2>7, <1>4 DEF NoRevival
  <2>13. \A n \in DOMAIN queue : \A bit \in queue'[n].what : bit \in queue[n].what
    BY <2>2, <2>7, <1>4 DEF Extends, Same
  <2>a. \A n \in DOMAIN queue : n \in DOMAIN queue'
    <3>1. queue \in Seq(Items) /\ queue' \in Seq(Items) /\ Len(queue) <= Len(queue')
      BY <1>6, <2>2 DEF QueueOK, Extends
    <3> QED BY <3>1
  <2>14. OfTheirTime(host', queue')
    <3> SUFFICES ASSUME NEW n \in DOMAIN queue', queue'[n].kind = "config"
                 PROVE  /\ queue'[n].key \notin {0, host'} => queue'[n].what \subseteq {"ConfigDelete", "NextUpdate"}
                        /\ queue'[n].key \in {0, host'} => "ConfigDelete" \notin queue'[n].what
      BY DEF OfTheirTime
    <3>1. CASE n = p
      <4>1. "ConfigDelete" \notin queue'[n].what
        BY <3>1, <2>2, <2>10, <1>2, <1>4 DEF Extends, AllBits
      <4> QED BY <4>1, <3>1, <2>10, <1>1
    <3>2. CASE n # p
      <4>1. n \in DOMAIN queue /\ queue[n].kind = "config" /\ queue[n].key = queue'[n].key
        BY <3>2, <2>9 DEF Same
      <4>2. queue[n].key # hosts + 1 BY <4>1, <2>7, <1>2 DEF Same
      <4> QED BY <4>1, <4>2, <2>6, <2>13, <1>0, <1>1 DEF DBSync, OfTheirTime
    <3> QED BY <3>1, <3>2
  <2>15. HostLast(host', queue')
    BY <2>9, <2>11, <2>7, <1>1, <1>2 DEF HostLast, Same
  <2>16. /\ \A i : ItemOK(hosts, depGroups, i) =>
              W(host', groups', depGroup', i) = W(host, groups, depGroup, i) /\ D(host', i) = D(host, i)
         /\ TakenW(host', groups', depGroup', item) = TakenW(host, groups, depGroup, item) /\ TakenD(host', item) = TakenD(host, item)
    <3>1. \A i : ItemOK(hosts, depGroups, i) =>
              W(host', groups', depGroup', i) = W(host, groups, depGroup, i) /\ D(host', i) = D(host, i)
      BY <1>0, <1>1, NewHostChangesNothing
    <3>2. ItemOK(hosts, depGroups, item) BY DEF DBInv, DBTypes
    <3> QED BY <3>1, <3>2 DEF TakenW, TakenD
  <2>17. Wanted(host, groups, depGroup) = {} BY <1>0 DEF Wanted
  <2>18. \A e : DeletedIn(host, queue, e) => DeletedIn(host', queue', e)
    <3> SUFFICES ASSUME NEW e, DeletedIn(host, queue, e) PROVE DeletedIn(host', queue', e) OBVIOUS
    <3>1. DeletedIn(host', queue, e) BY <2>16, <2>7 DEF DeletedIn
    <3> QED BY <3>1, <2>2, <2>12, <1>5, <1>6, DeletedInStays DEF QueueOK
  <2>19. LastDump' <=> LastDump BY <1>1 DEF LastDump
  <2>20. leftover' = leftover BY <1>1
  <2>21. Sound'
    <3>1. \A e \in Base' : e \in Wanted(host', groups', depGroup') \cup leftover' \/ Deleted(host', item', queue', e)
      <4>1. CASE ~LastDump BY <4>1, <2>19 DEF Base
      <4>2. CASE LastDump
        <5>0. hosts + 1 \notin unread /\ reading # hosts + 1 BY <1>0 DEF DBInv, DBTypes
        <5>a. hosts + 1 \in Hosts /\ groups[hosts + 1] \subseteq Groups BY <1>0 DEF Hosts, DBInv, DBTypes
        <5>b. ToRead = {} BY <1>0, <2>17 DEF ToRead
        <5>c. "parentNode" \notin Wanted(hosts + 1, groups, 0) BY <5>a DEF Wanted
        <5>d. ToRead' = {} BY <5>0, <5>c, <1>0, <1>1 DEF ToRead
        <5>1. Base' = Base BY <5>b, <5>d, <4>2, <2>19, <1>1 DEF Base
        <5>2. \A e \in Base : e \in leftover \/ Deleted(host, item, queue, e)
          BY <2>6, <2>17 DEF DBSync, Sound
        <5> QED BY <5>1, <5>2, <2>16, <2>18, <2>20, <1>1 DEF Deleted
      <4> QED BY <4>1, <4>2
    <3>2. \A e \in TakenW(host', groups', depGroup', item') :
             e \in Wanted(host', groups', depGroup') \cup leftover' \/ DeletedIn(host', queue', e)
      BY <2>6, <2>16, <2>17, <2>18, <1>1 DEF DBSync, Sound
    <3> QED BY <3>1, <3>2 DEF Sound
  <2>22. Complete'
    <3> SUFFICES ASSUME NEW e \in Wanted(host', groups', depGroup')
                 PROVE  Kept(host', groups', depGroup', Base', item', queue', e)
      BY DEF Complete
    <3>1. e \in W(host', groups', depGroup', queue'[p])
      BY <2>8, <2>10, <1>0, <1>1, <1>2, HostUpdateWrites
    <3> QED BY <3>1, <2>11 DEF Kept, WrittenLast
  <2>23. Fresh'
    <3>1. \A bit \in {"ConfigUpdate", "VolatileState"} : PendingBit(host', queue', bit)
      BY <2>8, <2>10, <1>1, <1>2 DEF PendingBit, HasBit, AllBits
    <3> QED BY <3>1 DEF Fresh
  <2>24. Earlier' BY <1>0, <1>1 DEF Earlier
  <2> QED BY <2>14, <2>15, <2>21, <2>22, <2>23, <2>24 DEF DBSync
<1> QED BY <1>7, <1>8

\* Steps of the dump and of the connection do not touch the objects and the queue.
objectsAndQueue == <<host, hosts, groups, depGroup, depGroups, result, unread, reading, serializing, queue,
                     item, stale, unsent, late, overtaken, identified>>

LEMMA FrameKeeps ==
  ASSUME DBInv, UNCHANGED objectsAndQueue, connected' \in BOOLEAN, reconnected' \in BOOLEAN,
         dump' # "done" => item = NoItem,
         dump' # "listed" => unread = {} /\ reading = 0 /\ dumped' = {},
         leftover' = leftover \/ (leftover' = {} /\ ~LastDump' /\ item = NoItem),
         LastDump' => LastDump /\ Base' = Base /\ Present' = Present,
         dump = "listed" /\ dump' # "listed" => serializing = 0
  PROVE  DBInv'
<1>1. DBTypes' BY DEF DBInv, DBTypes, objectsAndQueue
<1>2. SUFFICES ASSUME DBClean' PROVE DBSync' BY <1>1 DEF DBInv
<1>3. DBSync BY <1>2 DEF DBClean, objectsAndQueue, DBInv
<1>4. Base' = Base \/ Base' = Wanted(host, groups, depGroup) BY DEF Base, objectsAndQueue
<1>6. OfTheirTime(host', queue') /\ HostLast(host', queue') BY <1>3 DEF DBSync, objectsAndQueue
<1>7. Sound'
  <2>1. CASE leftover' = leftover BY <2>1, <1>3, <1>4 DEF DBSync, Sound, objectsAndQueue
  <2>2. CASE ~LastDump' /\ item = NoItem
    <3>1. Base' = Wanted(host, groups, depGroup) BY <2>2 DEF Base, objectsAndQueue
    <3>2. TakenW(host, groups, depGroup, item) = {} BY <2>2, NoItemDoes
    <3> QED BY <3>1, <3>2 DEF Sound, objectsAndQueue
  <2> QED BY <2>1, <2>2
<1>8. Complete'
  <2> SUFFICES ASSUME NEW e \in Wanted(host, groups, depGroup), e \notin overtaken
               PROVE  Kept(host, groups, depGroup, Base', item, queue, e)
    BY DEF Complete, objectsAndQueue
  <2>1. Kept(host, groups, depGroup, Base, item, queue, e) BY <1>3 DEF DBSync, Complete
  <2> QED BY <2>1, <1>4 DEF Kept
<1>9. Fresh' BY <1>3 DEF DBSync, Fresh, objectsAndQueue
<1>10. Earlier'
  <2> SUFFICES ASSUME LastDump', depGroup # 0, depGroup \notin identified
               PROVE  /\ dump' # "listed" \/ serializing # depGroup =>
                            \A e \in Present' \cap {"edge", "edgeState"} :
                                e \in leftover' \/ Deleted(host, item, queue, e)
                      /\ item.kind = "queries" /\ serializing # depGroup =>
                            \A e \in item.what \cap {"edge", "edgeState"} :
                                e \in leftover' \/ DeletedIn(host, queue, e)
    BY DEF Earlier, objectsAndQueue
  <2>1. LastDump /\ Present' = Present /\ leftover' = leftover OBVIOUS
  <2> HIDE DEF LastDump, Present
  <2>2. /\ dump # "listed" \/ serializing # depGroup =>
              \A e \in Present \cap {"edge", "edgeState"} : e \in leftover \/ Deleted(host, item, queue, e)
        /\ item.kind = "queries" /\ serializing # depGroup =>
              \A e \in item.what \cap {"edge", "edgeState"} : e \in leftover \/ DeletedIn(host, queue, e)
    BY <2>1, <1>3 DEF DBSync, Earlier
  <2> QED BY <2>1, <2>2
<1> QED BY <1>6, <1>7, <1>8, <1>9, <1>10 DEF DBSync

LEMMA ConnectionKeeps == DBInv /\ (RedisConnect \/ RedisDisconnect) => DBInv'
<1> SUFFICES ASSUME DBInv, RedisConnect \/ RedisDisconnect PROVE DBInv' OBVIOUS
<1>1. UNCHANGED objectsAndQueue /\ UNCHANGED <<dump, dumped, redis, leftover>>
  BY DEF RedisConnect, RedisDisconnect, objectVars, dumpVars, objectsAndQueue
<1>2. connected' \in BOOLEAN /\ reconnected' \in BOOLEAN
  <2>1. CASE RedisConnect BY <2>1 DEF RedisConnect
  <2>2. CASE RedisDisconnect BY <2>2 DEF RedisDisconnect, DBInv, DBTypes
  <2> QED BY <2>1, <2>2
<1>3. LastDump' => LastDump BY <1>1 DEF RedisConnect, RedisDisconnect, LastDump
<1>4. LastDump' => Base' = Base /\ Present' = Present
  BY <1>1, <1>3 DEF Base, ToRead, Present, objectsAndQueue
<1>5. /\ dump' # "done" => item = NoItem
      /\ dump' # "listed" => unread = {} /\ reading = 0 /\ dumped' = {}
  BY <1>1 DEF DBInv, DBTypes
<1> QED BY <1>1, <1>2, <1>3, <1>4, <1>5, FrameKeeps

LEMMA DumpBeginKeeps == DBInv /\ DumpBegin => DBInv'
<1> SUFFICES ASSUME DBInv, DumpBegin PROVE DBInv' OBVIOUS
<1>1. UNCHANGED objectsAndQueue /\ dumped' = dumped /\ dump = "idle" /\ dump' = "begun" /\ leftover' = {}
  BY DEF DumpBegin, objectVars, objectsAndQueue
<1>2. connected' \in BOOLEAN /\ reconnected' \in BOOLEAN BY DEF DumpBegin, DBInv, DBTypes
<1>3. ~LastDump' BY <1>1 DEF LastDump
<1>4. item = NoItem /\ unread = {} /\ reading = 0 /\ dumped' = {} BY <1>1 DEF DBInv, DBTypes
<1> QED BY <1>1, <1>2, <1>3, <1>4, FrameKeeps

LEMMA DumpWriteKeeps == DBInv /\ DumpWrite => DBInv'
<1> SUFFICES ASSUME DBInv, DumpWrite PROVE DBInv' OBVIOUS
<1>1. /\ UNCHANGED objectsAndQueue /\ UNCHANGED <<connected, reconnected, leftover>>
      /\ dump = "listed" /\ dump' = "written" /\ unread = {} /\ reading = 0 /\ dumped' = {}
      /\ connected => redis' = dumped
  BY DEF DumpWrite, objectVars, connVars, objectsAndQueue
<1>2. connected' \in BOOLEAN /\ reconnected' \in BOOLEAN BY <1>1 DEF DBInv, DBTypes
<1>3. LastDump' => LastDump /\ connected BY <1>1 DEF LastDump
<1>4. ToRead = {} BY <1>1 DEF ToRead
<1>5. LastDump' => Base' = Base /\ Present' = Present
  BY <1>1, <1>3, <1>4 DEF Base, Present, objectsAndQueue
<1>6. item = NoItem /\ serializing = 0 BY <1>1, NoItemDoes DEF DBInv, DBTypes
<1> QED BY <1>1, <1>2, <1>3, <1>5, <1>6, FrameKeeps

LEMMA DumpEndKeeps == DBInv /\ DumpEnd => DBInv'
<1> SUFFICES ASSUME DBInv, DumpEnd PROVE DBInv' OBVIOUS
<1>1. /\ UNCHANGED objectsAndQueue /\ UNCHANGED <<connected, reconnected, dumped, redis, leftover>>
      /\ dump = "written" /\ dump' = IF connected /\ ~reconnected THEN "done" ELSE "idle"
  BY DEF DumpEnd, objectVars, connVars, objectsAndQueue
<1>2. connected' \in BOOLEAN /\ reconnected' \in BOOLEAN BY <1>1 DEF DBInv, DBTypes
<1>3. LastDump' => LastDump BY <1>1 DEF LastDump
<1>4. dump' # "listed" BY <1>1
<1>5. LastDump' => Base' = Base /\ Present' = Present
  BY <1>1, <1>3, <1>4 DEF Base, Present, objectsAndQueue
<1>6. item = NoItem /\ unread = {} /\ reading = 0 /\ dumped = {} BY <1>1 DEF DBInv, DBTypes
<1> QED BY <1>1, <1>2, <1>3, <1>4, <1>5, <1>6, FrameKeeps

LEMMA ResultProcessedKeeps == DBInv /\ ResultProcessed => DBInv'
<1> SUFFICES ASSUME DBInv, ResultProcessed PROVE DBInv' OBVIOUS
<1>1. /\ UNCHANGED <<host, hosts, groups, depGroup, depGroups, queue, item, unsent, late, overtaken,
                     leftover, identified, connected, reconnected, dump, unread, reading, dumped,
                     serializing, redis>>
      /\ host # 0 /\ result' = host /\ stale' = stale \cup {"state"}
  BY DEF ResultProcessed, handlerVars, connVars, dumpVars
<1>2. DBTypes' BY <1>1 DEF DBInv, DBTypes
<1>3. SUFFICES ASSUME DBClean' PROVE DBSync' BY <1>2 DEF DBInv
<1>4. DBSync BY <1>1, <1>3 DEF DBClean, DBInv
<1>5. (LastDump' <=> LastDump) /\ Base' = Base /\ leftover' = leftover
  BY <1>1 DEF LastDump, Base, ToRead
<1>6. OfTheirTime(host', queue') /\ HostLast(host', queue') BY <1>1, <1>4 DEF DBSync
<1>7. Sound' BY <1>1, <1>4, <1>5 DEF DBSync, Sound
<1>8. Complete' BY <1>1, <1>4, <1>5 DEF DBSync, Complete
<1>9. Fresh' BY <1>1, <1>4, <1>5 DEF DBSync, Fresh
<1>10. Earlier' BY <1>1, <1>4, <1>5 DEF DBSync, Earlier, Present
<1> QED BY <1>6, <1>7, <1>8, <1>9, <1>10 DEF DBSync

-----------------------------------------------------------------------------
(* The worker                                                                *)

\* An item about what there is writes only what should be there.
LEMMA WritesWanted ==
  ASSUME NEW h, NEW g, NEW d, NEW hs \in Nat, NEW ds \in Nat, NEW i, ItemOK(hs, ds, i), d # 0 => h # 0,
         i.kind = "config" /\ i.key \notin {0, h} => i.what \subseteq {"ConfigDelete", "NextUpdate"}
  PROVE  W(h, g, d, i) \subseteq Wanted(h, g, d)
<1>1. CASE i.kind = "config"
  <2>1. CASE i.key = 0 BY <1>1, <2>1 DEF W, Wanted, Related, DependencyEntries
  <2>2. CASE i.key # 0 /\ i.key = h BY <1>1, <2>2 DEF W, Wanted, Related, DependencyEntries
  <2>3. CASE i.key \notin {0, h} BY <1>1, <2>3 DEF W
  <2> QED BY <2>1, <2>2, <2>3
<1>2. CASE i.kind \in {"edge", "groupState"}
  <2>1. i.key # 0 BY <1>2 DEF ItemOK
  <2> QED BY <1>2, <2>1 DEF W, Wanted, DependencyEntries
<1>3. CASE i.kind \notin {"config", "edge", "groupState"} BY <1>3 DEF W
<1> QED BY <1>1, <1>2, <1>3

LEMMA WorkerTakeKeeps == DBInv /\ WorkerTake => DBInv'
<1> SUFFICES ASSUME DBInv, WorkerTake PROVE DBInv' OBVIOUS
<1>1. /\ UNCHANGED <<host, hosts, groups, depGroup, depGroups, result, stale, unsent, late, overtaken,
                     leftover, identified, connected, reconnected, dump, unread, reading, dumped,
                     serializing, redis>>
      /\ item = NoItem /\ queue # <<>> /\ item' = Head(queue) /\ queue' = Tail(queue) /\ dump = "done"
  BY DEF WorkerTake, objectVars, connVars, dumpVars
<1>2. /\ QueueOK(hosts, depGroups, queue) /\ queue \in Seq(Items) /\ Len(queue) \in Nat
      /\ DOMAIN queue = 1..Len(queue) /\ hosts \in Nat /\ depGroups \in Nat
  BY DEF DBInv, DBTypes, QueueOK
<1>3. /\ queue' \in Seq(Items) /\ Len(queue') = Len(queue) - 1 /\ DOMAIN queue' = 1..(Len(queue) - 1)
      /\ \A n \in DOMAIN queue' : queue'[n] = queue[n + 1]
      /\ item' = queue[1] /\ 1 \in DOMAIN queue /\ Len(queue) >= 1
  <2>1. Len(queue) >= 1 BY <1>1, <1>2, EmptySeq
  <2> QED BY <1>1, <1>2, <2>1
<1>4. \A n \in DOMAIN queue' : n + 1 \in DOMAIN queue BY <1>2, <1>3
<1>5. \A n \in DOMAIN queue : n = 1 \/ (n - 1 \in DOMAIN queue' /\ queue'[n - 1] = queue[n])
  <2> SUFFICES ASSUME NEW n \in DOMAIN queue, n # 1 PROVE n - 1 \in DOMAIN queue' /\ queue'[n - 1] = queue[n]
    OBVIOUS
  <2>1. n - 1 \in DOMAIN queue' /\ (n - 1) + 1 = n BY <1>2, <1>3
  <2>2. queue'[n - 1] = queue[(n - 1) + 1] BY <2>1, <1>3
  <2> QED BY <2>1, <2>2
<1>6. Unique(queue')
  <2> SUFFICES ASSUME NEW m \in DOMAIN queue', NEW n \in DOMAIN queue', Same(queue'[m], queue'[n]) PROVE m = n
    BY DEF Unique
  <2>1. m + 1 = n + 1 BY <1>2, <1>3, <1>4 DEF QueueOK, Unique
  <2> QED BY <2>1, <1>3, <1>2
<1>7. QueueOK(hosts, depGroups, queue') BY <1>2, <1>3, <1>4, <1>6 DEF QueueOK
<1>8. item' \in Items /\ ItemOK(hosts, depGroups, item') BY <1>2, <1>3, ElementOfSeq DEF QueueOK
<1>a. item'.kind # "queries" /\ item.kind = "none" BY <1>1, <1>8, NoItemDoes DEF Items
<1>b. /\ TakenD(host, item') = D(host, item')
      /\ TakenW(host, groups, depGroup, item') = W(host, groups, depGroup, item')
  BY <1>a DEF TakenW, TakenD
<1>9. DBTypes' BY <1>1, <1>7, <1>8, <1>a DEF DBInv, DBTypes
<1>10. SUFFICES ASSUME DBClean' PROVE DBSync' BY <1>9 DEF DBInv
<1>11. DBSync BY <1>1, <1>10 DEF DBClean, DBInv
<1>12. (LastDump' <=> LastDump) /\ Base' = Base /\ leftover' = leftover
  BY <1>1 DEF LastDump, Base, ToRead
<1>13. OfTheirTime(host', queue')
  <2>1. OfTheirTime(host, queue) BY <1>11 DEF DBSync
  <2> QED BY <2>1, <1>1, <1>3, <1>4 DEF OfTheirTime
<1>14. HostLast(host', queue')
  <2> SUFFICES ASSUME NEW m \in DOMAIN queue', NEW n \in DOMAIN queue',
                      queue'[m].kind = "config", queue'[m].key # 0, queue'[m].key = host,
                      queue'[n].kind = "config", n > m
               PROVE  queue'[n].key = 0
    BY <1>1 DEF HostLast
  <2>1. m + 1 \in DOMAIN queue /\ n + 1 \in DOMAIN queue /\ n + 1 > m + 1 BY <1>2, <1>3, <1>4
  <2>2. HostLast(host, queue) BY <1>11 DEF DBSync
  <2> HIDE DEF HostLast
  <2>3. \A k, l \in DOMAIN queue : queue[k].kind = "config" /\ queue[k].key # 0 /\ queue[k].key = host
             /\ queue[l].kind = "config" /\ l > k => queue[l].key = 0
    BY <2>2 DEF HostLast
  <2> QED BY <2>1, <2>3, <1>3
<1>15. \A e : Deleted(host', item', queue', e) <=> Deleted(host, item, queue, e)
  <2>1. \A e : Deleted(host, item, queue, e) <=> \E n \in DOMAIN queue : e \in D(host, queue[n])
    BY <1>1, NoItemDoes DEF Deleted, DeletedIn
  <2>2. \A e : Deleted(host', item', queue', e) <=>
          e \in D(host, queue[1]) \/ \E n \in DOMAIN queue' : e \in D(host, queue'[n])
    BY <1>1, <1>3, <1>b DEF Deleted, DeletedIn
  <2>3. \A e : (\E n \in DOMAIN queue' : e \in D(host, queue'[n])) => \E n \in DOMAIN queue : e \in D(host, queue[n])
    BY <1>3, <1>4
  <2>4. \A e : (\E n \in DOMAIN queue : e \in D(host, queue[n])) =>
          e \in D(host, queue[1]) \/ \E n \in DOMAIN queue' : e \in D(host, queue'[n])
    BY <1>5
  <2> QED BY <2>1, <2>2, <2>3, <2>4, <1>3
<1>16. TakenW(host', groups', depGroup', item') \subseteq Wanted(host', groups', depGroup')
  <2>1. item'.kind = "config" /\ item'.key \notin {0, host} => item'.what \subseteq {"ConfigDelete", "NextUpdate"}
    BY <1>3, <1>11 DEF DBSync, OfTheirTime
  <2>2. depGroup # 0 => host # 0 BY DEF DBInv, DBTypes
  <2> QED BY <2>1, <2>2, <1>1, <1>2, <1>8, <1>b, WritesWanted
<1>17. Sound'
  BY <1>1, <1>11, <1>12, <1>15, <1>16 DEF DBSync, Sound
<1>18. Complete'
  <2> SUFFICES ASSUME NEW e \in Wanted(host, groups, depGroup), e \notin overtaken
               PROVE  Kept(host, groups, depGroup, Base, item', queue', e)
    BY <1>1, <1>12 DEF Complete
  <2>1. Kept(host, groups, depGroup, Base, item, queue, e) BY <1>11 DEF DBSync, Complete
  <2>2. CASE e \in Base /\ ~Deleted(host, item, queue, e) BY <2>2, <1>1, <1>15 DEF Kept
  <2>3. CASE WrittenLast(host, groups, depGroup, item, queue, e)
    <3>1. PICK n \in DOMAIN queue : /\ e \in W(host, groups, depGroup, queue[n])
                                    /\ \A m \in DOMAIN queue : m > n => e \notin D(host, queue[m])
      BY <2>3, <1>1, NoItemDoes DEF WrittenLast
    <3>2. CASE n = 1
      <4>1. \A m \in DOMAIN queue' : m + 1 \in DOMAIN queue /\ m + 1 > 1 BY <1>2, <1>3
      <4>2. ~DeletedIn(host, queue', e) BY <4>1, <3>1, <3>2, <1>3 DEF DeletedIn
      <4> QED BY <4>2, <3>1, <3>2, <1>3, <1>b DEF Kept, WrittenLast
    <3>3. CASE n # 1
      <4>1. n - 1 \in DOMAIN queue' /\ queue'[n - 1] = queue[n] BY <3>3, <1>5
      <4>2. \A m \in DOMAIN queue' : m > n - 1 => m + 1 > n /\ m + 1 \in DOMAIN queue BY <1>2, <1>3
      <4>3. \A m \in DOMAIN queue' : m > n - 1 => e \notin D(host, queue'[m]) BY <4>2, <3>1, <1>3
      <4> QED BY <4>1, <4>3, <3>1 DEF Kept, WrittenLast
    <3> QED BY <3>2, <3>3
  <2> QED BY <2>1, <2>2, <2>3 DEF Kept
<1>19. Fresh'
  <2>1. \A bit : PendingBit(host, queue, bit) => HasBit(host, item', bit) \/ PendingBit(host, queue', bit)
    BY <1>3, <1>5 DEF PendingBit
  <2>2. \A bit : ~HasBit(host, item, bit) BY <1>1, NoItemDoes
  <2>3. item'.kind = "config" /\ item'.key \notin {0, host} => item'.what \subseteq {"ConfigDelete", "NextUpdate"}
    BY <1>3, <1>11 DEF DBSync, OfTheirTime
  <2>4. host # 0 /\ LastDump /\ host \notin unread /\ "config" \in stale => PendingBit(host, queue, "ConfigUpdate")
    BY <2>2, <1>11 DEF DBSync, Fresh
  <2>5. host # 0 /\ LastDump /\ host \notin unread /\ "state" \in stale => result = host \/ PendingBit(host, queue, "VolatileState")
    BY <2>2, <1>11 DEF DBSync, Fresh
  <2> QED BY <2>1, <2>3, <2>4, <2>5, <1>1, <1>12 DEF Fresh
<1>20. Earlier' BY <1>1, <1>11, <1>12, <1>15, <1>a DEF DBSync, Earlier, Present
<1> QED BY <1>13, <1>14, <1>17, <1>18, <1>19, <1>20 DEF DBSync

\* The specification's set of what is deleted by the items behind
LEMMA DeletedBehindRelated ==
  ASSUME NEW q \in Seq(Items), NEW e \in Groups \cup DependencyEntries, e \notin DeletedBehind(q, 0), NEW h
  PROVE  ~DeletedIn(h, q, e)
<1> SUFFICES ASSUME NEW n \in DOMAIN q, e \in D(h, q[n]) PROVE FALSE BY DEF DeletedIn
<1>1. e \notin {"config", "nextUpdate"} BY DEF DependencyEntries
<1>2. q[n].kind = "relations" /\ e \in q[n].what BY <1>1 DEF D
<1>3. n > 0 BY ElementOfSeq
<1> QED BY <1>2, <1>3 DEF DeletedBehind

\* What the worker takes out of the queue it does, whether it has made queries of it or not.
LEMMA WorkerReadKeeps == DBInv /\ WorkerRead => DBInv'
<1> SUFFICES ASSUME DBInv, WorkerRead PROVE DBInv' OBVIOUS
<1> DEFINE w == W(host, groups, depGroup, item)
           dl == D(host, item)
<1>0. Writes(item) = w /\ Deletes(item) = dl BY Operators
<1>1. /\ UNCHANGED <<host, hosts, groups, depGroup, depGroups, result, identified, late, connected, reconnected,
                     dump, unread, reading, dumped, queue, redis, unsent, overtaken, leftover>>
      /\ item.kind \notin {"none", "queries"}
      /\ item' = Queries(dl, w)
      /\ serializing' = IF w \cap {"edge", "edgeState"} = {} THEN 0 ELSE depGroup
      /\ stale' = IF item.kind # "config" THEN stale
                  ELSE IF item.key = host THEN stale \ w ELSE stale \cup (w \cap {"config", "state"})
  BY <1>0 DEF WorkerRead, objectVars, connVars, dumpVars
<1>2. dump = "done" /\ ItemOK(hosts, depGroups, item)
  <2>1. item # NoItem BY <1>1, NoItemDoes
  <2> QED BY <2>1 DEF DBInv, DBTypes
<1>3. item'.kind = "queries" /\ item'.deletes = dl /\ item'.what = w BY <1>1 DEF Queries
<1> HIDE DEF w, dl
<1>4. ItemOK(hosts, depGroups, item') BY <1>3 DEF ItemOK
<1>5. w = {} \/ dl \subseteq {"config", "nextUpdate"}
  <2>1. CASE item.kind = "relations" BY <2>1 DEF w, W
  <2>2. CASE item.kind # "relations" BY <2>2 DEF dl, D
  <2> QED BY <2>1, <2>2
<1>6. DBTypes'
  <2>1. serializing' \in 0..depGroups BY <1>1 DEF DBInv, DBTypes
  <2> QED BY <2>1, <1>1, <1>2, <1>3, <1>4, <1>5 DEF DBInv, DBTypes
<1>7. SUFFICES ASSUME DBClean' PROVE DBSync' BY <1>6 DEF DBInv
<1>8. DBSync BY <1>1, <1>7 DEF DBClean, DBInv
<1>9. LastDump /\ LastDump' /\ Base = redis /\ Base' = redis /\ Present = redis /\ Present' = redis
  BY <1>1, <1>2 DEF LastDump, Base, Present
<1>10. /\ TakenW(host, groups, depGroup, item) = w /\ TakenD(host, item) = dl
       /\ TakenW(host, groups, depGroup, item') = w /\ TakenD(host, item') = dl
  BY <1>1, <1>3 DEF TakenW, TakenD, w, dl
<1>11. OfTheirTime(host', queue') /\ HostLast(host', queue') BY <1>1, <1>8 DEF DBSync
<1>12. \A e : Deleted(host, item', queue, e) <=> Deleted(host, item, queue, e) BY <1>10 DEF Deleted
<1>13. Sound' BY <1>1, <1>8, <1>9, <1>10, <1>12 DEF DBSync, Sound
<1>14. Complete'
  <2> SUFFICES ASSUME NEW e \in Wanted(host, groups, depGroup), e \notin overtaken
               PROVE  Kept(host, groups, depGroup, redis, item', queue, e)
    BY <1>1, <1>9 DEF Complete
  <2>1. Kept(host, groups, depGroup, redis, item, queue, e) BY <1>8, <1>9 DEF DBSync, Complete
  <2> QED BY <2>1, <1>10, <1>12 DEF Kept, WrittenLast
<1>15. Fresh'
  <2> SUFFICES ASSUME host # 0, host \notin unread
               PROVE  /\ "config" \in stale' => PendingBit(host, queue, "ConfigUpdate")
                      /\ "state" \in stale' => result = host \/ PendingBit(host, queue, "VolatileState")
    BY <1>1, <1>3 DEF Fresh
  <2>1. /\ "config" \in stale => HasBit(host, item, "ConfigUpdate") \/ PendingBit(host, queue, "ConfigUpdate")
        /\ "state" \in stale => \/ result = host
                                \/ HasBit(host, item, "VolatileState") \/ PendingBit(host, queue, "VolatileState")
        /\ item.kind = "config" /\ item.key \notin {0, host} =>
              \A bit \in item.what \cap {"ConfigUpdate", "VolatileState"} : PendingBit(host, queue, bit)
    BY <1>8, <1>9 DEF DBSync, Fresh
  <2>2. CASE item.kind # "config" BY <2>1, <2>2, <1>1 DEF HasBit
  <2>3. CASE item.kind = "config" /\ item.key = host
    <3>1. "ConfigUpdate" \in item.what => "config" \in w BY <2>3 DEF W, w
    <3>2. "VolatileState" \in item.what => "state" \in w BY <2>3 DEF W, w
    <3> QED BY <3>1, <3>2, <2>1, <2>3, <1>1 DEF HasBit
  <2>4. CASE item.kind = "config" /\ item.key = 0
    <3>1. w \cap {"config", "state"} = {} BY <2>4 DEF W, Related, w
    <3> QED BY <3>1, <2>1, <2>4, <1>1 DEF HasBit
  <2>5. CASE item.kind = "config" /\ item.key \notin {0, host}
    <3>0. hosts \in 0..MaxObjects /\ MaxObjects \in Nat BY DEF DBInv, DBTypes
    <3>1. item.key \in 0..hosts /\ item.key # 0 BY <2>5, <1>2 DEF ItemOK
    <3>2. item.key \in Hosts BY <3>0, <3>1 DEF Hosts
    <3>3. groups[item.key] \subseteq Groups BY <3>2 DEF DBInv, DBTypes
    <3>4. "config" \in w => "ConfigUpdate" \in item.what BY <3>3, <2>5 DEF W, Related, w
    <3>5. "state" \in w => "VolatileState" \in item.what BY <3>3, <2>5 DEF W, Related, w
    <3> QED BY <3>4, <3>5, <2>1, <2>5, <1>1 DEF HasBit
  <2> QED BY <2>2, <2>3, <2>4, <2>5
<1>16. Earlier'
  <2> SUFFICES ASSUME depGroup # 0, depGroup \notin identified
               PROVE  /\ \A e \in redis \cap {"edge", "edgeState"} : e \in leftover \/ Deleted(host, item', queue, e)
                      /\ serializing' # depGroup =>
                            \A e \in w \cap {"edge", "edgeState"} : e \in leftover \/ DeletedIn(host, queue, e)
    BY <1>1, <1>3, <1>9 DEF Earlier
  <2>1. dump # "listed" BY <1>2
  <2>2. \A e \in redis \cap {"edge", "edgeState"} : e \in leftover \/ Deleted(host, item, queue, e)
    BY <2>1, <1>8, <1>9 DEF DBSync, Earlier
  <2> QED BY <2>2, <1>1, <1>12
<1> QED BY <1>11, <1>13, <1>14, <1>15, <1>16 DEF DBSync

LEMMA WorkerSerializeKeeps == DBInv /\ WorkerSerialize => DBInv'
<1> SUFFICES ASSUME DBInv, WorkerSerialize PROVE DBInv' OBVIOUS
<1>1. /\ UNCHANGED <<host, hosts, groups, depGroup, depGroups, result, late, connected, reconnected, dump, unread,
                     reading, dumped, queue, item, redis, stale, unsent, overtaken, leftover>>
      /\ item.kind = "queries" /\ serializing' = 0
      /\ identified' = identified \cup ({serializing} \ {0})
  BY DEF WorkerSerialize, Serialized, objectVars, connVars, dumpVars
<1>2. DBTypes'
  <2>1. 0 \in 0..depGroups BY DEF DBInv, DBTypes
  <2> QED BY <2>1, <1>1 DEF DBInv, DBTypes
<1>3. SUFFICES ASSUME DBClean' PROVE DBSync' BY <1>2 DEF DBInv
<1>4. DBSync BY <1>1, <1>3 DEF DBClean, DBInv
<1>5. (LastDump' <=> LastDump) /\ Base' = Base /\ Present' = Present
  BY <1>1 DEF LastDump, Base, ToRead, Present
<1>6. OfTheirTime(host', queue') /\ HostLast(host', queue') BY <1>1, <1>4 DEF DBSync
<1>7. Sound' BY <1>1, <1>4, <1>5 DEF DBSync, Sound
<1>8. Complete' BY <1>1, <1>4, <1>5 DEF DBSync, Complete
<1>9. Fresh' BY <1>1, <1>4, <1>5 DEF DBSync, Fresh
<1>10. Earlier' BY <1>1, <1>4, <1>5 DEF DBSync, Earlier
<1> QED BY <1>6, <1>7, <1>8, <1>9, <1>10 DEF DBSync

LEMMA WorkerSendKeeps == DBInv /\ WorkerSend => DBInv'
<1> SUFFICES ASSUME DBInv, WorkerSend PROVE DBInv' OBVIOUS
<1> DEFINE w == item.what
           dl == item.deletes
<1>1. /\ UNCHANGED <<host, hosts, groups, depGroup, depGroups, result, identified, late, connected, reconnected, dump,
                     unread, reading, dumped, serializing, queue, stale>>
      /\ item.kind = "queries" /\ serializing = 0 /\ item' = NoItem
  BY DEF WorkerSend, objectVars, connVars, dumpVars
<1>2. dump = "done"
  <2>1. item # NoItem BY <1>1, NoItemDoes
  <2> QED BY <2>1 DEF DBInv, DBTypes
<1>a. ItemOK(hosts, depGroups, item') /\ item'.kind = "none" BY <1>1, NoItemDoes
<1>3. CASE ~connected
  <2>1. unsent' = TRUE /\ UNCHANGED <<redis, overtaken, leftover>>
    BY <1>3 DEF WorkerSend
  <2>2. DBTypes' BY <1>1, <1>a, <2>1 DEF DBInv, DBTypes
  <2>3. ~DBClean' BY <2>1 DEF DBClean
  <2> QED BY <2>2, <2>3 DEF DBInv
<1>4. CASE connected
  <2>1. /\ redis' = (redis \ dl) \cup w
        /\ overtaken' = overtaken \ (w \ DeletedBehind(queue, 0))
        /\ leftover' = leftover \ dl /\ unsent' = unsent
    BY <1>4 DEF WorkerSend
  <2>2. DBTypes' BY <1>1, <1>a, <2>1 DEF DBInv, DBTypes
  <2>3. SUFFICES ASSUME DBClean' PROVE DBSync' BY <2>2 DEF DBInv
  <2>4. DBSync BY <1>1, <2>1, <2>3 DEF DBClean, DBInv
  <2>5. LastDump /\ LastDump' /\ Base = redis /\ Base' = redis' /\ Present = redis /\ Present' = redis'
    BY <1>1, <1>2 DEF LastDump, Base, Present
  <2>6. \A e : Deleted(host', item', queue', e) <=> DeletedIn(host, queue, e)
    BY <1>1, NoItemDoes DEF Deleted
  <2>7. OfTheirTime(host', queue') /\ HostLast(host', queue') BY <1>1, <2>4 DEF DBSync
  <2>a. TakenW(host, groups, depGroup, item) = w /\ TakenD(host, item) = dl
    BY <1>1 DEF TakenW, TakenD
  <2>b. \A e \in w : e \in leftover => e \in leftover'
    <3>1. w = {} \/ dl \subseteq {"config", "nextUpdate"} BY <1>1 DEF DBInv, DBTypes
    <3>2. leftover \subseteq {"parentNode", "edge", "edgeState"} BY DEF DBInv, DBTypes
    <3> HIDE DEF w, dl
    <3> QED BY <3>1, <3>2, <2>1
  <2> HIDE DEF w, dl
  <2>8. Sound'
    <3>1. TakenW(host', groups', depGroup', item') = {} BY <1>1, NoItemDoes
    <3>2. ASSUME NEW e \in redis' PROVE e \in Wanted(host, groups, depGroup) \cup leftover' \/ DeletedIn(host, queue, e)
      <4>1. CASE e \in w BY <4>1, <2>4, <2>a, <2>b DEF DBSync, Sound
      <4>2. CASE e \in redis /\ e \notin dl
        <5>1. e \in Wanted(host, groups, depGroup) \cup leftover \/ Deleted(host, item, queue, e)
          BY <4>2, <2>4, <2>5 DEF DBSync, Sound
        <5> QED BY <5>1, <4>2, <2>1, <2>a DEF Deleted
      <4> QED BY <4>1, <4>2, <2>1
    <3> QED BY <3>1, <3>2, <2>5, <2>6, <1>1 DEF Sound
  <2>9. Complete'
    <3> SUFFICES ASSUME NEW e \in Wanted(host, groups, depGroup), e \notin overtaken'
                 PROVE  Kept(host, groups, depGroup, redis', item', queue, e)
      BY <2>5, <1>1 DEF Complete
    <3>0. TakenD(host, item') = {} BY <1>1, NoItemDoes
    <3>1. CASE e \in overtaken
      <4>1. e \in w /\ e \notin DeletedBehind(queue, 0) BY <3>1, <2>1
      <4>2. e \in Groups \cup DependencyEntries BY <3>1 DEF DBInv, DBTypes
      <4>3. ~DeletedIn(host, queue, e) BY <4>1, <4>2, DeletedBehindRelated DEF DBInv, DBTypes, QueueOK
      <4> QED BY <4>1, <4>3, <3>0, <2>1 DEF Kept, Deleted
    <3>2. CASE e \notin overtaken
      <4>1. Kept(host, groups, depGroup, redis, item, queue, e)
        BY <3>2, <2>4, <2>5 DEF DBSync, Complete
      <4>2. CASE e \in redis /\ ~Deleted(host, item, queue, e)
        BY <4>2, <3>0, <2>1, <2>a DEF Kept, Deleted
      <4>3. CASE e \in w /\ ~DeletedIn(host, queue, e)
        BY <4>3, <3>0, <2>1 DEF Kept, Deleted
      <4>4. CASE \E n \in DOMAIN queue : /\ e \in W(host, groups, depGroup, queue[n])
                                         /\ \A m \in DOMAIN queue : m > n => e \notin D(host, queue[m])
        BY <4>4 DEF Kept, WrittenLast
      <4> QED BY <4>1, <4>2, <4>3, <4>4, <2>a DEF Kept, WrittenLast
    <3> QED BY <3>1, <3>2
  <2>10. Fresh'
    <3>1. \A bit : ~HasBit(host, item, bit) BY <1>1 DEF HasBit
    <3> QED BY <3>1, <1>1, <1>a, <2>4, <2>5 DEF DBSync, Fresh
  <2>11. Earlier'
    <3> SUFFICES ASSUME depGroup # 0, depGroup \notin identified, NEW e \in redis' \cap {"edge", "edgeState"}
                 PROVE  e \in leftover' \/ DeletedIn(host, queue, e)
      BY <2>5, <2>6, <1>1, <1>a DEF Earlier
    <3>1. serializing # depGroup /\ dump # "listed" BY <1>1, <1>2
    <3>2. CASE e \in w
      <4>1. e \in leftover \/ DeletedIn(host, queue, e) BY <3>1, <3>2, <2>4, <2>5, <1>1 DEF DBSync, Earlier, w
      <4> QED BY <4>1, <3>2, <2>b
    <3>3. CASE e \in redis /\ e \notin dl
      <4>1. e \in leftover \/ Deleted(host, item, queue, e) BY <3>1, <3>3, <2>4, <2>5 DEF DBSync, Earlier
      <4> QED BY <4>1, <3>3, <2>1, <2>a DEF Deleted
    <3> QED BY <3>2, <3>3, <2>1
  <2> QED BY <2>7, <2>8, <2>9, <2>10, <2>11 DEF DBSync
<1> QED BY <1>3, <1>4

-----------------------------------------------------------------------------
(* The handlers                                                              *)

\* Items that are about the host there is, its parent or relations
Current(h, items) ==
    \A m \in DOMAIN items : items[m].kind = "config" =>
        items[m].key \in {0, h} /\ "ConfigDelete" \notin items[m].what

\* They leave the queue in order, and what it does is still done.
LEMMA CurrentStays ==
  ASSUME NEW q \in Seq(Items), NEW items, Compatible(items), NEW r, Extends(q, items, Len(items), r),
         NEW h, OfTheirTime(h, q), HostLast(h, q), Current(h, items)
  PROVE  /\ OfTheirTime(h, r) /\ HostLast(h, r)
         /\ NoRevival(q, items) /\ NoDeletion(items)
         /\ \A bit : PendingBit(h, q, bit) => PendingBit(h, r, bit)
         /\ \A e : DeletedIn(h, q, e) => DeletedIn(h, r, e)
<1>0. /\ DOMAIN items = 1..Len(items) /\ Len(q) \in Nat /\ DOMAIN q = 1..Len(q)
      /\ r \in Seq(Items) /\ Len(r) \in Nat /\ DOMAIN r = 1..Len(r) /\ Len(q) <= Len(r) /\ Unique(r)
  BY DEF Compatible, Extends
<1>1. DOMAIN q \subseteq DOMAIN r /\ \A m \in DOMAIN q, n \in DOMAIN r : n \notin DOMAIN q => n > m
  BY <1>0
<1>2. \A n \in DOMAIN q : Same(r[n], q[n]) BY DEF Extends
<1>3. \A n \in DOMAIN r : n \notin DOMAIN q => \E m \in DOMAIN items : Same(r[n], items[m])
  BY <1>0 DEF Extends
<1>4. \A n \in DOMAIN r : \A bit \in r[n].what :
          \/ n \in DOMAIN q /\ bit \in q[n].what
          \/ \E m \in DOMAIN items : Same(r[n], items[m]) /\ bit \in items[m].what
  BY <1>0 DEF Extends
<1>5. NoDeletion(items) BY DEF NoDeletion, Current
<1>6. NoRevival(q, items)
  BY DEF NoRevival, Current, OfTheirTime, Same
<1>7. OfTheirTime(h, r)
  <2> SUFFICES ASSUME NEW n \in DOMAIN r, r[n].kind = "config"
               PROVE  /\ r[n].key \notin {0, h} => r[n].what \subseteq {"ConfigDelete", "NextUpdate"}
                      /\ r[n].key \in {0, h} => "ConfigDelete" \notin r[n].what
    BY DEF OfTheirTime
  <2>1. ASSUME r[n].key \notin {0, h} PROVE r[n].what \subseteq {"ConfigDelete", "NextUpdate"}
    <3>1. \A m \in DOMAIN items : ~Same(r[n], items[m]) BY <2>1 DEF Current, Same
    <3>2. n \in DOMAIN q /\ r[n].what \subseteq q[n].what BY <3>1, <1>3, <1>4
    <3> QED BY <3>2, <2>1, <1>2 DEF OfTheirTime, Same
  <2>2. ASSUME r[n].key \in {0, h} PROVE "ConfigDelete" \notin r[n].what
    BY <2>2, <1>2, <1>4 DEF OfTheirTime, Same, Current
  <2> QED BY <2>1, <2>2
<1>8. HostLast(h, r)
  <2> SUFFICES ASSUME NEW m \in DOMAIN r, NEW n \in DOMAIN r,
                      r[m].kind = "config", r[m].key # 0, r[m].key = h, r[n].kind = "config", n > m
               PROVE  r[n].key = 0
    BY DEF HostLast
  <2>1. m # n BY <1>0
  <2>2. r[n].key # h BY <2>1, <1>0 DEF Unique, Same
  <2>3. CASE n \in DOMAIN q
    <3>1. m \in DOMAIN q BY <2>3, <1>0
    <3> QED BY <3>1, <2>3, <1>2 DEF HostLast, Same
  <2>4. CASE n \notin DOMAIN q BY <2>2, <2>4, <1>3 DEF Current, Same
  <2> QED BY <2>3, <2>4
<1>9. \A e : DeletedIn(h, q, e) => DeletedIn(h, r, e) BY <1>6, DeletedInStays
<1>10. ASSUME NEW bit, PendingBit(h, q, bit) PROVE PendingBit(h, r, bit)
  <2>1. PICK n \in DOMAIN q : q[n].kind = "config" /\ q[n].key = h /\ bit \in q[n].what
    BY <1>10 DEF PendingBit, HasBit
  <2>a. \/ bit \in r[n].what
        \/ \E m \in DOMAIN items : Same(q[n], items[m]) /\ items[m].kind = "config" /\ Cancels(items[m], bit)
    BY <2>1, <1>0 DEF Extends
  <2>2. bit \in r[n].what
    BY <2>1, <2>a, <1>5, <1>6 DEF NoDeletion, NoRevival, Cancels
  <2> QED BY <2>1, <2>2, <1>1, <1>2 DEF PendingBit, HasBit, Same
<1> QED BY <1>5, <1>6, <1>7, <1>8, <1>9, <1>10

\* More is there and more is written.
LEMMA KeptMore ==
  ASSUME NEW h, NEW g, NEW d, NEW base, NEW it, NEW q, NEW e, Kept(h, g, d, base, it, q, e),
         NEW gg, NEW dd, NEW base2, e \in base => e \in base2,
         e \in TakenW(h, g, d, it) => e \in TakenW(h, gg, dd, it),
         \A n \in DOMAIN q : e \in W(h, g, d, q[n]) => e \in W(h, gg, dd, q[n])
  PROVE  Kept(h, gg, dd, base2, it, q, e)
BY DEF Kept, WrittenLast

\* What is pending for an entry that is written by a new item
LEMMA NewWritten ==
  ASSUME NEW q \in Seq(Items), NEW items, Compatible(items), NEW r, Extends(q, items, Len(items), r),
         NEW h, NEW g, NEW d, NEW m \in DOMAIN items, items[m].kind = "config"
  PROVE  \E n \in DOMAIN r : /\ Same(r[n], items[m])
                             /\ W(h, g, d, items[m]) \subseteq W(h, g, d, r[n])
                             /\ items[m].what \subseteq r[n].what
<1>0. DOMAIN items = 1..Len(items) BY DEF Compatible
<1>1. PICK n \in DOMAIN r : Same(r[n], items[m]) /\ items[m].what \subseteq r[n].what
  BY <1>0 DEF Extends
<1>2. Same(items[m], r[n]) BY <1>1 DEF Same
<1> QED BY <1>1, <1>2, WritesMore

LEMMA NewCheckResultKeeps == DBInv /\ NewCheckResultHandler => DBInv'
<1> SUFFICES ASSUME DBInv, NewCheckResultHandler PROVE DBInv' OBVIOUS
<1> DEFINE x == ConfigItem(result, {"VolatileState", "NextUpdate"})
           y == ConfigItem(result, {"VolatileState"})
           items == <<x, y>>
<1>0. hosts \in Nat /\ depGroups \in Nat /\ result \in 0..hosts /\ result # 0 /\ result \in Nat
  BY DEF NewCheckResultHandler, DBInv, DBTypes
<1>1. /\ result' = 0 /\ late' = (late \/ (connected /\ result # host)) /\ Post(queue, items)
      /\ UNCHANGED <<host, hosts, groups, depGroup, depGroups, identified, connected, reconnected, dump,
                     unread, reading, dumped, serializing, item, redis, stale, leftover>>
  BY DEF NewCheckResultHandler, handlerVars, connVars, dumpVars
<1>2. /\ x \in Items /\ x.kind = "config" /\ x.key = result /\ x.what = {"VolatileState", "NextUpdate"}
      /\ y \in Items /\ y.kind = "config" /\ y.key = result /\ y.what = {"VolatileState"}
  BY <1>0, ConfigItems DEF Bits
<1>3. ItemOK(hosts, depGroups, x) /\ ItemOK(hosts, depGroups, y) BY <1>0, <1>2 DEF ItemOK, Bits
<1>4. items \in Seq(Items) /\ DOMAIN items = {1, 2} /\ items[1] = x /\ items[2] = y /\ Len(items) = 2
  BY <1>2
<1> HIDE DEF x, y, items
<1>5. Compatible(items) BY <1>2, <1>4 DEF Compatible
<1>6. QueueOK(hosts, depGroups, queue) /\ queue \in Seq(Items) /\ Unique(queue)
  BY DEF DBInv, DBTypes, QueueOK
<1>b. late' \in BOOLEAN BY <1>1
<1>7. CASE ~connected
  <2>1. unsent' = TRUE /\ queue' = queue /\ overtaken' = overtaken BY <1>1, <1>7 DEF Post
  <2>2. DBTypes' BY <1>0, <1>1, <1>b, <2>1 DEF DBInv, DBTypes
  <2>3. ~DBClean' BY <2>1 DEF DBClean
  <2> QED BY <2>2, <2>3 DEF DBInv
<1>8. CASE connected
  <2>1. /\ queue' = EnqueueAll(queue, items) /\ unsent' = unsent
        /\ overtaken' = overtaken \cup Overtakes(queue', items)
    BY <1>1, <1>8 DEF Post
  <2>b. overtaken' \subseteq Groups \cup DependencyEntries
    <3>1. hosts' \in 0..MaxObjects /\ groups' \in [Hosts -> SUBSET Groups] /\ hosts' = hosts
      BY <1>1 DEF DBInv, DBTypes
    <3>2. Overtakes(queue', items) \subseteq Groups \cup DependencyEntries
      BY <3>1, <1>3, <1>4, OvertakesRelated
    <3> QED BY <3>2, <2>1 DEF DBInv, DBTypes
  <2>2. Extends(queue, items, Len(items), queue') BY <2>1, <1>5, <1>6, ExtendsAll
  <2>3. QueueOK(hosts, depGroups, queue') BY <2>2, <1>0, <1>3, <1>4, <1>5, <1>6, QueueOKStays
  <2>4. DBTypes' BY <1>0, <1>1, <1>b, <2>1, <2>3, <2>b DEF DBInv, DBTypes
  <2>5. SUFFICES ASSUME DBClean' PROVE DBSync' BY <2>4 DEF DBInv
  <2>6. DBSync /\ result = host BY <1>1, <1>8, <2>1, <2>5 DEF DBClean, DBInv
  <2>7. Current(host, items) BY <2>6, <1>2, <1>4 DEF Current
  <2>8. /\ OfTheirTime(host, queue') /\ HostLast(host, queue')
        /\ NoRevival(queue, items) /\ NoDeletion(items)
        /\ \A bit : PendingBit(host, queue, bit) => PendingBit(host, queue', bit)
        /\ \A e : DeletedIn(host, queue, e) => DeletedIn(host, queue', e)
    BY <2>2, <2>6, <2>7, <1>5, <1>6, CurrentStays DEF DBSync
  <2>9. \A m \in DOMAIN items : D(host, items[m]) = {} BY <2>6, <1>2, <1>4 DEF D
  <2>10. (LastDump' <=> LastDump) /\ Base' = Base /\ leftover' = leftover
    BY <1>1 DEF LastDump, Base, ToRead
  <2>11. Sound' BY <2>6, <2>8, <2>10, <1>1 DEF DBSync, Sound, Deleted
  <2>12. Complete'
    <3> SUFFICES ASSUME NEW e \in Wanted(host, groups, depGroup), e \notin overtaken
                 PROVE  Kept(host, groups, depGroup, Base, item, queue', e)
      BY <1>1, <2>1, <2>10 DEF Complete
    <3>1. Kept(host, groups, depGroup, Base, item, queue, e) BY <2>6 DEF DBSync, Complete
    <3> QED BY <3>1, <2>2, <2>8, <2>9, <1>5, <1>6, KeptStays
  <2>13. Fresh'
    <3>1. PendingBit(host, queue', "VolatileState")
      <4>1. items[2].kind = "config" /\ 2 \in DOMAIN items BY <1>2, <1>4
      <4>2. PICK n \in DOMAIN queue' : Same(queue'[n], items[2]) /\ items[2].what \subseteq queue'[n].what
        BY <4>1, <2>2, <1>5, <1>6, NewWritten
      <4> QED BY <4>2, <1>2, <1>4, <2>6 DEF PendingBit, HasBit, Same
    <3> QED BY <3>1, <2>6, <2>8, <2>10, <1>1 DEF DBSync, Fresh
  <2>14. Earlier' BY <2>6, <2>8, <2>10, <1>1 DEF DBSync, Earlier, Present, Deleted
  <2> QED BY <2>8, <2>11, <2>12, <2>13, <2>14, <1>1 DEF DBSync
<1> QED BY <1>7, <1>8

\* The time of the next update: items about hosts that are gone are not behind the host's.
LEMMA NextUpdateKept ==
  ASSUME NEW hs \in Nat, NEW ds \in Nat, NEW h \in Nat \ {0}, NEW g, NEW d, NEW r, QueueOK(hs, ds, r),
         HostLast(h, r), PendingBit(h, r, "NextUpdate"), NEW base
  PROVE  Kept(h, g, d, base, NoItem, r, "nextUpdate")
<1>1. PICK n \in DOMAIN r : r[n].kind = "config" /\ r[n].key = h /\ "NextUpdate" \in r[n].what
  BY DEF PendingBit, HasBit
<1>2. "nextUpdate" \in W(h, g, d, r[n]) BY <1>1, HostUpdateWrites
<1>3. ASSUME NEW m \in DOMAIN r, m > n, "nextUpdate" \in D(h, r[m]) PROVE FALSE
  <2>1. ItemOK(hs, ds, r[m]) BY DEF QueueOK
  <2>2. CASE r[m].kind = "config"
    <3>1. r[m].key = 0 BY <2>2, <1>1, <1>3 DEF HostLast
    <3> QED BY <3>1, <2>1, <2>2, <1>3 DEF D, ItemOK
  <2>3. CASE r[m].kind = "relations"
    BY <2>1, <2>3, <1>3 DEF D, ItemOK, EntriesOf, RelationIds
  <2>4. CASE r[m].kind \notin {"config", "relations"} BY <2>4, <1>3 DEF D
  <2> QED BY <2>2, <2>3, <2>4
<1> QED BY <1>2, <1>3 DEF Kept, WrittenLast

\* A dump that lists the objects is going to read all there is.
LEMMA DumpListKeeps == DBInv /\ DumpList => DBInv'
<1> SUFFICES ASSUME DBInv, DumpList PROVE DBInv' OBVIOUS
<1> DEFINE A == Wanted(host, groups, depGroup)
<1>0. hosts \in Nat /\ host \in 0..hosts /\ 0 \in 0..hosts /\ (host = 0 => depGroup = 0)
  BY DEF DBInv, DBTypes
<1>1. /\ dump = "begun" /\ dump' = "listed" /\ unread' = {0, host}
      /\ unsent' = (unsent /\ queue # <<>>)
      /\ UNCHANGED <<host, hosts, groups, depGroup, depGroups, result, identified, connected, reconnected,
                     reading, dumped, serializing, queue, item, redis, stale, late, overtaken, leftover>>
  BY DEF DumpList, objectVars, connVars, ParentHost
<1>2. item = NoItem /\ reading = 0 /\ dumped = {} BY <1>1 DEF DBInv, DBTypes
<1>3. item.kind = "none" BY <1>2, NoItemDoes
<1>4. DBTypes'
  <2>1. unsent' \in BOOLEAN BY <1>1
  <2>2. unread' \subseteq 0..hosts BY <1>0, <1>1
  <2> QED BY <2>1, <2>2, <1>1, <1>2 DEF DBInv, DBTypes
<1>5. SUFFICES ASSUME DBClean' PROVE DBSync' BY <1>4 DEF DBInv
<1>6. (unsent => queue = <<>>) /\ ~late BY <1>1, <1>5 DEF DBClean, DBInv, DBTypes
<1>7. Base' = A
  <2>1. host = 0 => A = {} BY <1>0 DEF Wanted
  <2>2. dumped' \cup ToRead' = A BY <2>1, <1>1, <1>2 DEF ToRead
  <2> QED BY <2>2, <1>1 DEF Base
<1> HIDE DEF A
\* What was enqueued before, if anything, is in order.
<1>8. /\ OfTheirTime(host, queue) /\ HostLast(host, queue)
      /\ \A e \in A \ overtaken : Kept(host, groups, depGroup, A, item, queue, e)
  <2>1. CASE unsent
    <3>1. DOMAIN queue = {} BY <2>1, <1>6
    <3>2. \A e \in A : Kept(host, groups, depGroup, A, item, queue, e)
      BY <3>1, <1>2, NoItemDoes DEF Kept, Deleted, DeletedIn
    <3> QED BY <3>1, <3>2 DEF OfTheirTime, HostLast
  <2>2. CASE ~unsent
    <3>1. DBSync BY <2>2, <1>6 DEF DBInv, DBClean
    <3>2. Base = A BY <1>1 DEF Base, LastDump, A
    <3> QED BY <3>1, <3>2 DEF DBSync, Complete, A
  <2> QED BY <2>1, <2>2
<1>9. Sound' BY <1>1, <1>2, <1>7, NoItemDoes DEF Sound, A
<1>10. Complete' BY <1>1, <1>7, <1>8 DEF Complete, A
<1>11. Fresh' BY <1>1, <1>3 DEF Fresh
<1>12. Earlier' BY <1>1, <1>2, <1>3 DEF Earlier, Present
<1> QED BY <1>1, <1>8, <1>9, <1>10, <1>11, <1>12 DEF DBSync

\* Reading an object does not change what the dump has read in the end.
LEMMA DumpReadKeeps ==
  ASSUME DBInv, dump = "listed", Base' = Base,
         UNCHANGED <<host, hosts, groups, depGroup, depGroups, result, identified, connected, reconnected, dump,
                     queue, item, redis, unsent, late, overtaken, leftover>>,
         unread' \subseteq unread, reading' \in 0..hosts, serializing' \in 0..depGroups,
         serializing' # 0 => reading' # 0,
         stale' = {} \/ (stale' = stale /\ (host # 0 /\ host \in unread => host \in unread')),
         \/ serializing' = depGroup
         \/ serializing' = serializing /\ dumped' \cap {"edge", "edgeState"} = dumped \cap {"edge", "edgeState"}
  PROVE  DBInv'
<1>1. item = NoItem /\ item.kind = "none" BY NoItemDoes DEF DBInv, DBTypes
<1>2. DBTypes' BY <1>1 DEF DBInv, DBTypes
<1>3. SUFFICES ASSUME DBClean' PROVE DBSync' BY <1>2 DEF DBInv
<1>4. DBSync BY <1>3 DEF DBClean, DBInv
<1>5. LastDump' <=> LastDump BY DEF LastDump
<1>6. OfTheirTime(host', queue') /\ HostLast(host', queue') BY <1>4 DEF DBSync
<1>7. Sound' BY <1>4 DEF DBSync, Sound
<1>8. Complete' BY <1>4 DEF DBSync, Complete
<1>9. Fresh' BY <1>1, <1>4, <1>5 DEF DBSync, Fresh
<1>10. Earlier' BY <1>1, <1>4, <1>5 DEF DBSync, Earlier, Present
<1> QED BY <1>6, <1>7, <1>8, <1>9, <1>10 DEF DBSync

LEMMA DumpReadParentKeeps == DBInv /\ DumpReadParent => DBInv'
<1> SUFFICES ASSUME DBInv, DumpReadParent PROVE DBInv' OBVIOUS
<1>1. /\ dump = "listed" /\ 0 \in unread /\ unread' = unread \ {0}
      /\ dumped' = dumped \cup Related(host, groups, depGroup, 0)
      /\ UNCHANGED <<host, hosts, groups, depGroup, depGroups, result, identified, connected, reconnected, dump,
                     reading, serializing, queue, item, redis, stale, unsent, late, overtaken, leftover>>
  BY Operators DEF DumpReadParent, objectVars, connVars, ParentHost
<1>2. Related(host, groups, depGroup, 0) = Wanted(host, groups, depGroup) \cap {"parentNode"}
  <2>1. host # 0 => host \in Hosts BY DEF DBInv, DBTypes, Hosts
  <2>2. host # 0 => "parentNode" \notin groups[host] BY <2>1 DEF DBInv, DBTypes
  <2>3. depGroup # 0 => host # 0 BY DEF DBInv, DBTypes
  <2> QED BY <2>2, <2>3 DEF Related, Wanted, DependencyEntries
<1>3. dumped' \cup ToRead' = dumped \cup ToRead BY <1>1, <1>2 DEF ToRead
<1>4. Base' = Base BY <1>1, <1>3 DEF Base, LastDump
<1>5. dumped' \cap {"edge", "edgeState"} = dumped \cap {"edge", "edgeState"} BY <1>1, <1>2
<1>6. /\ reading \in 0..hosts /\ serializing \in 0..depGroups
      /\ serializing # 0 => reading # 0
  BY <1>1, NoItemDoes DEF DBInv, DBTypes
<1> QED BY <1>1, <1>4, <1>5, <1>6, DumpReadKeeps

LEMMA DumpReadHostKeeps ==
  ASSUME DBInv, NEW k \in Hosts, DumpReadHost(k)
  PROVE  DBInv'
<1>1. /\ dump = "listed" /\ k \in unread /\ k # 0 /\ unread' = unread \ {k}
      /\ UNCHANGED <<host, hosts, groups, depGroup, depGroups, result, identified, connected, reconnected, dump,
                     queue, item, redis, unsent, late, overtaken, leftover>>
  BY DEF DumpReadHost, objectVars, connVars, ParentHost
<1>2. /\ reading \in 0..hosts /\ serializing \in 0..depGroups /\ k \in 0..hosts /\ depGroup \in 0..depGroups
      /\ serializing # 0 => reading # 0
  BY <1>1, NoItemDoes DEF DBInv, DBTypes
<1>3. CASE k # host
  <2>1. UNCHANGED <<reading, dumped, serializing, stale>> BY <1>3 DEF DumpReadHost
  <2>2. Base' = Base BY <2>1, <1>1, <1>3 DEF Base, LastDump, ToRead
  <2> QED BY <2>1, <2>2, <1>1, <1>2, <1>3, DumpReadKeeps
<1>4. CASE k = host
  <2>1. /\ reading' = host /\ serializing' = depGroup /\ stale' = {}
        /\ dumped' = dumped \cup (Wanted(host, groups, depGroup) \ {"nextUpdate", "parentNode"})
    BY <1>4, Operators DEF DumpReadHost
  <2>2. "nextUpdate" \in Wanted(host, groups, depGroup) BY <1>1, <1>4 DEF Wanted
  <2>3. dumped' \cup ToRead' = dumped \cup ToRead BY <2>1, <2>2, <1>1, <1>4 DEF ToRead
  <2>4. Base' = Base BY <2>3, <1>1 DEF Base, LastDump
  <2> QED BY <2>1, <2>4, <1>1, <1>2, <1>4, DumpReadKeeps
<1> QED BY <1>3, <1>4

LEMMA DumpReadEndKeeps == DBInv /\ DumpReadEnd => DBInv'
<1> SUFFICES ASSUME DBInv, DumpReadEnd PROVE DBInv' OBVIOUS
<1> DEFINE x == ConfigItem(reading, {"NextUpdate"})
           items == <<x>>
<1>0. /\ hosts \in Nat /\ depGroups \in Nat /\ reading \in 0..hosts /\ reading # 0 /\ reading \in Nat
      /\ 0 \in 0..hosts /\ 0 \in 0..depGroups /\ dump = "listed" /\ item = NoItem
  BY DEF DumpReadEnd, DBInv, DBTypes
<1>1. /\ reading' = 0 /\ serializing' = 0 /\ identified' = identified \cup ({serializing} \ {0})
      /\ queue' = IF connected THEN Enqueue(queue, x) ELSE queue
      /\ late' = (late \/ (connected /\ reading # host))
      /\ UNCHANGED <<host, hosts, groups, depGroup, depGroups, result, connected, reconnected, dump, unread, dumped,
                     item, redis, stale, unsent, overtaken, leftover>>
  BY DEF DumpReadEnd, Serialized, objectVars, connVars
<1>2. x \in Items /\ x.kind = "config" /\ x.key = reading /\ x.what = {"NextUpdate"}
  BY <1>0, ConfigItems DEF Bits
<1>3. ItemOK(hosts, depGroups, x) BY <1>0, <1>2 DEF ItemOK, Bits
<1>4. items \in Seq(Items) /\ DOMAIN items = {1} /\ items[1] = x /\ Len(items) = 1 BY <1>2
<1>5. Compatible(items) BY <1>4 DEF Compatible
<1>6. QueueOK(hosts, depGroups, queue) /\ queue \in Seq(Items) /\ Unique(queue)
  BY DEF DBInv, DBTypes, QueueOK
<1>7. connected => Extends(queue, items, Len(items), queue')
  BY <1>1, <1>2, <1>4, <1>6, ExtendsOne
<1> HIDE DEF x, items
<1>8. QueueOK(hosts, depGroups, queue')
  <2>1. CASE connected BY <2>1, <1>0, <1>3, <1>4, <1>5, <1>6, <1>7, QueueOKStays
  <2>2. CASE ~connected BY <2>2, <1>1, <1>6
  <2> QED BY <2>1, <2>2
<1>9. DBTypes'
  <2>1. late' \in BOOLEAN BY <1>1
  <2> QED BY <2>1, <1>0, <1>1, <1>8 DEF DBInv, DBTypes
<1>10. SUFFICES ASSUME DBClean' PROVE DBSync' BY <1>9 DEF DBInv
<1>11. DBSync /\ (connected => reading = host) BY <1>1, <1>10 DEF DBClean, DBInv
<1>12. LastDump' <=> LastDump BY <1>1 DEF LastDump
<1>13. item.kind = "none" BY <1>0, NoItemDoes
<1>14. CASE ~connected
  <2>1. ~LastDump /\ ~LastDump' BY <1>0, <1>14, <1>12 DEF LastDump
  <2>2. Base' = Base BY <2>1, <1>1 DEF Base
  <2>3. queue' = queue BY <1>1, <1>14
  <2>4. Sound' BY <2>2, <2>3, <1>1, <1>11 DEF DBSync, Sound
  <2>5. Complete' BY <2>2, <2>3, <1>1, <1>11 DEF DBSync, Complete
  <2>6. Fresh' BY <2>1, <1>1, <1>13 DEF Fresh
  <2>7. Earlier' BY <2>1 DEF Earlier
  <2> QED BY <2>3, <2>4, <2>5, <2>6, <2>7, <1>1, <1>11 DEF DBSync
<1>15. CASE connected
  <2>0. reading = host /\ host # 0 /\ host \in Nat \ {0} BY <1>0, <1>11, <1>15
  <2>1. Extends(queue, items, Len(items), queue') BY <1>7, <1>15
  <2>2. Current(host, items) BY <2>0, <1>2, <1>4 DEF Current
  <2>3. /\ OfTheirTime(host, queue') /\ HostLast(host, queue')
        /\ NoRevival(queue, items) /\ NoDeletion(items)
        /\ \A bit : PendingBit(host, queue, bit) => PendingBit(host, queue', bit)
        /\ \A e : DeletedIn(host, queue, e) => DeletedIn(host, queue', e)
    BY <2>1, <2>2, <1>5, <1>6, <1>11, CurrentStays DEF DBSync
  <2>4. \A m \in DOMAIN items : D(host, items[m]) = {} BY <2>0, <1>2, <1>4 DEF D
  <2>5. Base' \subseteq Base /\ \A e \in Base : e = "nextUpdate" \/ e \in Base'
    <3>1. ToRead' \subseteq ToRead /\ \A e \in ToRead : e = "nextUpdate" \/ e \in ToRead'
      BY <2>0, <1>1 DEF ToRead
    <3> QED BY <3>1, <1>1, <1>12 DEF Base
  <2>6. Sound' BY <2>3, <2>5, <1>1, <1>11 DEF DBSync, Sound, Deleted
  <2>7. Complete'
    <3> SUFFICES ASSUME NEW e \in Wanted(host, groups, depGroup), e \notin overtaken
                 PROVE  Kept(host, groups, depGroup, Base', item, queue', e)
      BY <1>1 DEF Complete
    <3>1. CASE e = "nextUpdate"
      <4>1. items[1].kind = "config" /\ 1 \in DOMAIN items BY <1>2, <1>4
      <4>2. PICK n \in DOMAIN queue' : Same(queue'[n], items[1]) /\ items[1].what \subseteq queue'[n].what
        BY <4>1, <2>1, <1>5, <1>6, NewWritten
      <4>3. PendingBit(host, queue', "NextUpdate") BY <4>2, <2>0, <1>2, <1>4 DEF PendingBit, HasBit, Same
      <4> QED BY <4>3, <3>1, <2>0, <2>3, <1>0, <1>8, NextUpdateKept
    <3>2. CASE e # "nextUpdate"
      <4>1. Kept(host, groups, depGroup, Base, item, queue, e) BY <1>11 DEF DBSync, Complete
      <4>2. Kept(host, groups, depGroup, Base', item, queue, e) BY <4>1, <3>2, <2>5 DEF Kept
      <4> QED BY <4>2, <2>1, <2>3, <2>4, <1>5, <1>6, KeptStays
    <3> QED BY <3>1, <3>2
  <2>8. Fresh' BY <2>3, <1>1, <1>11, <1>12, <1>13 DEF DBSync, Fresh
  <2>9. Earlier'
    <3> SUFFICES ASSUME LastDump, depGroup # 0, depGroup \notin identified', NEW e \in dumped \cap {"edge", "edgeState"}
                 PROVE  e \in leftover \/ Deleted(host, item, queue', e)
      BY <1>0, <1>1, <1>12, <1>13 DEF Earlier, Present
    <3>1. depGroup \notin identified /\ serializing # depGroup BY <1>1
    <3>2. e \in leftover \/ Deleted(host, item, queue, e) BY <3>1, <1>0, <1>11 DEF DBSync, Earlier, Present
    <3> QED BY <3>2, <2>3 DEF Deleted
  <2> QED BY <2>3, <2>6, <2>7, <2>8, <2>9, <1>1 DEF DBSync
<1> QED BY <1>14, <1>15

\* Items that are enqueued, if there is a connection
LEMMA Posted ==
  ASSUME DBTypes, hosts' \in 0..MaxObjects, depGroups' \in 0..MaxDependencies,
         groups' \in [Hosts -> SUBSET Groups], QueueOK(hosts', depGroups', queue),
         NEW q, QueueOK(hosts', depGroups', q), NEW items, Compatible(items),
         \A m \in DOMAIN items : ItemOK(hosts', depGroups', items[m]), Post(q, items)
  PROVE  /\ QueueOK(hosts', depGroups', queue') /\ unsent' \in BOOLEAN
         /\ overtaken' \subseteq Groups \cup DependencyEntries
         /\ ~connected => unsent'
         /\ connected => /\ Extends(q, items, Len(items), queue') /\ unsent' = unsent
                         /\ overtaken' = overtaken \cup Overtakes(queue', items)
<1>1. items \in Seq(Items) /\ q \in Seq(Items) /\ Unique(q) BY DEF Compatible, QueueOK
<1>2. CASE ~connected
  <2>1. unsent' = TRUE /\ queue' = queue /\ overtaken' = overtaken BY <1>2 DEF Post
  <2> QED BY <2>1, <1>2 DEF DBTypes
<1>3. CASE connected
  <2>1. /\ queue' = EnqueueAll(q, items) /\ unsent' = unsent
        /\ overtaken' = overtaken \cup Overtakes(queue', items)
    BY <1>3 DEF Post
  <2>2. Overtakes(queue', items) \subseteq Groups \cup DependencyEntries BY <1>1, OvertakesRelated
  <2>3. Extends(q, items, Len(items), queue') BY <2>1, <1>1, ExtendsAll
  <2>4. QueueOK(hosts', depGroups', queue') BY <2>3, QueueOKStays
  <2>5. overtaken' \subseteq Groups \cup DependencyEntries BY <2>1, <2>2 DEF DBTypes
  <2>6. unsent' \in BOOLEAN BY <2>1 DEF DBTypes
  <2> QED BY <2>1, <2>3, <2>4, <2>5, <2>6, <1>3
<1> QED BY <1>2, <1>3 DEF DBTypes

\* The deletions of the groups that a host leaves
Left(S) == LET left == SetToSeq(S) IN [i \in DOMAIN left |-> Relation(left[i])]

LEMMA LeftItems ==
  ASSUME NEW S \in SUBSET Groups
  PROVE  /\ Left(S) \in Seq(Items)
         /\ \A n \in DOMAIN Left(S) : /\ Left(S)[n].kind = "relations" /\ Left(S)[n].key \in S
                                      /\ \A h, d : ItemOK(h, d, Left(S)[n])
                                      /\ \A h : D(h, Left(S)[n]) = {Left(S)[n].key}
         /\ \A e \in S : \E n \in DOMAIN Left(S) : Left(S)[n].key = e
         /\ \A m, n \in DOMAIN Left(S) : Left(S)[m].key = Left(S)[n].key => m = n
<1> DEFINE left == SetToSeq(S)
<1>1. IsFiniteSet(S) BY FS_Subset
<1>2. /\ left \in Seq(S) /\ \A e \in S : \E n \in DOMAIN left : left[n] = e
      /\ \A m, n \in DOMAIN left : left[m] = left[n] => m = n
  BY <1>1, SetToSeqFacts
<1>3. Left(S) = [i \in DOMAIN left |-> Relation(left[i])] BY DEF Left
<1> HIDE DEF left
<1>4. Len(left) \in Nat /\ DOMAIN left = 1..Len(left) /\ \A n \in DOMAIN left : left[n] \in S
  BY <1>2, ElementOfSeq
<1>5. ASSUME NEW e \in S
      PROVE  /\ Relation(e) \in Items /\ Relation(e).kind = "relations" /\ Relation(e).key = e
             /\ \A h, d : ItemOK(h, d, Relation(e))
             /\ \A h : D(h, Relation(e)) = {e}
  <2>1. e \in RelationIds /\ {e} \subseteq Entries BY DEF RelationIds, Entries
  <2>2. EntriesOf(e) = {e} BY DEF EntriesOf
  <2> QED BY <2>1, <2>2, RelationItems DEF Relation
<1>6. DOMAIN Left(S) = 1..Len(left) /\ \A n \in 1..Len(left) : Left(S)[n] = Relation(left[n])
  BY <1>3, <1>4
<1>7. Left(S) \in Seq(Items)
  <2>1. Left(S) \in [1..Len(left) -> Items] BY <1>3, <1>4, <1>5
  <2> QED BY <2>1, <1>4
<1>8. \A n \in DOMAIN Left(S) :
         /\ Left(S)[n].kind = "relations" /\ Left(S)[n].key = left[n] /\ left[n] \in S
         /\ \A h, d : ItemOK(h, d, Left(S)[n])
         /\ \A h : D(h, Left(S)[n]) = {Left(S)[n].key}
  BY <1>4, <1>5, <1>6
<1>9. DOMAIN Left(S) = DOMAIN left BY <1>4, <1>6
<1>10. \A e \in S : \E n \in DOMAIN Left(S) : Left(S)[n].key = e BY <1>2, <1>8, <1>9
<1>11. \A m, n \in DOMAIN Left(S) : Left(S)[m].key = Left(S)[n].key => m = n
  <2> SUFFICES ASSUME NEW m \in DOMAIN Left(S), NEW n \in DOMAIN Left(S), Left(S)[m].key = Left(S)[n].key
               PROVE  m = n
    OBVIOUS
  <2>1. left[m] = left[n] BY <1>8
  <2> QED BY <2>1, <1>2, <1>9
<1>12. \A n \in DOMAIN Left(S) :
          /\ Left(S)[n].kind = "relations" /\ Left(S)[n].key \in S
          /\ \A h, d : ItemOK(h, d, Left(S)[n])
          /\ \A h : D(h, Left(S)[n]) = {Left(S)[n].key}
  <2> SUFFICES ASSUME NEW n \in DOMAIN Left(S)
               PROVE  /\ Left(S)[n].kind = "relations" /\ Left(S)[n].key \in S
                      /\ \A h, d : ItemOK(h, d, Left(S)[n])
                      /\ \A h : D(h, Left(S)[n]) = {Left(S)[n].key}
    OBVIOUS
  <2>1. Left(S)[n].kind = "relations" BY <1>8
  <2>2. Left(S)[n].key \in S BY <1>8
  <2>3. \A h, d : ItemOK(h, d, Left(S)[n]) BY <1>8
  <2>4. \A h : D(h, Left(S)[n]) = {Left(S)[n].key} BY <1>8
  <2> QED BY <2>1, <2>2, <2>3, <2>4
<1> QED BY <1>7, <1>10, <1>11, <1>12

\* An update that is merged into an item in front of the deletion of an entry
LEMMA OvertakesHas ==
  ASSUME NEW q, NEW items, NEW x, NEW k \in DOMAIN items, items[k] = x, x.kind = "config", "ConfigUpdate" \in x.what,
         NEW n \in DOMAIN q, Same(q[n], x), NEW m \in DOMAIN q, m > n, q[m].kind = "relations",
         NEW e, e \in q[m].what, e \in Related(host', groups', depGroup', x.key)
  PROVE  e \in Overtakes(q, items)
<1>1. e \in DeletedBehind(q, n) BY DEF DeletedBehind
<1>2. x \in ToSet(items) BY DEF ToSet
<1>3. e \in Written(x.key)' BY OperatorsNext
<1>4. x \in {j \in ToSet(items) : j.kind = "config" /\ "ConfigUpdate" \in j.what} BY <1>2
<1>5. e \in UNION {Written(x.key)' \cap DeletedBehind(q, l) : l \in {l \in DOMAIN q : Same(q[l], x)}}
  BY <1>1, <1>3
<1> QED BY <1>4, <1>5 DEF Overtakes

\* Which entries are written does not depend on the groups but for them.
LEMMA GroupsApart ==
  ASSUME NEW hs, NEW ds, NEW h \in Hosts, NEW g \in [Hosts -> SUBSET Groups], NEW new \in SUBSET Groups, NEW d,
         NEW i, i = NoItem \/ ItemOK(hs, ds, i), hs \in 0..MaxObjects, NEW e, e \notin Groups
  PROVE  e \in W(h, g, d, i) <=> e \in W(h, [g EXCEPT ![h] = new], d, i)
<1> DEFINE gg == [g EXCEPT ![h] = new]
<1>1. \A k \in Hosts : e \notin g[k] /\ e \notin gg[k] OBVIOUS
<1> HIDE DEF gg
<1>2. CASE i.kind = "config"
  <2>1. i.key \in 0..hs BY <1>2, NoItemDoes DEF ItemOK
  <2>2. i.key = 0 \/ i.key \in Hosts BY <2>1 DEF Hosts
  <2> QED BY <2>2, <1>1, <1>2 DEF W, Related, gg
<1>3. CASE i.kind # "config" BY <1>3 DEF W
<1> QED BY <1>2, <1>3

LEMMA ModifyHostKeeps ==
  ASSUME DBInv, NEW new \in SUBSET Groups, ModifyHost(new)
  PROVE  DBInv'
<1> DEFINE S == groups[host] \ new
           L == Left(S)
           x == ConfigItem(host, AllBits)
           items == L \o <<x>>
           N == Len(L)
<1>0. /\ hosts \in Nat /\ depGroups \in Nat /\ host \in 0..hosts /\ host # 0 /\ host \in Nat \ {0} /\ host \in Hosts
      /\ S \in SUBSET Groups
  BY DEF ModifyHost, DBInv, DBTypes, Hosts
<1>1. /\ groups' = [groups EXCEPT ![host] = new] /\ stale' = stale \cup {"config"}
      /\ UNCHANGED <<host, hosts, depGroup, depGroups, result, identified, connected, reconnected, dump,
                     unread, reading, dumped, serializing, item, redis, late, leftover>>
      /\ Post(queue, items)
  BY DEF ModifyHost, handlerVars, connVars, dumpVars, Left
<1>2. x \in Items /\ x.kind = "config" /\ x.key = host /\ x.what = AllBits
  BY <1>0, ConfigItems DEF AllBits, Bits
<1>3. ItemOK(hosts, depGroups, x) BY <1>0, <1>2 DEF ItemOK, AllBits, Bits
<1> HIDE DEF x, L, S
<1>4. L \in Seq(Items) /\ N \in Nat /\ DOMAIN L = 1..N BY <1>0, LeftItems DEF L
<1>5. /\ items \in Seq(Items) /\ DOMAIN items = 1..(N + 1) /\ items[N + 1] = x
      /\ \A n \in 1..N : items[n] = L[n]
  BY <1>2, <1>4
<1>6. N + 1 \in DOMAIN items /\ \A n \in DOMAIN items : n = N + 1 \/ n \in 1..N BY <1>4, <1>5
<1> HIDE DEF items, N
<1>7. /\ \A n \in 1..N : /\ items[n].kind = "relations" /\ items[n].key \in S
                         /\ ItemOK(hosts, depGroups, items[n]) /\ D(host, items[n]) = {items[n].key}
      /\ \A e \in S : \E n \in 1..N : items[n].key = e
      /\ \A m, n \in 1..N : items[m].key = items[n].key => m = n
  <2>1. /\ \A n \in 1..N : /\ L[n].kind = "relations" /\ L[n].key \in S
                          /\ ItemOK(hosts, depGroups, L[n]) /\ D(host, L[n]) = {L[n].key}
        /\ \A e \in S : \E n \in 1..N : L[n].key = e
        /\ \A m, n \in 1..N : L[m].key = L[n].key => m = n
    BY <1>0, <1>4, LeftItems DEF L
  <2> QED BY <2>1, <1>5
<1>8. Compatible(items) BY <1>2, <1>5, <1>6, <1>7 DEF Compatible, Same
<1>9. \A m \in DOMAIN items : ItemOK(hosts, depGroups, items[m]) BY <1>3, <1>5, <1>6, <1>7
<1>10. QueueOK(hosts, depGroups, queue) /\ queue \in Seq(Items) /\ Unique(queue)
  BY DEF DBInv, DBTypes, QueueOK
<1>11. groups \in [Hosts -> SUBSET Groups] /\ groups' \in [Hosts -> SUBSET Groups] /\ groups'[host] = new
  BY <1>0, <1>1 DEF DBInv, DBTypes
<1>12. /\ QueueOK(hosts, depGroups, queue') /\ unsent' \in BOOLEAN
       /\ overtaken' \subseteq Groups \cup DependencyEntries
       /\ ~connected => unsent'
       /\ connected => /\ Extends(queue, items, Len(items), queue') /\ unsent' = unsent
                       /\ overtaken' = overtaken \cup Overtakes(queue', items)
  <2>1. hosts' = hosts /\ depGroups' = depGroups /\ DBTypes /\ hosts \in 0..MaxObjects /\ depGroups \in 0..MaxDependencies
    BY <1>1 DEF DBInv, DBTypes
  <2> QED BY <2>1, <1>1, <1>8, <1>9, <1>10, <1>11, Posted
<1>13. DBTypes' BY <1>1, <1>11, <1>12 DEF DBInv, DBTypes
<1>14. SUFFICES ASSUME DBClean' PROVE DBSync' BY <1>13 DEF DBInv
<1>15. /\ connected /\ DBSync /\ Extends(queue, items, Len(items), queue')
       /\ overtaken' = overtaken \cup Overtakes(queue', items)
  BY <1>1, <1>12, <1>14 DEF DBInv, DBTypes, DBClean
<1>16. Current(host, items) BY <1>2, <1>5, <1>6, <1>7 DEF Current, AllBits
<1>17. /\ OfTheirTime(host, queue') /\ HostLast(host, queue')
       /\ NoRevival(queue, items) /\ NoDeletion(items)
       /\ \A bit : PendingBit(host, queue, bit) => PendingBit(host, queue', bit)
       /\ \A e : DeletedIn(host, queue, e) => DeletedIn(host, queue', e)
  BY <1>8, <1>10, <1>15, <1>16, CurrentStays DEF DBSync
<1>18. PICK p \in DOMAIN queue' : Same(queue'[p], x) /\ x.what \subseteq queue'[p].what
  BY <1>2, <1>5, <1>6, <1>8, <1>10, <1>15, NewWritten
<1>19. queue'[p].kind = "config" /\ queue'[p].key = host BY <1>2, <1>18 DEF Same
<1>20. \A e \in S : DeletedIn(host, queue', e)
  <2> SUFFICES ASSUME NEW e \in S PROVE DeletedIn(host, queue', e) OBVIOUS
  <2>1. PICK n \in 1..N : items[n].key = e BY <1>7
  <2>a. N \in Nat BY <1>4 DEF N
  <2>b. n \in DOMAIN items BY <2>1, <2>a, <1>5
  <2>c. D(host, items[n]) = {items[n].key} BY <2>1, <1>7
  <2>2. n \in DOMAIN items /\ e \in D(host, items[n]) BY <2>1, <2>b, <2>c
  <2> QED BY <2>2, <1>8, <1>10, <1>15, DeletedNow
<1>21. (LastDump' <=> LastDump) /\ leftover' = leftover /\ Present' = Present
  BY <1>1 DEF LastDump, Present
<1>a. /\ Base' \subseteq Base \cup Wanted(host, groups', depGroup)
      /\ \A e \in Base : e \in Groups \/ e \in Base'
  <2>1. \A e \in Wanted(host, groups, depGroup) : e \in Groups \/ e \in Wanted(host, groups', depGroup)
    BY <1>0, <1>11 DEF Wanted
  <2>2. /\ ToRead' \subseteq ToRead \cup Wanted(host, groups', depGroup)
        /\ \A e \in ToRead : e \in Groups \/ e \in ToRead'
    BY <2>1, <1>1 DEF ToRead
  <2> QED BY <2>1, <2>2, <1>1, <1>21 DEF Base
<1>22. Wanted(host, groups, depGroup) \subseteq Wanted(host, groups', depGroup) \cup S
  BY <1>0, <1>11 DEF Wanted, S
<1>23. Sound'
  <2>1. ASSUME NEW e \in Base'
        PROVE  e \in Wanted(host, groups', depGroup) \cup leftover \/ Deleted(host, item, queue', e)
    <3>1. CASE e \in Base
      <4>1. e \in Wanted(host, groups, depGroup) \cup leftover \/ Deleted(host, item, queue, e)
        BY <3>1, <1>15 DEF DBSync, Sound
      <4> QED BY <4>1, <1>17, <1>20, <1>22 DEF Deleted
    <3> QED BY <3>1, <1>a
  <2>2. ASSUME NEW e \in TakenW(host, groups', depGroup, item)
        PROVE  e \in Wanted(host, groups', depGroup) \cup leftover \/ DeletedIn(host, queue', e)
    <3>1. CASE e \in TakenW(host, groups, depGroup, item)
      <4>1. e \in Wanted(host, groups, depGroup) \cup leftover \/ DeletedIn(host, queue, e)
        BY <3>1, <1>15 DEF DBSync, Sound
      <4> QED BY <4>1, <1>17, <1>20, <1>22
    <3>2. CASE e \notin TakenW(host, groups, depGroup, item)
      <4>1. item.kind = "config" BY <2>2, <3>2 DEF W, TakenW
      <4>2. item.key \in 0..hosts BY <4>1 DEF DBInv, DBTypes, ItemOK
      <4>3. item.key = 0 \/ item.key \in Hosts BY <4>2 DEF Hosts, DBInv, DBTypes
      <4>4. item.key # host => Related(host, groups', depGroup, item.key) = Related(host, groups, depGroup, item.key)
        BY <4>3, <1>1, <1>11 DEF Related
      <4>5. item.key = host BY <2>2, <3>2, <4>1, <4>4 DEF W, TakenW
      <4>6. e \in new BY <2>2, <3>2, <4>1, <4>5, <1>11, <1>0 DEF W, TakenW, Related
      <4> QED BY <4>6, <1>0, <1>11 DEF Wanted
    <3> QED BY <3>1, <3>2
  <2> QED BY <2>1, <2>2, <1>1, <1>21 DEF Sound
<1>24. Complete'
  <2> SUFFICES ASSUME NEW e \in Wanted(host, groups', depGroup), e \notin overtaken'
               PROVE  Kept(host, groups', depGroup, Base', item, queue', e)
    BY <1>1 DEF Complete
  <2>1. CASE e \in new
    <3>1. e \in W(host, groups', depGroup, queue'[p])
      BY <2>1, <1>0, <1>2, <1>11, <1>18, <1>19, HostUpdateWrites DEF AllBits
    <3>2. ASSUME NEW m \in DOMAIN queue', m > p, e \in D(host, queue'[m]) PROVE FALSE
      <4>1. queue'[m].kind = "relations" /\ e \in queue'[m].what BY <3>2, <2>1 DEF D
      <4>2. e \in Related(host', groups', depGroup', x.key)
        BY <2>1, <1>0, <1>1, <1>2, <1>11 DEF Related
      <4>3. N + 1 \in DOMAIN items /\ items[N + 1] = x /\ "ConfigUpdate" \in x.what
        BY <1>2, <1>5, <1>6 DEF AllBits
      <4>4. e \in Overtakes(queue', items) BY <4>1, <4>2, <4>3, <3>2, <1>2, <1>18, OvertakesHas
      <4> QED BY <4>4, <1>15
    <3> QED BY <3>1, <3>2 DEF Kept, WrittenLast
  <2>2. CASE e \notin new
    <3>1. e \notin Groups /\ e \in Wanted(host, groups, depGroup) /\ e \notin overtaken
      BY <2>2, <1>0, <1>11, <1>15 DEF Wanted, DependencyEntries
    <3>2. Kept(host, groups, depGroup, Base, item, queue, e) BY <3>1, <1>15 DEF DBSync, Complete
    <3>3. /\ e \in TakenW(host, groups, depGroup, item) => e \in TakenW(host, groups', depGroup, item)
          /\ \A n \in DOMAIN queue : e \in W(host, groups, depGroup, queue[n]) => e \in W(host, groups', depGroup, queue[n])
      <4>1. hosts \in 0..MaxObjects /\ ItemOK(hosts, depGroups, item)
            /\ \A n \in DOMAIN queue : ItemOK(hosts, depGroups, queue[n])
        BY <1>10 DEF QueueOK, DBInv, DBTypes
      <4> QED BY <4>1, <3>1, <1>0, <1>1, <1>11, GroupsApart DEF TakenW
    <3>4. e \in Base => e \in Base' BY <3>1, <1>a
    <3>5. Kept(host, groups', depGroup, Base', item, queue, e) BY <3>2, <3>3, <3>4, KeptMore
    <3>6. \A m \in DOMAIN items : e \notin D(host, items[m])
      BY <3>1, <1>0, <1>2, <1>5, <1>6, <1>7 DEF D, AllBits
    <3> QED BY <3>5, <3>6, <1>8, <1>10, <1>15, <1>17, KeptStays
  <2> QED BY <2>1, <2>2
<1>25. Fresh'
  <2>1. \A bit \in {"ConfigUpdate", "VolatileState"} : PendingBit(host, queue', bit)
    BY <1>2, <1>18, <1>19 DEF PendingBit, HasBit, AllBits
  <2> QED BY <2>1, <1>1 DEF Fresh
<1>26. Earlier'
  <2> HIDE DEF Present, LastDump
  <2> QED BY <1>1, <1>15, <1>17, <1>21 DEF DBSync, Earlier, Deleted
<1> QED BY <1>1, <1>17, <1>23, <1>24, <1>25, <1>26 DEF DBSync

\* A host that is gone: more is deleted and less is written.
LEMMA HostGone ==
  ASSUME NEW hs \in Nat, NEW ds, NEW h, NEW g, NEW i, i = NoItem \/ ItemOK(hs, ds, i)
  PROVE  D(h, i) \subseteq D(0, i) /\ W(0, g, 0, i) \subseteq W(h, g, 0, i)
<1>1. CASE i.kind = "config"
  <2>1. i.key \in 0..hs /\ (i.key = 0 => "NextUpdate" \notin i.what) BY <1>1, NoItemDoes DEF ItemOK
  <2>2. D(h, i) \subseteq D(0, i) BY <1>1, <2>1 DEF D
  <2>3. Related(0, g, 0, i.key) = Related(h, g, 0, i.key) BY DEF Related
  <2>4. W(0, g, 0, i) \subseteq W(h, g, 0, i) BY <1>1, <2>1, <2>3 DEF W
  <2> QED BY <2>2, <2>4
<1>2. CASE i.kind # "config" BY <1>2 DEF D, W
<1> QED BY <1>1, <1>2

LEMMA DeleteHostKeeps == DBInv /\ DeleteHost => DBInv'
<1> SUFFICES ASSUME DBInv, DeleteHost PROVE DBInv' OBVIOUS
<1> DEFINE S == groups[host]
           L == Left(S)
           x == RelationsDeletion("child", {"state"})
           y == ConfigItem(host, {"ConfigDelete", "NextUpdate"})
           items == <<x, y>> \o L
           N == Len(L)
<1>0. /\ hosts \in Nat /\ depGroups \in Nat /\ host \in 0..hosts /\ host # 0 /\ host \in Nat \ {0} /\ host \in Hosts
      /\ S \in SUBSET Groups /\ depGroup = 0
  BY DEF DeleteHost, DBInv, DBTypes, Hosts
<1>1. /\ host' = 0 /\ stale' = {}
      /\ UNCHANGED <<hosts, groups, depGroup, depGroups, result, identified, connected, reconnected, dump,
                     unread, reading, dumped, serializing, item, redis, late, leftover>>
      /\ Post(queue, items)
  BY DEF DeleteHost, handlerVars, connVars, dumpVars, Left
<1>2. /\ x \in Items /\ x.kind = "relations" /\ x.key = "child" /\ D(0, x) = {"state"}
      /\ ItemOK(hosts, depGroups, x)
  <2>1. "child" \in RelationIds /\ {"state"} \subseteq EntriesOf("child") /\ {"state"} \subseteq Entries
    BY DEF RelationIds, EntriesOf, Entries
  <2> QED BY <2>1, RelationItems
<1>3. y \in Items /\ y.kind = "config" /\ y.key = host /\ y.what = {"ConfigDelete", "NextUpdate"}
  BY <1>0, ConfigItems DEF Bits
<1>4. ItemOK(hosts, depGroups, y) /\ D(0, y) = {"config", "nextUpdate"}
  BY <1>0, <1>3 DEF ItemOK, Bits, D
<1> HIDE DEF x, y, L, S
<1>5. L \in Seq(Items) /\ N \in Nat /\ DOMAIN L = 1..N BY <1>0, LeftItems DEF L
<1>6. /\ items \in Seq(Items) /\ DOMAIN items = 1..(N + 2) /\ items[1] = x /\ items[2] = y
      /\ \A n \in 1..N : items[n + 2] = L[n]
  BY <1>2, <1>3, <1>5
<1>7. /\ 1 \in DOMAIN items /\ 2 \in DOMAIN items /\ \A n \in 1..N : n + 2 \in DOMAIN items
      /\ \A n \in DOMAIN items : n \in {1, 2} \/ \E l \in 1..N : n = l + 2
  <2> HIDE DEF N
  <2>1. N \in Nat BY <1>5 DEF N
  <2>2. \A n \in 1..(N + 2) : n \notin {1, 2} => n - 2 \in 1..N /\ n = (n - 2) + 2 BY <2>1
  <2>3. \A n \in 1..N : n + 2 \in 1..(N + 2) BY <2>1
  <2>4. 1 \in 1..(N + 2) /\ 2 \in 1..(N + 2) BY <2>1
  <2> QED BY <2>2, <2>3, <2>4, <1>6 DEF items
<1> HIDE DEF items, N
<1>8. /\ \A n \in 1..N : /\ L[n].kind = "relations" /\ L[n].key \in S
                         /\ ItemOK(hosts, depGroups, L[n]) /\ D(0, L[n]) = {L[n].key}
      /\ \A e \in S : \E n \in 1..N : L[n].key = e
      /\ \A m, n \in 1..N : L[m].key = L[n].key => m = n
  BY <1>0, <1>5, LeftItems DEF L, N
<1>9. \A n \in DOMAIN items :
         \/ n = 1 /\ items[n] = x
         \/ n = 2 /\ items[n] = y
         \/ \E l \in 1..N : n = l + 2 /\ items[n] = L[l]
  BY <1>6, <1>7
<1>10. Compatible(items)
  <2> SUFFICES ASSUME NEW m \in DOMAIN items, NEW n \in DOMAIN items, m # n, Same(items[m], items[n])
               PROVE  FALSE
    BY <1>6 DEF Compatible
  <2>1. "child" \notin S BY <1>0
  <2>2. \A i \in DOMAIN items : items[i].kind = "relations" =>
           (items[i].key = "child" /\ i = 1) \/ items[i].key \in S
    BY <1>2, <1>3, <1>8, <1>9
  <2>3. \A i \in DOMAIN items : items[i].kind = "config" => i = 2 BY <1>2, <1>3, <1>8, <1>9
  <2>4. items[m].kind = "relations" /\ items[n].kind = "relations"
    BY <1>2, <1>3, <1>8, <1>9, <2>3 DEF Same
  <2>5. m # 1 /\ n # 1 BY <2>1, <2>2, <2>4, <1>2, <1>6 DEF Same
  <2>6. m # 2 /\ n # 2 BY <2>4, <1>3, <1>6
  <2>7. PICK k \in 1..N : m = k + 2 /\ items[m] = L[k] BY <1>9, <2>5, <2>6
  <2>8. PICK l \in 1..N : n = l + 2 /\ items[n] = L[l] BY <1>9, <2>5, <2>6
  <2>9. k = l BY <2>7, <2>8, <1>8 DEF Same
  <2> QED BY <2>7, <2>8, <2>9
<1>11. \A m \in DOMAIN items : ItemOK(hosts, depGroups, items[m]) BY <1>2, <1>4, <1>8, <1>9
<1>12. QueueOK(hosts, depGroups, queue) /\ queue \in Seq(Items) /\ Unique(queue)
  BY DEF DBInv, DBTypes, QueueOK
<1>13. /\ QueueOK(hosts, depGroups, queue') /\ unsent' \in BOOLEAN
       /\ overtaken' \subseteq Groups \cup DependencyEntries
       /\ ~connected => unsent'
       /\ connected => Extends(queue, items, Len(items), queue') /\ unsent' = unsent
  <2>1. /\ hosts' = hosts /\ depGroups' = depGroups /\ DBTypes /\ hosts \in 0..MaxObjects
        /\ depGroups \in 0..MaxDependencies /\ groups' \in [Hosts -> SUBSET Groups]
    BY <1>1 DEF DBInv, DBTypes
  <2> QED BY <2>1, <1>1, <1>10, <1>11, <1>12, Posted
<1>14. DBTypes' BY <1>0, <1>1, <1>13 DEF DBInv, DBTypes
<1>15. SUFFICES ASSUME DBClean' PROVE DBSync' BY <1>14 DEF DBInv
<1>16. DBSync /\ Extends(queue, items, Len(items), queue')
  BY <1>1, <1>13, <1>15 DEF DBInv, DBTypes, DBClean
<1>17. NoRevival(queue, items) BY <1>3, <1>2, <1>8, <1>9 DEF NoRevival
<1>18. \A i \in DOMAIN items : items[i].kind = "config" => i = 2 BY <1>2, <1>3, <1>8, <1>9
<1>19. DOMAIN items = 1..Len(items) BY <1>6
<1>20. OfTheirTime(0, queue')
  <2> SUFFICES ASSUME NEW n \in DOMAIN queue', queue'[n].kind = "config"
               PROVE  /\ queue'[n].key \notin {0} => queue'[n].what \subseteq {"ConfigDelete", "NextUpdate"}
                      /\ queue'[n].key \in {0} => "ConfigDelete" \notin queue'[n].what
    BY DEF OfTheirTime
  <2>1. CASE queue'[n].key = host
    <3>1. PICK p \in DOMAIN queue' : Same(queue'[p], y) /\ queue'[p].what \cap {"ConfigUpdate", "VolatileState"} \subseteq y.what
      BY <1>3, <1>6, <1>7, <1>16, <1>19 DEF Extends
    <3>2. n = p BY <2>1, <3>1, <1>3, <1>16 DEF Extends, Unique, Same
    <3>3. queue'[n].what \subseteq Bits BY <1>13 DEF QueueOK, ItemOK
    <3>4. queue'[n].what \subseteq {"ConfigDelete", "NextUpdate"} BY <3>1, <3>2, <3>3, <1>3 DEF Bits
    <3> QED BY <3>4, <2>1, <1>0
  <2>2. CASE queue'[n].key # host
    <3>1. \A m \in DOMAIN items : ~Same(queue'[n], items[m]) BY <2>2, <1>3, <1>6, <1>18 DEF Same
    <3>2. n \in DOMAIN queue /\ queue'[n].what \subseteq queue[n].what /\ Same(queue'[n], queue[n])
      BY <3>1, <1>16, <1>19 DEF Extends
    <3> QED BY <3>2, <2>2, <1>16 DEF DBSync, OfTheirTime, Same
  <2> QED BY <2>1, <2>2
<1>21. HostLast(0, queue') BY DEF HostLast
<1>22. \A e \in Wanted(host, groups, depGroup) : DeletedIn(0, queue', e)
  <2> SUFFICES ASSUME NEW e \in Wanted(host, groups, depGroup) PROVE DeletedIn(0, queue', e) OBVIOUS
  <2>1. SUFFICES \E m \in DOMAIN items : e \in D(0, items[m]) BY <1>10, <1>12, <1>16, DeletedNow
  <2>2. e \in {"config", "state", "nextUpdate"} \/ e \in S BY <1>0 DEF Wanted, S
  <2>3. CASE e \in {"config", "nextUpdate"} BY <2>3, <1>4, <1>6, <1>7
  <2>4. CASE e = "state" BY <2>4, <1>2, <1>6, <1>7
  <2>5. CASE e \in S
    <3>1. PICK n \in 1..N : L[n].key = e BY <2>5, <1>8
    <3>2. D(0, L[n]) = {e} BY <3>1, <1>8
    <3>3. n + 2 \in DOMAIN items /\ items[n + 2] = L[n] BY <1>6, <1>7
    <3> QED BY <3>2, <3>3
  <2> QED BY <2>2, <2>3, <2>4, <2>5
<1>23. /\ TakenD(host, item) \subseteq TakenD(0, item) /\ TakenW(0, groups, 0, item) \subseteq TakenW(host, groups, 0, item)
       /\ \A n \in DOMAIN queue : D(host, queue[n]) \subseteq D(0, queue[n])
  <2>1. ItemOK(hosts, depGroups, item) /\ \A n \in DOMAIN queue : ItemOK(hosts, depGroups, queue[n])
    BY <1>12 DEF QueueOK, DBInv, DBTypes
  <2> QED BY <2>1, <1>0, HostGone DEF TakenW, TakenD
<1>24. \A e : DeletedIn(host, queue, e) => DeletedIn(0, queue', e)
  <2> SUFFICES ASSUME NEW e, DeletedIn(host, queue, e) PROVE DeletedIn(0, queue', e) OBVIOUS
  <2>1. DeletedIn(0, queue, e) BY <1>23 DEF DeletedIn
  <2> QED BY <2>1, <1>10, <1>12, <1>16, <1>17, DeletedInStays
<1>25. (LastDump' <=> LastDump) /\ leftover' = leftover BY <1>1 DEF LastDump
<1>26. Wanted(0, groups, 0) = {} BY DEF Wanted
<1>a. Base' \subseteq Base
  <2>1. Wanted(host', groups', depGroup') = {} BY <1>0, <1>1, <1>26
  <2>2. ToRead' = {} BY <2>1, <1>1 DEF ToRead
  <2> QED BY <2>1, <2>2, <1>1, <1>25 DEF Base
<1>27. Sound'
  <2>1. ASSUME NEW e \in Base' PROVE e \in leftover \/ Deleted(0, item, queue', e)
    <3>1. e \in Wanted(host, groups, depGroup) \cup leftover \/ Deleted(host, item, queue, e)
      BY <2>1, <1>16, <1>a DEF DBSync, Sound
    <3> QED BY <3>1, <1>22, <1>23, <1>24 DEF Deleted
  <2>2. ASSUME NEW e \in TakenW(0, groups, 0, item) PROVE e \in leftover \/ DeletedIn(0, queue', e)
    <3>1. e \in Wanted(host, groups, depGroup) \cup leftover \/ DeletedIn(host, queue, e)
      BY <2>2, <1>0, <1>16, <1>23 DEF DBSync, Sound
    <3> QED BY <3>1, <1>22, <1>24
  <2> QED BY <2>1, <2>2, <1>0, <1>1, <1>25 DEF Sound
<1>28. Complete' BY <1>0, <1>1, <1>26 DEF Complete
<1>29. Fresh' BY <1>1 DEF Fresh
<1>30. Earlier' BY <1>0, <1>1 DEF Earlier
<1> QED BY <1>1, <1>20, <1>21, <1>27, <1>28, <1>29, <1>30 DEF DBSync

\* Items that a handler enqueues for a dependency
LEMMA DependencyItems ==
  ASSUME NEW h \in Nat, NEW hs \in Nat, NEW ds \in Nat, NEW d \in 1..ds
  PROVE  /\ EdgeItem(d, h) \in Items /\ EdgeItem(d, h).kind = "edge" /\ EdgeItem(d, h).key = d
         /\ EdgeItem(d, h).what = {h} /\ ItemOK(hs, ds, EdgeItem(d, h))
         /\ GroupStateItem(d) \in Items /\ GroupStateItem(d).kind = "groupState" /\ GroupStateItem(d).key = d
         /\ ItemOK(hs, ds, GroupStateItem(d))
<1>1. d \in Nat OBVIOUS
<1> DEFINE x == EdgeItem(d, h)
           y == GroupStateItem(d)
<1>2. x = [kind |-> "edge", key |-> d, what |-> {h}] /\ y = [kind |-> "groupState", key |-> d, what |-> {}]
  BY DEF EdgeItem, GroupStateItem
<1>3. x.kind = "edge" /\ x.key = d /\ x.what = {h} /\ y.kind = "groupState" /\ y.key = d BY <1>2
<1>4. x \in Items /\ y \in Items BY <1>1, <1>2 DEF Items
<1> HIDE DEF x, y
<1>5. ItemOK(hs, ds, x) /\ ItemOK(hs, ds, y) BY <1>3 DEF ItemOK
<1> QED BY <1>3, <1>4, <1>5 DEF x, y

\* What is written for a dependency is written if there is one.
LEMMA DependencyWrites ==
  ASSUME NEW hs, NEW ds \in Nat, NEW i, i = NoItem \/ ItemOK(hs, ds, i), hs \in 0..MaxObjects,
         NEW h, NEW g \in [Hosts -> SUBSET Groups], NEW d
  PROVE  /\ W(h, g, 0, i) \subseteq W(h, g, d, i)
         /\ W(h, g, d, i) \subseteq W(h, g, 0, i) \cup DependencyEntries
         /\ W(h, g, 0, i) \cap DependencyEntries = {}
<1>1. CASE i.kind = "config"
  <2>1. i.key \in 0..hs BY <1>1, NoItemDoes DEF ItemOK
  <2>2. i.key # 0 => i.key \in Hosts /\ g[i.key] \subseteq Groups BY <2>1 DEF Hosts
  <2>3. /\ Related(h, g, 0, i.key) \subseteq Related(h, g, d, i.key)
        /\ Related(h, g, d, i.key) \subseteq Related(h, g, 0, i.key) \cup DependencyEntries
        /\ Related(h, g, 0, i.key) \cap DependencyEntries = {}
    BY <2>2 DEF Related, DependencyEntries
  <2>4. "config" \notin DependencyEntries /\ "state" \notin DependencyEntries /\ "nextUpdate" \notin DependencyEntries
    BY DEF DependencyEntries
  <2> QED BY <1>1, <2>3, <2>4 DEF W
<1>2. CASE i.kind \in {"edge", "groupState"}
  <2>1. i.key \in 1..ds /\ i.key # 0 BY <1>2, NoItemDoes DEF ItemOK
  <2> QED BY <1>2, <2>1 DEF W, DependencyEntries
<1>3. CASE i.kind \notin {"config", "edge", "groupState"} BY <1>3 DEF W
<1> QED BY <1>1, <1>2, <1>3

LEMMA RegisteredKeeps == DBInv /\ DependencyGroupChildRegisteredHandler => DBInv'
<1> SUFFICES ASSUME DBInv, DependencyGroupChildRegisteredHandler PROVE DBInv' OBVIOUS
<1> DEFINE d == depGroups + 1
           x == ConfigItem(host, {"VolatileState"})
           y == EdgeItem(d, host)
           z == GroupStateItem(d)
           c == ConfigItem(0, {"ConfigUpdate", "VolatileState"})
           items == <<x, y, z, c>>
<1>0. /\ hosts \in Nat /\ depGroups \in Nat /\ host \in 0..hosts /\ host # 0 /\ host \in Nat \ {0} /\ host \in Hosts
      /\ depGroup = 0 /\ d \in 0..MaxDependencies /\ d \in Nat /\ d \in 1..d /\ depGroups <= d
      /\ groups \in [Hosts -> SUBSET Groups] /\ hosts \in 0..MaxObjects
  BY DEF DependencyGroupChildRegisteredHandler, DBInv, DBTypes, Hosts
<1>1. /\ depGroup' = d /\ depGroups' = d
      /\ UNCHANGED <<host, hosts, groups, result, identified, connected, reconnected, dump,
                     unread, reading, dumped, serializing, item, redis, stale, late, leftover>>
      /\ Post(queue, items)
  BY DEF DependencyGroupChildRegisteredHandler, handlerVars, connVars, dumpVars, ParentHost
<1>2. /\ x \in Items /\ x.kind = "config" /\ x.key = host /\ x.what = {"VolatileState"}
      /\ c \in Items /\ c.kind = "config" /\ c.key = 0 /\ c.what = {"ConfigUpdate", "VolatileState"}
  BY <1>0, ConfigItems DEF Bits
<1>3. /\ y \in Items /\ y.kind = "edge" /\ y.key = d /\ y.what = {host} /\ ItemOK(hosts, d, y)
      /\ z \in Items /\ z.kind = "groupState" /\ z.key = d /\ ItemOK(hosts, d, z)
  BY <1>0, DependencyItems
<1> HIDE DEF x, y, z, c
<1>4. ItemOK(hosts, d, x) /\ ItemOK(hosts, d, c) BY <1>0, <1>2 DEF ItemOK, Bits
<1>5. /\ items \in Seq(Items) /\ DOMAIN items = 1..4 /\ Len(items) = 4
      /\ items[1] = x /\ items[2] = y /\ items[3] = z /\ items[4] = c
  BY <1>2, <1>3
<1>6. \A n \in DOMAIN items : n = 1 \/ n = 2 \/ n = 3 \/ n = 4 BY <1>5
<1>a. 1 \in DOMAIN items /\ 2 \in DOMAIN items /\ 3 \in DOMAIN items /\ 4 \in DOMAIN items BY <1>5
<1> HIDE DEF items, d
<1>7. Compatible(items) BY <1>0, <1>2, <1>3, <1>5, <1>6 DEF Compatible, Same
<1>8. \A m \in DOMAIN items : ItemOK(hosts, d, items[m]) BY <1>3, <1>4, <1>5, <1>6
<1>9. /\ QueueOK(hosts, depGroups, queue) /\ QueueOK(hosts, d, queue) /\ queue \in Seq(Items) /\ Unique(queue)
      /\ ItemOK(hosts, d, item)
  <2>1. QueueOK(hosts, depGroups, queue) /\ queue \in Seq(Items) /\ Unique(queue)
    BY DEF DBInv, DBTypes, QueueOK
  <2>2. ItemOK(hosts, depGroups, item) BY DEF DBInv, DBTypes
  <2>3. hosts <= hosts BY <1>0
  <2> QED BY <2>1, <2>2, <2>3, <1>0, QueueOKMore
<1>10. /\ QueueOK(hosts, d, queue') /\ unsent' \in BOOLEAN
       /\ overtaken' \subseteq Groups \cup DependencyEntries
       /\ ~connected => unsent'
       /\ connected => /\ Extends(queue, items, Len(items), queue') /\ unsent' = unsent
                       /\ overtaken' = overtaken \cup Overtakes(queue', items)
  <2>1. hosts' = hosts /\ depGroups' = d /\ DBTypes /\ groups' \in [Hosts -> SUBSET Groups]
    BY <1>0, <1>1 DEF DBInv
  <2> QED BY <2>1, <1>0, <1>1, <1>7, <1>8, <1>9, Posted
<1>b. serializing \in 0..d /\ serializing # d BY <1>0 DEF DBInv, DBTypes, d
<1>11. DBTypes' BY <1>0, <1>1, <1>9, <1>10, <1>b DEF DBInv, DBTypes
<1>12. SUFFICES ASSUME DBClean' PROVE DBSync' BY <1>11 DEF DBInv
<1>13. /\ connected /\ DBSync /\ Extends(queue, items, Len(items), queue')
       /\ overtaken' = overtaken \cup Overtakes(queue', items)
  BY <1>1, <1>10, <1>12 DEF DBInv, DBTypes, DBClean
<1>14. Current(host, items) BY <1>2, <1>3, <1>5, <1>6 DEF Current
<1>15. /\ OfTheirTime(host, queue') /\ HostLast(host, queue')
       /\ NoRevival(queue, items) /\ NoDeletion(items)
       /\ \A bit : PendingBit(host, queue, bit) => PendingBit(host, queue', bit)
       /\ \A e : DeletedIn(host, queue, e) => DeletedIn(host, queue', e)
  BY <1>7, <1>9, <1>13, <1>14, CurrentStays DEF DBSync
<1>16. \A m \in DOMAIN items : D(host, items[m]) = {} BY <1>0, <1>2, <1>3, <1>5, <1>6 DEF D
<1>17. (LastDump' <=> LastDump) /\ leftover' = leftover BY <1>1 DEF LastDump
<1>18. /\ Wanted(host, groups, d) = Wanted(host, groups, depGroup) \cup DependencyEntries
       /\ Wanted(host, groups, depGroup) \cap DependencyEntries = {}
  <2>1. groups[host] \subseteq Groups /\ d # 0 BY <1>0
  <2> QED BY <2>1, <1>0 DEF Wanted, DependencyEntries
<1>c. /\ Base' \subseteq Base \cup Wanted(host, groups, d)
      /\ Base \subseteq Base'
  <2>1. /\ ToRead' \subseteq ToRead \cup Wanted(host, groups, d)
        /\ ToRead \subseteq ToRead'
    BY <1>1, <1>18 DEF ToRead
  <2> QED BY <2>1, <1>1, <1>17, <1>18 DEF Base
<1>19. \A i : i = item \/ (\E n \in DOMAIN queue : i = queue[n]) =>
          /\ W(host, groups, depGroup, i) \subseteq W(host, groups, d, i)
          /\ W(host, groups, d, i) \subseteq W(host, groups, depGroup, i) \cup DependencyEntries
  <2> SUFFICES ASSUME NEW i, ItemOK(hosts, d, i)
               PROVE  /\ W(host, groups, depGroup, i) \subseteq W(host, groups, d, i)
                      /\ W(host, groups, d, i) \subseteq W(host, groups, depGroup, i) \cup DependencyEntries
    BY <1>9 DEF QueueOK
  <2> QED BY <1>0, DependencyWrites
<1>d. /\ TakenW(host, groups, depGroup, item) \subseteq TakenW(host, groups, d, item)
      /\ TakenW(host, groups, d, item) \subseteq TakenW(host, groups, depGroup, item) \cup DependencyEntries
  BY <1>19 DEF TakenW
<1>20. Sound'
  <2>1. ASSUME NEW e \in Base'
        PROVE  e \in Wanted(host, groups, d) \cup leftover \/ Deleted(host, item, queue', e)
    <3>1. CASE e \in Base
      <4>1. e \in Wanted(host, groups, depGroup) \cup leftover \/ Deleted(host, item, queue, e)
        BY <3>1, <1>13 DEF DBSync, Sound
      <4> QED BY <4>1, <1>15, <1>18 DEF Deleted
    <3> QED BY <3>1, <2>1, <1>c
  <2>2. ASSUME NEW e \in TakenW(host, groups, d, item)
        PROVE  e \in Wanted(host, groups, d) \cup leftover \/ DeletedIn(host, queue', e)
    <3>1. CASE e \in DependencyEntries BY <3>1, <1>18
    <3>2. CASE e \notin DependencyEntries
      <4>1. e \in Wanted(host, groups, depGroup) \cup leftover \/ DeletedIn(host, queue, e)
        BY <3>2, <2>2, <1>13, <1>d DEF DBSync, Sound
      <4> QED BY <4>1, <1>15, <1>18
    <3> QED BY <3>1, <3>2
  <2> QED BY <2>1, <2>2, <1>1, <1>17 DEF Sound
\* Items about the new group are behind all that were pending.
<1>21. ASSUME NEW k \in {2, 3}, NEW e \in W(host, groups, d, items[k])
       PROVE  WrittenLast(host, groups, d, item, queue', e)
  <2>1. k \in DOMAIN items /\ items[k].kind \in {"edge", "groupState"} /\ items[k].key = d
    BY <1>3, <1>5, <1>a
  <2>2. DOMAIN items = 1..Len(items) BY <1>5
  <2>3. PICK p \in DOMAIN queue' :
           /\ Same(queue'[p], items[k])
           /\ items[k].kind \in {"edge", "groupState"} /\ p \notin DOMAIN queue => queue'[p] = items[k]
    BY <2>1, <2>2, <1>13 DEF Extends
  <2>4. p \notin DOMAIN queue
    <3>1. SUFFICES ASSUME p \in DOMAIN queue PROVE FALSE OBVIOUS
    <3>2. Same(queue'[p], queue[p]) BY <3>1, <1>13 DEF Extends
    <3>3. queue[p].kind \in {"edge", "groupState"} /\ queue[p].key = d BY <3>2, <2>1, <2>3 DEF Same
    <3>4. queue[p].key \in 1..depGroups BY <3>1, <3>3, <1>9 DEF QueueOK, ItemOK
    <3> QED BY <3>3, <3>4, <1>0 DEF d
  <2>5. queue'[p] = items[k] BY <2>1, <2>3, <2>4
  <2>6. ASSUME NEW m \in DOMAIN queue', m > p, e \in D(host, queue'[m]) PROVE FALSE
    <3>1. m \in DOMAIN queue BY <2>6, <1>7, <1>9, <1>13, <1>16, DeletedBefore
    <3>2. queue \in Seq(Items) /\ queue' \in Seq(Items) BY <1>9, <1>10 DEF QueueOK
    <3>3. DOMAIN queue = 1..Len(queue) /\ DOMAIN queue' = 1..Len(queue') /\ Len(queue) \in Nat /\ Len(queue') \in Nat
      BY <3>2
    <3> QED BY <3>1, <3>3, <2>4, <2>6
  <2> QED BY <2>5, <2>6 DEF WrittenLast
<1>22. W(host, groups, d, items[2]) = {"childNode", "edge"} /\ W(host, groups, d, items[3]) = {"edgeState"}
  <2>1. d # 0 BY <1>0
  <2> QED BY <2>1, <1>3, <1>5 DEF W
<1>23. Complete'
  <2> SUFFICES ASSUME NEW e \in Wanted(host, groups, d), e \notin overtaken'
               PROVE  Kept(host, groups, d, Base', item, queue', e)
    BY <1>1 DEF Complete
  <2>1. CASE e \in {"childNode", "edge"} BY <2>1, <1>21, <1>22 DEF Kept
  <2>2. CASE e = "edgeState" BY <2>2, <1>21, <1>22 DEF Kept
  <2>3. CASE e = "parentNode"
    <3>1. PICK p \in DOMAIN queue' : Same(queue'[p], c) /\ c.what \subseteq queue'[p].what
      <4>1. 4 \in DOMAIN items /\ items[4] = c /\ items[4].kind = "config" BY <1>2, <1>5, <1>a
      <4>2. PICK p \in DOMAIN queue' : Same(queue'[p], items[4]) /\ items[4].what \subseteq queue'[p].what
        BY <4>1, <1>7, <1>9, <1>13, NewWritten
      <4> QED BY <4>1, <4>2
    <3>2. d # 0 /\ e \in Related(host, groups, d, 0) BY <2>3, <1>0 DEF Related
    <3>3. e \in W(host, groups, d, queue'[p]) BY <3>1, <3>2, <1>2 DEF W, Same
    <3>4. ASSUME NEW m \in DOMAIN queue', m > p, e \in D(host, queue'[m]) PROVE FALSE
      <4>1. queue'[m].kind = "relations" /\ e \in queue'[m].what BY <3>4, <2>3 DEF D
      <4>2. e \in Related(host', groups', depGroup', c.key) BY <3>2, <1>1, <1>2
      <4>3. e \in Overtakes(queue', items) BY <4>1, <4>2, <3>1, <3>4, <1>2, <1>5, <1>a, OvertakesHas
      <4> QED BY <4>3, <1>13
    <3> QED BY <3>3, <3>4 DEF Kept, WrittenLast
  <2>4. CASE e \notin DependencyEntries
    <3>1. e \in Wanted(host, groups, depGroup) /\ e \notin overtaken BY <2>4, <1>13, <1>18
    <3>2. Kept(host, groups, depGroup, Base, item, queue, e) BY <3>1, <1>13 DEF DBSync, Complete
    <3>3. e \in Base => e \in Base' BY <1>c
    <3>4. Kept(host, groups, d, Base', item, queue, e) BY <3>2, <3>3, <1>19, <1>d, KeptMore
    <3> QED BY <3>4, <1>7, <1>9, <1>13, <1>15, <1>16, KeptStays
  <2> QED BY <2>1, <2>2, <2>3, <2>4 DEF DependencyEntries
<1>24. Fresh' BY <1>1, <1>13, <1>15, <1>17 DEF DBSync, Fresh
<1>25. Earlier'
  <2>1. ASSUME LastDump, NEW e \in Present \cap {"edge", "edgeState"}
        PROVE  e \in leftover \/ Deleted(host, item, queue', e)
    <3>1. e \in DependencyEntries /\ e \notin Wanted(host, groups, depGroup)
      BY <1>18 DEF DependencyEntries
    <3>2. e \in Base BY <2>1 DEF Base, Present
    <3>3. e \in leftover \/ Deleted(host, item, queue, e) BY <3>1, <3>2, <1>13 DEF DBSync, Sound
    <3> QED BY <3>3, <1>15 DEF Deleted
  <2>2. ASSUME item.kind = "queries", NEW e \in item.what \cap {"edge", "edgeState"}
        PROVE  e \in leftover \/ DeletedIn(host, queue', e)
    <3>1. e \in DependencyEntries /\ e \notin Wanted(host, groups, depGroup)
      BY <1>18 DEF DependencyEntries
    <3>2. e \in TakenW(host, groups, depGroup, item) BY <2>2 DEF TakenW
    <3>3. e \in leftover \/ DeletedIn(host, queue, e) BY <3>1, <3>2, <1>13 DEF DBSync, Sound
    <3> QED BY <3>3, <1>15
  <2>3. Present' = Present BY <1>1 DEF Present
  <2> HIDE DEF Present, LastDump
  <2> QED BY <2>1, <2>2, <2>3, <1>1, <1>17 DEF Earlier
<1> QED BY <1>1, <1>15, <1>20, <1>23, <1>24, <1>25 DEF DBSync

\* What is left of the queue q: all that writes or deletes something but for a dependency,
\* in the same order
Rest(q, r) ==
    /\ \A n \in DOMAIN r : \E m \in DOMAIN q : r[n] = q[m]
    /\ \A m, n \in DOMAIN q :
          /\ {q[m].kind, q[n].kind} \subseteq {"config", "relations"} /\ m <= n
          => \E k, l \in DOMAIN r : k <= l /\ r[k] = q[m] /\ r[l] = q[n]

LEMMA RestOfErase ==
  ASSUME NEW hs, NEW ds, NEW q, QueueOK(hs, ds, q),
         NEW x \in Items, x.kind \in {"edge", "groupState"}
  PROVE  QueueOK(hs, ds, Erase(q, x)) /\ Rest(q, Erase(q, x))
<1> DEFINE r == Erase(q, x)
<1>0. q \in Seq(Items) /\ Unique(q) BY DEF QueueOK
<1>1. /\ r \in Seq(Items) /\ Unique(r)
      /\ \A n \in DOMAIN r : \E m \in DOMAIN q : r[n] = q[m] /\ ~Same(q[m], x)
      /\ \A m, n \in DOMAIN q : ~Same(q[m], x) /\ ~Same(q[n], x) /\ m <= n =>
            \E k, l \in DOMAIN r : k <= l /\ r[k] = q[m] /\ r[l] = q[n]
  BY <1>0, EraseFacts
<1> HIDE DEF r
<1>2. \A n \in DOMAIN r : ItemOK(hs, ds, r[n]) BY <1>1 DEF QueueOK
<1>3. \A m \in DOMAIN q : q[m].kind \in {"config", "relations"} => ~Same(q[m], x) BY DEF Same
<1>4. Rest(q, r) BY <1>1, <1>3 DEF Rest
<1> QED BY <1>1, <1>2, <1>4 DEF QueueOK, r

LEMMA RestOfRest ==
  ASSUME NEW q, NEW r, NEW s, Rest(q, r), Rest(r, s)
  PROVE  Rest(q, s)
<1>1. \A n \in DOMAIN s : \E m \in DOMAIN q : s[n] = q[m] BY DEF Rest
<1>2. ASSUME NEW m \in DOMAIN q, NEW n \in DOMAIN q, {q[m].kind, q[n].kind} \subseteq {"config", "relations"}, m <= n
      PROVE  \E k, l \in DOMAIN s : k <= l /\ s[k] = q[m] /\ s[l] = q[n]
  <2>1. PICK i \in DOMAIN r, j \in DOMAIN r : i <= j /\ r[i] = q[m] /\ r[j] = q[n] BY <1>2 DEF Rest
  <2>2. {r[i].kind, r[j].kind} \subseteq {"config", "relations"} BY <1>2, <2>1
  <2>3. PICK k \in DOMAIN s, l \in DOMAIN s : k <= l /\ s[k] = r[i] /\ s[l] = r[j]
    BY <2>1, <2>2 DEF Rest
  <2> QED BY <2>1, <2>3
<1> QED BY <1>1, <1>2 DEF Rest

LEMMA RestOfItself ==
  ASSUME NEW q PROVE Rest(q, q)
BY DEF Rest

\* The order of two items that are left
LEMMA RestOrder ==
  ASSUME NEW q \in Seq(Items), NEW r \in Seq(Items), Unique(r), Rest(q, r),
         NEW m \in DOMAIN r, NEW n \in DOMAIN r, NEW i \in DOMAIN q, NEW j \in DOMAIN q,
         r[m] = q[i], r[n] = q[j], {r[m].kind, r[n].kind} \subseteq {"config", "relations"}, m < n
  PROVE  i < j
<1>0. /\ DOMAIN q = 1..Len(q) /\ Len(q) \in Nat /\ DOMAIN r = 1..Len(r) /\ Len(r) \in Nat
  OBVIOUS
<1>1. SUFFICES ASSUME j <= i PROVE FALSE BY <1>0
<1>2. {q[i].kind, q[j].kind} \subseteq {"config", "relations"} OBVIOUS
<1>3. PICK k \in DOMAIN r, l \in DOMAIN r : k <= l /\ r[k] = q[j] /\ r[l] = q[i]
  BY <1>1, <1>2 DEF Rest
<1>4. k = n /\ l = m BY <1>3 DEF Unique, Same
<1> QED BY <1>0, <1>3, <1>4

\* What the rest does
LEMMA RestKeeps ==
  ASSUME NEW hs, NEW ds \in Nat, hs \in 0..MaxObjects, NEW q, NEW r, QueueOK(hs, ds, q), QueueOK(hs, ds, r), Rest(q, r),
         NEW h, OfTheirTime(h, q), HostLast(h, q)
  PROVE  /\ OfTheirTime(h, r) /\ HostLast(h, r)
         /\ \A bit : PendingBit(h, q, bit) => PendingBit(h, r, bit)
         /\ \A e : DeletedIn(h, q, e) <=> DeletedIn(h, r, e)
<1>0. q \in Seq(Items) /\ r \in Seq(Items) /\ Unique(r) /\ DOMAIN q \subseteq Nat BY DEF QueueOK
<1>1. \A n \in DOMAIN r : \E m \in DOMAIN q : r[n] = q[m] BY DEF Rest
<1>2. \A m \in DOMAIN q : q[m].kind \in {"config", "relations"} => \E n \in DOMAIN r : r[n] = q[m]
  <2> SUFFICES ASSUME NEW m \in DOMAIN q, q[m].kind \in {"config", "relations"} PROVE \E n \in DOMAIN r : r[n] = q[m]
    OBVIOUS
  <2>1. m <= m BY <1>0
  <2> QED BY <2>1 DEF Rest
<1>3. OfTheirTime(h, r) BY <1>1 DEF OfTheirTime
<1>4. HostLast(h, r)
  <2> SUFFICES ASSUME NEW m \in DOMAIN r, NEW n \in DOMAIN r,
                      r[m].kind = "config", r[m].key # 0, r[m].key = h, r[n].kind = "config", n > m
               PROVE  r[n].key = 0
    BY DEF HostLast
  <2>1. PICK i \in DOMAIN q : r[m] = q[i] BY <1>1
  <2>2. PICK j \in DOMAIN q : r[n] = q[j] BY <1>1
  <2>a. DOMAIN r \subseteq Nat /\ DOMAIN q \subseteq Nat BY <1>0
  <2>b. m < n BY <2>a
  <2>3. i < j BY <2>1, <2>2, <2>b, <1>0, RestOrder
  <2>4. j > i BY <2>3, <2>a
  <2> QED BY <2>1, <2>2, <2>4 DEF HostLast
<1>5. \A bit : PendingBit(h, q, bit) => PendingBit(h, r, bit) BY <1>2 DEF PendingBit, HasBit
<1>6. \A e : DeletedIn(h, r, e) => DeletedIn(h, q, e) BY <1>1 DEF DeletedIn
<1>7. ASSUME NEW e, DeletedIn(h, q, e) PROVE DeletedIn(h, r, e)
  <2>1. PICK m \in DOMAIN q : e \in D(h, q[m]) BY <1>7 DEF DeletedIn
  <2>2. q[m].kind \in {"config", "relations"} BY <2>1 DEF D
  <2> QED BY <2>1, <2>2, <1>2 DEF DeletedIn
<1> QED BY <1>3, <1>4, <1>5, <1>6, <1>7

\* What is kept by the rest once there is no dependency any more
LEMMA RestKept ==
  ASSUME NEW hs, NEW ds \in Nat, hs \in 0..MaxObjects, NEW q, NEW r, QueueOK(hs, ds, q), QueueOK(hs, ds, r), Rest(q, r),
         NEW h, NEW g \in [Hosts -> SUBSET Groups], NEW d, NEW it, it = NoItem \/ ItemOK(hs, ds, it),
         NEW base, NEW base2, NEW e, e \notin DependencyEntries, e \in base => e \in base2,
         \A a : DeletedIn(h, q, a) <=> DeletedIn(h, r, a), Kept(h, g, d, base, it, q, e)
  PROVE  Kept(h, g, 0, base2, it, r, e)
<1>0. q \in Seq(Items) /\ r \in Seq(Items) /\ Unique(r) /\ DOMAIN q \subseteq Nat /\ DOMAIN r \subseteq Nat
  BY DEF QueueOK
<1>1. CASE e \in base /\ ~Deleted(h, it, q, e) BY <1>1 DEF Kept, Deleted
<1>2. CASE e \in TakenW(h, g, d, it) /\ ~DeletedIn(h, q, e)
  <2>1. e \in TakenW(h, g, 0, it) BY <1>2, DependencyWrites DEF TakenW
  <2> QED BY <2>1, <1>2 DEF Kept, WrittenLast
<1>3. CASE \E n \in DOMAIN q : e \in W(h, g, d, q[n]) /\ \A m \in DOMAIN q : m > n => e \notin D(h, q[m])
  <2>1. PICK n \in DOMAIN q : e \in W(h, g, d, q[n]) /\ \A m \in DOMAIN q : m > n => e \notin D(h, q[m])
    BY <1>3
  <2>2. ItemOK(hs, ds, q[n]) BY DEF QueueOK
  <2>3. e \in W(h, g, 0, q[n]) BY <2>1, <2>2, DependencyWrites
  <2>4. q[n].kind = "config" BY <2>1 DEF W, DependencyEntries
  <2>5. n <= n /\ {q[n].kind, q[n].kind} \subseteq {"config", "relations"} BY <2>4, <1>0
  <2>6. PICK k \in DOMAIN r : r[k] = q[n] BY <2>5 DEF Rest
  <2>7. ASSUME NEW m \in DOMAIN r, m > k, e \in D(h, r[m]) PROVE FALSE
    <3>1. PICK j \in DOMAIN q : r[m] = q[j] BY DEF Rest
    <3>2. r[m].kind \in {"config", "relations"} BY <2>7 DEF D
    <3>3. k < m BY <2>7, <1>0
    <3>4. {r[k].kind, r[m].kind} \subseteq {"config", "relations"} BY <3>2, <2>4, <2>6
    <3>5. n < j BY <3>1, <3>3, <3>4, <2>6, <1>0, RestOrder
    <3>6. j > n BY <3>5, <1>0
    <3> QED BY <3>1, <3>6, <2>1, <2>7
  <2> QED BY <2>3, <2>6, <2>7 DEF Kept, WrittenLast
<1> QED BY <1>1, <1>2, <1>3 DEF Kept, WrittenLast

LEMMA FiveItems ==
  ASSUME NEW a \in Items, NEW b \in Items, NEW c \in Items, NEW p \in Items, NEW s \in Items
  PROVE  LET items == <<a>> \o <<b, c, p, s>>
         IN  /\ items \in Seq(Items) /\ DOMAIN items = 1..5
             /\ items[1] = a /\ items[2] = b /\ items[3] = c /\ items[4] = p /\ items[5] = s
<1> DEFINE u == <<a>>
           v == <<b, c, p, s>>
           w == u \o v
<1>1. u \in Seq(Items) /\ Len(u) = 1 /\ u[1] = a OBVIOUS
<1>2. v \in Seq(Items) /\ Len(v) = 4 /\ v[1] = b /\ v[2] = c /\ v[3] = p /\ v[4] = s OBVIOUS
<1> HIDE DEF u, v
<1>3. /\ w \in Seq(Items) /\ Len(w) = Len(u) + Len(v)
      /\ \A i \in 1..(Len(u) + Len(v)) : w[i] = IF i <= Len(u) THEN u[i] ELSE v[i - Len(u)]
  BY <1>1, <1>2, ConcatProperties
<1> HIDE DEF w
<1>4. Len(w) = 5 /\ \A i \in 1..5 : w[i] = IF i <= 1 THEN u[i] ELSE v[i - 1] BY <1>1, <1>2, <1>3
<1>5. DOMAIN w = 1..5
  <2>1. w \in Seq(Items) BY <1>3
  <2>2. DOMAIN w = 1..Len(w) BY <2>1
  <2> QED BY <2>2, <1>4
<1>6. w[1] = u[1] /\ w[2] = v[2 - 1] /\ w[3] = v[3 - 1] /\ w[4] = v[4 - 1] /\ w[5] = v[5 - 1]
  BY <1>4
<1>7. w[1] = a /\ w[2] = b /\ w[3] = c /\ w[4] = p /\ w[5] = s BY <1>1, <1>2, <1>6
<1> QED BY <1>3, <1>5, <1>7 DEF u, v, w

\* The deletions when the last child of a dependency group is gone: all of them, or, if the
\* registration was cancelled, that of the child only
LEMMA RemovedItems ==
  ASSUME NEW hs \in Nat, NEW ds, NEW h, NEW items,
         LET node == <<RelationsDeletion("child", {"childNode"})>>
         IN  items \in {node, node \o <<RelationsDeletion("edgeId", {"edge"}),
                                        ConfigItem(ParentHost, {"ConfigUpdate"}),
                                        RelationsDeletion("parent", {"parentNode"}),
                                        RelationsDeletion("edgeStateId", {"edgeState"})>>}
  PROVE  /\ Compatible(items) /\ \A m \in DOMAIN items : ItemOK(hs, ds, items[m])
         /\ Current(h, items) /\ \A m \in DOMAIN items : D(h, items[m]) \subseteq DependencyEntries
         /\ \E m \in DOMAIN items : "childNode" \in D(h, items[m])
         /\ items # <<RelationsDeletion("child", {"childNode"})>> =>
               \A e \in DependencyEntries : \E m \in DOMAIN items : e \in D(h, items[m])
<1> DEFINE a == RelationsDeletion("child", {"childNode"})
           b == RelationsDeletion("edgeId", {"edge"})
           c == ConfigItem(0, {"ConfigUpdate"})
           p == RelationsDeletion("parent", {"parentNode"})
           s == RelationsDeletion("edgeStateId", {"edgeState"})
<1>1. /\ a \in Items /\ a.kind = "relations" /\ a.key = "child" /\ ItemOK(hs, ds, a) /\ D(h, a) = {"childNode"}
      /\ b \in Items /\ b.kind = "relations" /\ b.key = "edgeId" /\ ItemOK(hs, ds, b) /\ D(h, b) = {"edge"}
      /\ p \in Items /\ p.kind = "relations" /\ p.key = "parent" /\ ItemOK(hs, ds, p) /\ D(h, p) = {"parentNode"}
      /\ s \in Items /\ s.kind = "relations" /\ s.key = "edgeStateId" /\ ItemOK(hs, ds, s) /\ D(h, s) = {"edgeState"}
  <2>1. /\ "child" \in RelationIds /\ {"childNode"} \subseteq EntriesOf("child") /\ {"childNode"} \subseteq Entries
        /\ "edgeId" \in RelationIds /\ {"edge"} \subseteq EntriesOf("edgeId") /\ {"edge"} \subseteq Entries
        /\ "parent" \in RelationIds /\ {"parentNode"} \subseteq EntriesOf("parent") /\ {"parentNode"} \subseteq Entries
        /\ "edgeStateId" \in RelationIds /\ {"edgeState"} \subseteq EntriesOf("edgeStateId")
        /\ {"edgeState"} \subseteq Entries
    BY DEF RelationIds, EntriesOf, Entries, DependencyEntries
  <2> QED BY <2>1, RelationItems
<1>2. c \in Items /\ c.kind = "config" /\ c.key = 0 /\ c.what = {"ConfigUpdate"}
  BY ConfigItems DEF Bits
<1> HIDE DEF a, b, c, p, s
<1>3. ItemOK(hs, ds, c) /\ D(h, c) = {} BY <1>2 DEF ItemOK, D, Bits
<1>4. items = <<a>> \/ items = <<a>> \o <<b, c, p, s>> BY DEF a, b, c, p, s, ParentHost
<1>5. CASE items = <<a>>
  <2>1. items \in Seq(Items) /\ DOMAIN items = {1} /\ items[1] = a BY <1>1, <1>5
  <2>2. Compatible(items) BY <2>1 DEF Compatible
  <2>3. Current(h, items) BY <2>1, <1>1 DEF Current
  <2> QED BY <2>1, <2>2, <2>3, <1>1, <1>5 DEF DependencyEntries, a
<1>6. CASE items = <<a>> \o <<b, c, p, s>>
  <2>1. /\ items \in Seq(Items) /\ DOMAIN items = 1..5
        /\ items[1] = a /\ items[2] = b /\ items[3] = c /\ items[4] = p /\ items[5] = s
    BY <1>1, <1>2, <1>6, FiveItems
  <2>2. \A n \in DOMAIN items : n = 1 \/ n = 2 \/ n = 3 \/ n = 4 \/ n = 5 BY <2>1
  <2>3. 1 \in DOMAIN items /\ 2 \in DOMAIN items /\ 3 \in DOMAIN items /\ 4 \in DOMAIN items /\ 5 \in DOMAIN items
    BY <2>1
  <2>4. Compatible(items) BY <2>1, <2>2, <1>1, <1>2 DEF Compatible, Same
  <2>5. Current(h, items) BY <2>1, <2>2, <1>1, <1>2 DEF Current
  <2>6. \A m \in DOMAIN items : ItemOK(hs, ds, items[m]) BY <2>1, <2>2, <1>1, <1>3
  <2>7. \A m \in DOMAIN items : D(h, items[m]) \subseteq DependencyEntries
    BY <2>1, <2>2, <1>1, <1>3 DEF DependencyEntries
  <2>8. \A e \in DependencyEntries : \E m \in DOMAIN items : e \in D(h, items[m])
    BY <2>1, <2>3, <1>1 DEF DependencyEntries
  <2> QED BY <2>4, <2>5, <2>6, <2>7, <2>8 DEF DependencyEntries
<1> QED BY <1>4, <1>5, <1>6

LEMMA RemovedKeeps == DBInv /\ DependencyGroupChildRemovedHandler => DBInv'
<1> SUFFICES ASSUME DBInv, DependencyGroupChildRemovedHandler PROVE DBInv' OBVIOUS
<1> DEFINE node == <<RelationsDeletion("child", {"childNode"})>>
           all == node \o <<RelationsDeletion("edgeId", {"edge"}), ConfigItem(ParentHost, {"ConfigUpdate"}),
                            RelationsDeletion("parent", {"parentNode"}), RelationsDeletion("edgeStateId", {"edgeState"})>>
           cancelled == Pending(queue, EdgeItem(depGroup, host))
           rest == IF cancelled THEN Erase(Erase(queue, EdgeItem(depGroup, host)), GroupStateItem(depGroup))
                                ELSE queue
           items == IF cancelled /\ depGroup \notin identified THEN node ELSE all
<1>0. /\ hosts \in Nat /\ depGroups \in Nat /\ host \in 0..hosts /\ host # 0 /\ host \in Nat \ {0} /\ host \in Hosts
      /\ depGroup \in 1..depGroups /\ groups \in [Hosts -> SUBSET Groups] /\ hosts \in 0..MaxObjects
  BY DEF DependencyGroupChildRemovedHandler, DBInv, DBTypes, Hosts
<1>1. /\ depGroup' = 0
      /\ UNCHANGED <<host, hosts, groups, depGroups, result, connected, reconnected, dump,
                     unread, reading, dumped, serializing, item, redis, stale, late>>
      /\ Post(rest, items)
      /\ \/ leftover' = leftover /\ items = all
         \/ /\ depGroup \notin identified
            /\ leftover' = IF connected THEN leftover \cup NotDeleted ELSE leftover
  BY DEF DependencyGroupChildRemovedHandler, handlerVars, connVars, dumpVars
<1>2. items \in {node, all} OBVIOUS
<1>3. QueueOK(hosts, depGroups, queue) BY DEF DBInv, DBTypes
<1>4. QueueOK(hosts, depGroups, rest) /\ Rest(queue, rest)
  <2>1. CASE cancelled
    <3> DEFINE half == Erase(queue, EdgeItem(depGroup, host))
    <3>1. /\ EdgeItem(depGroup, host) \in Items /\ EdgeItem(depGroup, host).kind \in {"edge", "groupState"}
          /\ GroupStateItem(depGroup) \in Items /\ GroupStateItem(depGroup).kind \in {"edge", "groupState"}
      <4>1. host \in Nat BY <1>0
      <4>2. EdgeItem(depGroup, host) \in Items /\ EdgeItem(depGroup, host).kind = "edge"
        BY <4>1, <1>0, DependencyItems
      <4>3. GroupStateItem(depGroup) \in Items /\ GroupStateItem(depGroup).kind = "groupState"
        BY <4>1, <1>0, DependencyItems
      <4> QED BY <4>2, <4>3
    <3>2. QueueOK(hosts, depGroups, half) /\ Rest(queue, half) BY <3>1, <1>3, RestOfErase
    <3>3. QueueOK(hosts, depGroups, Erase(half, GroupStateItem(depGroup))) /\ Rest(half, Erase(half, GroupStateItem(depGroup)))
      BY <3>1, <3>2, RestOfErase
    <3> QED BY <3>2, <3>3, <2>1, RestOfRest
  <2>2. CASE ~cancelled BY <2>2, <1>3, RestOfItself
  <2> QED BY <2>1, <2>2
<1>5. node # all
  <2>1. Len(node) = 1 OBVIOUS
  <2>2. Len(all) = 5 OBVIOUS
  <2> QED BY <2>1, <2>2
<1>6. /\ Compatible(items) /\ \A m \in DOMAIN items : ItemOK(hosts, depGroups, items[m])
      /\ Current(host, items) /\ \A m \in DOMAIN items : D(host, items[m]) \subseteq DependencyEntries
      /\ \E m \in DOMAIN items : "childNode" \in D(host, items[m])
      /\ items = all => \A e \in DependencyEntries : \E m \in DOMAIN items : e \in D(host, items[m])
  <2> HIDE DEF items
  <2>1. LET first == <<RelationsDeletion("child", {"childNode"})>>
        IN  items \in {first, first \o <<RelationsDeletion("edgeId", {"edge"}),
                                         ConfigItem(ParentHost, {"ConfigUpdate"}),
                                         RelationsDeletion("parent", {"parentNode"}),
                                         RelationsDeletion("edgeStateId", {"edgeState"})>>}
    BY <1>2
  <2>2. items = all => items # node BY <1>5
  <2> HIDE DEF all
  <2> QED BY <2>1, <2>2, <1>0, RemovedItems
<1> HIDE DEF node, all, rest, items
<1>7. /\ QueueOK(hosts, depGroups, queue') /\ unsent' \in BOOLEAN
      /\ overtaken' \subseteq Groups \cup DependencyEntries
      /\ ~connected => unsent'
      /\ connected => /\ Extends(rest, items, Len(items), queue') /\ unsent' = unsent
                      /\ overtaken' = overtaken \cup Overtakes(queue', items)
  <2>1. hosts' = hosts /\ depGroups' = depGroups /\ DBTypes /\ groups' \in [Hosts -> SUBSET Groups]
        /\ depGroups \in 0..MaxDependencies
    BY <1>0, <1>1 DEF DBInv, DBTypes
  <2> QED BY <2>1, <1>0, <1>1, <1>3, <1>4, <1>6, Posted
<1>8. leftover' \subseteq {"parentNode", "edge", "edgeState"} BY <1>1 DEF DBInv, DBTypes, NotDeleted
<1>9. DBTypes' BY <1>0, <1>1, <1>7, <1>8 DEF DBInv, DBTypes
<1>10. SUFFICES ASSUME DBClean' PROVE DBSync' BY <1>9 DEF DBInv
<1>11. /\ connected /\ DBSync /\ Extends(rest, items, Len(items), queue')
       /\ overtaken \subseteq overtaken'
  BY <1>1, <1>7, <1>10 DEF DBInv, DBTypes, DBClean
<1>12. rest \in Seq(Items) BY <1>4 DEF QueueOK
<1>13. /\ OfTheirTime(host, rest) /\ HostLast(host, rest)
       /\ \A bit : PendingBit(host, queue, bit) => PendingBit(host, rest, bit)
       /\ \A e : DeletedIn(host, queue, e) <=> DeletedIn(host, rest, e)
  BY <1>0, <1>3, <1>4, <1>11, RestKeeps DEF DBSync
<1>14. /\ OfTheirTime(host, queue') /\ HostLast(host, queue')
       /\ NoRevival(rest, items) /\ NoDeletion(items)
       /\ \A bit : PendingBit(host, queue, bit) => PendingBit(host, queue', bit)
       /\ \A e : DeletedIn(host, queue, e) => DeletedIn(host, queue', e)
  BY <1>6, <1>11, <1>12, <1>13, CurrentStays
<1>15. \A e : (\E m \in DOMAIN items : e \in D(host, items[m])) => DeletedIn(host, queue', e)
  BY <1>6, <1>11, <1>12, DeletedNow
<1>16. LastDump' <=> LastDump BY <1>1 DEF LastDump
<1>17. /\ Wanted(host, groups, depGroup) = Wanted(host, groups, 0) \cup DependencyEntries
       /\ Wanted(host, groups, 0) \cap DependencyEntries = {}
  <2>1. groups[host] \subseteq Groups /\ depGroup # 0 BY <1>0
  <2> QED BY <2>1, <1>0 DEF Wanted, DependencyEntries
<1>a. /\ Base' \subseteq Base
      /\ \A e \in Base : e \in DependencyEntries \/ e \in Base'
      /\ LastDump => \A e \in Base' : e \in DependencyEntries => e \in Present
  <2>1. /\ ToRead' \subseteq ToRead
        /\ \A e \in ToRead : e \in DependencyEntries \/ e \in ToRead'
        /\ \A e \in ToRead' : e \notin DependencyEntries
    <3>1. "nextUpdate" \notin DependencyEntries BY DEF DependencyEntries
    <3> QED BY <3>1, <1>1, <1>17 DEF ToRead
  <2> QED BY <2>1, <1>1, <1>16, <1>17 DEF Base, Present
\* What there is of the dependency is deleted, or nothing does and it is left over.
<1>b. leftover \subseteq leftover' BY <1>1
<1>c. \/ \A e \in DependencyEntries : DeletedIn(host, queue', e)
      \/ depGroup \notin identified /\ NotDeleted \subseteq leftover' /\ DeletedIn(host, queue', "childNode")
  <2>1. CASE items = all BY <2>1, <1>6, <1>15
  <2>2. CASE depGroup \notin identified /\ leftover' = leftover \cup NotDeleted BY <2>2, <1>6, <1>15
  <2> QED BY <2>1, <2>2, <1>1, <1>11
<1>18. ASSUME LastDump, NEW e \in Present, e \in DependencyEntries
       PROVE  e \in leftover' \/ Deleted(host, item, queue', e)
  <2>1. CASE \A a \in DependencyEntries : DeletedIn(host, queue', a) BY <2>1, <1>18 DEF Deleted
  <2>2. CASE depGroup \notin identified /\ NotDeleted \subseteq leftover' /\ DeletedIn(host, queue', "childNode")
    <3>1. CASE e = "childNode" BY <3>1, <2>2 DEF Deleted
    <3>2. CASE e = "parentNode"
      <4>1. e \in NotDeleted BY <3>2, <1>18 DEF NotDeleted, Present
      <4> QED BY <4>1, <2>2
    <3>3. CASE e \in {"edge", "edgeState"}
      <4>1. CASE dump = "listed" /\ serializing = depGroup
        <5>1. e \in NotDeleted BY <4>1, <3>3, <1>18 DEF NotDeleted, Present
        <5> QED BY <5>1, <2>2
      <4>2. CASE ~(dump = "listed" /\ serializing = depGroup)
        <5>1. depGroup # 0 BY <1>0
        <5>2. e \in leftover \/ Deleted(host, item, queue, e)
          BY <5>1, <4>2, <3>3, <2>2, <1>11, <1>18 DEF DBSync, Earlier
        <5> QED BY <5>2, <1>14, <1>b DEF Deleted
      <4> QED BY <4>1, <4>2
    <3> QED BY <3>1, <3>2, <3>3, <1>18 DEF DependencyEntries
  <2> QED BY <2>1, <2>2, <1>c
\* The same for what the worker has read of it
<1>d. ASSUME item.kind = "queries", NEW e \in item.what, e \in DependencyEntries
      PROVE  e \in leftover' \/ DeletedIn(host, queue', e)
  <2>1. CASE \A a \in DependencyEntries : DeletedIn(host, queue', a) BY <2>1, <1>d
  <2>2. CASE depGroup \notin identified /\ NotDeleted \subseteq leftover' /\ DeletedIn(host, queue', "childNode")
    <3>1. CASE e = "childNode" BY <3>1, <2>2
    <3>2. CASE e = "parentNode"
      <4>1. e \in NotDeleted BY <3>2, <1>d DEF NotDeleted
      <4> QED BY <4>1, <2>2
    <3>3. CASE e \in {"edge", "edgeState"} /\ serializing = depGroup
      <4>1. e \in NotDeleted BY <3>3, <1>d DEF NotDeleted
      <4> QED BY <4>1, <2>2
    <3>4. CASE e \in {"edge", "edgeState"} /\ serializing # depGroup
      <4>1. depGroup # 0 BY <1>0
      <4>2. LastDump
        <5>1. item # NoItem BY <1>d, NoItemDoes
        <5> QED BY <5>1 DEF LastDump, DBInv, DBTypes
      <4>3. e \in leftover \/ DeletedIn(host, queue, e)
        BY <4>1, <4>2, <3>4, <2>2, <1>11, <1>d DEF DBSync, Earlier
      <4> QED BY <4>3, <1>14, <1>b
    <3> QED BY <3>1, <3>2, <3>4, <3>3, <1>d DEF DependencyEntries
  <2> QED BY <2>1, <2>2, <1>c
<1>19. ItemOK(hosts, depGroups, item) BY DEF DBInv, DBTypes
<1>20. Sound'
  <2>1. ASSUME NEW e \in Base'
        PROVE  e \in Wanted(host, groups, 0) \cup leftover' \/ Deleted(host, item, queue', e)
    <3>1. CASE ~LastDump BY <3>1, <2>1, <1>1, <1>16 DEF Base
    <3>2. CASE LastDump
      <4>1. e \in Wanted(host, groups, depGroup) \cup leftover \/ Deleted(host, item, queue, e)
        BY <2>1, <1>11, <1>a DEF DBSync, Sound
      <4>2. CASE Deleted(host, item, queue, e) BY <4>2, <1>14 DEF Deleted
      <4>3. CASE e \in DependencyEntries BY <4>3, <3>2, <2>1, <1>18, <1>a
      <4> QED BY <4>1, <4>2, <4>3, <1>17, <1>b
    <3> QED BY <3>1, <3>2
  <2>2. ASSUME NEW e \in TakenW(host, groups, 0, item)
        PROVE  e \in Wanted(host, groups, 0) \cup leftover' \/ DeletedIn(host, queue', e)
    <3>1. \/ e \notin DependencyEntries
          \/ item.kind = "queries" /\ e \in item.what
      BY <2>2, <1>0, <1>19, DependencyWrites DEF TakenW
    <3>2. e \in TakenW(host, groups, depGroup, item)
      BY <2>2, <1>0, <1>19, DependencyWrites DEF TakenW
    <3>3. e \in Wanted(host, groups, depGroup) \cup leftover \/ DeletedIn(host, queue, e)
      BY <3>2, <1>11 DEF DBSync, Sound
    <3>4. CASE e \notin DependencyEntries BY <3>3, <3>4, <1>14, <1>17, <1>b
    <3>5. CASE item.kind = "queries" /\ e \in item.what /\ e \in DependencyEntries BY <3>5, <1>d
    <3> QED BY <3>1, <3>4, <3>5
  <2> QED BY <2>1, <2>2, <1>1 DEF Sound
<1>21. Complete'
  <2> SUFFICES ASSUME NEW e \in Wanted(host, groups, 0), e \notin overtaken'
               PROVE  Kept(host, groups, 0, Base', item, queue', e)
    BY <1>1 DEF Complete
  <2>1. e \notin DependencyEntries /\ e \in Wanted(host, groups, depGroup) /\ e \notin overtaken
    BY <1>11, <1>17
  <2>2. Kept(host, groups, depGroup, Base, item, queue, e) BY <2>1, <1>11 DEF DBSync, Complete
  <2>3. e \in Base => e \in Base' BY <2>1, <1>a
  <2>4. Kept(host, groups, 0, Base', item, rest, e)
    BY <2>1, <2>2, <2>3, <1>0, <1>3, <1>4, <1>13, <1>19, RestKept
  <2>5. \A m \in DOMAIN items : e \notin D(host, items[m]) BY <2>1, <1>6
  <2> QED BY <2>4, <2>5, <1>6, <1>11, <1>12, <1>14, KeptStays
<1>22. Fresh' BY <1>1, <1>11, <1>14, <1>16 DEF DBSync, Fresh
<1>23. Earlier' BY <1>1 DEF Earlier
<1> QED BY <1>1, <1>14, <1>20, <1>21, <1>22, <1>23 DEF DBSync

-----------------------------------------------------------------------------
LEMMA DBInitially == IcingaDBInit => DBInv
<1> SUFFICES ASSUME IcingaDBInit PROVE DBInv OBVIOUS
<1>1. /\ hosts \in 0..MaxObjects /\ depGroups \in 0..MaxDependencies
      /\ host = 0 /\ groups = [k \in Hosts |-> {}] /\ depGroup = 0 /\ result = 0 /\ dump = "idle"
      /\ connected = FALSE /\ reconnected = FALSE /\ unsent = FALSE /\ late = FALSE
      /\ queue = <<>> /\ item = NoItem /\ overtaken = {} /\ leftover = {}
      /\ unread = {} /\ reading = 0 /\ dumped = {} /\ serializing = 0
  BY DEF IcingaDBInit
<1>2. queue \in Seq(Items) /\ DOMAIN queue = {} BY <1>1
<1>3. QueueOK(hosts, depGroups, queue) BY <1>2 DEF QueueOK, Unique
<1>4. groups \in [Hosts -> SUBSET Groups] BY <1>1
<1>5. DBTypes
  <2>1. 0 \in 0..hosts /\ 0 \in 0..depGroups BY <1>1
  <2>2. dump # "done" => item = NoItem BY <1>1
  <2>3. ItemOK(hosts, depGroups, item) /\ item.kind = "none" BY <1>1, NoItemDoes
  <2>4. /\ connected \in BOOLEAN /\ reconnected \in BOOLEAN /\ unsent \in BOOLEAN /\ late \in BOOLEAN
        /\ result \in 0..hosts /\ reading \in 0..hosts /\ serializing \in 0..depGroups /\ unread \subseteq 0..hosts
    BY <1>1, <2>1
  <2>5. host \in {0, hosts} /\ depGroup \in {0, depGroups} /\ depGroup = 0 BY <1>1
  <2>6. leftover \subseteq {"parentNode", "edge", "edgeState"} /\ overtaken \subseteq Groups \cup DependencyEntries
    BY <1>1
  <2> HIDE DEF NoItem
  <2> QED BY <1>1, <1>3, <1>4, <2>2, <2>3, <2>4, <2>5, <2>6 DEF DBTypes
<1>6. OfTheirTime(host, queue) /\ HostLast(host, queue) BY <1>2 DEF OfTheirTime, HostLast
<1>7. Wanted(host, groups, depGroup) = {} BY <1>1 DEF Wanted
<1>8. Base = {} BY <1>1, <1>7 DEF Base, LastDump
<1>9. Sound BY <1>1, <1>8, NoItemDoes DEF Sound
<1>10. Complete BY <1>7 DEF Complete
<1>11. Fresh BY <1>1 DEF Fresh
<1>12. Earlier BY <1>1 DEF Earlier
<1> QED BY <1>5, <1>6, <1>9, <1>10, <1>11, <1>12 DEF DBInv, DBSync

LEMMA DBInductive == DBInv /\ [IcingaDBNext]_icingadbVars => DBInv'
<1> SUFFICES ASSUME DBInv, [IcingaDBNext]_icingadbVars PROVE DBInv' OBVIOUS
<1>1. CASE UNCHANGED icingadbVars
  BY <1>1 DEF icingadbVars, objectVars, connVars, dumpVars, DBInv, DBTypes, DBClean, DBSync, OfTheirTime, HostLast,
              Sound, Complete, Fresh, Earlier, Base, ToRead, Present, LastDump, QueueOK, Deleted, DeletedIn, Kept,
              WrittenLast, PendingBit, HasBit
<1>2. CASE \E new \in SUBSET Groups : ModifyHost(new) BY <1>2, ModifyHostKeeps
<1>3. CASE \E k \in Hosts : DumpReadHost(k) BY <1>3, DumpReadHostKeeps
<1> QED BY <1>1, <1>2, <1>3, CreateHostKeeps, DeleteHostKeeps, ResultProcessedKeeps, NewCheckResultKeeps,
           RegisteredKeeps, RemovedKeeps, ConnectionKeeps, DumpBeginKeeps, DumpListKeeps, DumpReadParentKeeps,
           DumpReadEndKeeps, DumpWriteKeeps, DumpEndKeeps, WorkerTakeKeeps, WorkerReadKeeps,
           WorkerSerializeKeeps, WorkerSendKeeps
        DEF IcingaDBNext

\* Only those entries of a host are outdated that have a value.
StaleTypes == stale \subseteq {"config", "state"}

LEMMA StaleStays == StaleTypes /\ [IcingaDBNext]_icingadbVars => StaleTypes'
<1> SUFFICES ASSUME StaleTypes, [IcingaDBNext]_icingadbVars PROVE StaleTypes' OBVIOUS
<1>1. CASE stale' = stale BY <1>1 DEF StaleTypes
<1>2. CASE CreateHost BY <1>2 DEF CreateHost, StaleTypes
<1>3. CASE \E new \in SUBSET Groups : ModifyHost(new) BY <1>3 DEF ModifyHost, StaleTypes
<1>4. CASE DeleteHost BY <1>4 DEF DeleteHost, StaleTypes
<1>5. CASE ResultProcessed BY <1>5 DEF ResultProcessed, StaleTypes
<1>6. CASE NewCheckResultHandler BY <1>6, <1>1 DEF NewCheckResultHandler
<1>7. CASE DependencyGroupChildRegisteredHandler
  BY <1>7, <1>1 DEF DependencyGroupChildRegisteredHandler
<1>8. CASE DependencyGroupChildRemovedHandler BY <1>8, <1>1 DEF DependencyGroupChildRemovedHandler
<1>9. CASE \/ RedisConnect \/ RedisDisconnect \/ DumpBegin \/ DumpList \/ DumpReadParent \/ DumpReadEnd
           \/ DumpWrite \/ DumpEnd \/ WorkerTake \/ WorkerSerialize \/ WorkerSend
  BY <1>9, <1>1 DEF RedisConnect, RedisDisconnect, DumpBegin, DumpList, DumpReadParent, DumpReadEnd, DumpWrite,
                    DumpEnd, WorkerTake, WorkerSerialize, WorkerSend
<1>10. CASE \E k \in Hosts : DumpReadHost(k) BY <1>10 DEF DumpReadHost, StaleTypes
<1>11. CASE WorkerRead
  <2>1. \/ stale' \subseteq stale
        \/ stale' = stale \cup (Writes(item) \cap {"config", "state"})
    BY <1>11 DEF WorkerRead
  <2> QED BY <2>1 DEF StaleTypes
<1>12. CASE UNCHANGED icingadbVars BY <1>12, <1>1 DEF icingadbVars
<1> QED BY <1>2, <1>3, <1>4, <1>5, <1>6, <1>7, <1>8, <1>9, <1>10, <1>11, <1>12 DEF IcingaDBNext

LEMMA DBInvInSync == DBInv /\ StaleTypes => RedisInSync
<1> SUFFICES ASSUME DBInv, StaleTypes, Processed, ~unsent, ~late
             PROVE  /\ redis \subseteq Actual \cup leftover
                    /\ Actual \ overtaken \subseteq redis
                    /\ host # 0 => stale = {}
  BY DEF RedisInSync
<1>1. DBSync /\ dump = "done" /\ queue = <<>> /\ item = NoItem /\ result = 0
  BY DEF DBInv, DBClean, Processed
<1>2. LastDump /\ Base = redis /\ unread = {} BY <1>1 DEF LastDump, Base, DBInv, DBTypes
<1>3. DOMAIN queue = {} BY <1>1
<1>4. \A e : ~Deleted(host, item, queue, e) BY <1>1, <1>3, NoItemDoes DEF Deleted, DeletedIn
<1>5. \A base, e : Kept(host, groups, depGroup, base, item, queue, e) => e \in base
  BY <1>1, <1>3, NoItemDoes DEF Kept, WrittenLast
<1>6. redis \subseteq Actual \cup leftover BY <1>1, <1>2, <1>4, Operators DEF DBSync, Sound
<1>7. Actual \ overtaken \subseteq redis BY <1>1, <1>2, <1>5, Operators DEF DBSync, Complete
<1>8. ASSUME host # 0 PROVE stale = {}
  <2>1. ~\E bit : HasBit(host, item, bit) \/ PendingBit(host, queue, bit)
    BY <1>1, <1>3, NoItemDoes DEF PendingBit
  <2>2. "config" \notin stale /\ "state" \notin stale BY <2>1, <1>1, <1>2, <1>8 DEF DBSync, Fresh
  <2> QED BY <2>2 DEF StaleTypes
<1> QED BY <1>6, <1>7, <1>8

\* Once the worker of Icinga DB has processed what is pending, Redis has what the objects
\* say, apart from the recorded excuses: nothing the handlers enqueue, merge or cancel
\* between, during and after dumps, while one reads the objects one by one or the worker
\* has read an item and not sent it yet, gets lost or is left behind.
THEOREM RedisFollows == IcingaDBSpec => []RedisInSync
<1>1. IcingaDBInit => DBInv /\ StaleTypes BY DBInitially DEF IcingaDBInit, StaleTypes
<1>2. DBInv /\ [IcingaDBNext]_icingadbVars => DBInv' BY DBInductive
<1>3. StaleTypes /\ [IcingaDBNext]_icingadbVars => StaleTypes' BY StaleStays
<1>4. DBInv /\ StaleTypes => RedisInSync BY DBInvInSync
<1> QED BY <1>1, <1>2, <1>3, <1>4, PTL DEF IcingaDBSpec
=============================================================================

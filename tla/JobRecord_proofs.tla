-------------------------- MODULE JobRecord_proofs --------------------------
(***************************************************************************)
(* Theorems about JobRecord and JobLayout.  First what the C layout rule   *)
(* gives for every record; then the mirrors and the tables of the four     *)
(* releases; then the walk of one over the other.                          *)
(***************************************************************************)
EXTENDS JobRecordInv, WellFoundedInduction, TLAPS

------------------------------------------------------------------------------
(* Sequences.                                                              *)

(* A function on 1..n is a sequence of its own elements.                   *)
LEMMA SeqOfItself ==
  ASSUME NEW s, NEW n \in Nat, s = [i \in 1..n |-> s[i]]
  PROVE  s \in Seq(ToSet(s)) /\ Len(s) = n
<1>1. Len(s) = n /\ DOMAIN s = 1..n
  OBVIOUS
<1>2. \A i \in 1..n : s[i] \in ToSet(s)
  BY <1>1 DEF ToSet
<1> QED
  BY <1>1, <1>2

(* What two sequences joined hold, place by place.                         *)
LEMMA Joined ==
  ASSUME NEW S, NEW s \in Seq(S), NEW t \in Seq(S)
  PROVE  /\ s \o t \in Seq(S) /\ Len(s \o t) = Len(s) + Len(t)
         /\ s \o t = [i \in 1..Len(s) + Len(t) |-> (s \o t)[i]]
         /\ \A i \in 1..Len(s) + Len(t) :
              (s \o t)[i] = IF i <= Len(s) THEN s[i] ELSE t[i - Len(s)]
<1>1. s \o t \in Seq(S) /\ Len(s \o t) = Len(s) + Len(t)
  OBVIOUS
<1>2. \A i \in 1..Len(s) + Len(t) :
        (s \o t)[i] = IF i <= Len(s) THEN s[i] ELSE t[i - Len(s)]
  OBVIOUS
<1>3. ASSUME NEW u \in Seq(S) PROVE u = [i \in 1..Len(u) |-> u[i]]
  OBVIOUS
<1>4. s \o t = [i \in 1..Len(s \o t) |-> (s \o t)[i]]
  BY <1>1, <1>3
<1> QED
  BY <1>1, <1>2, <1>4

(* InsertAt moves what lies behind the place one on and adds one element.  *)
LEMMA Inserted ==
  ASSUME NEW s, s \in Seq(ToSet(s)), NEW e, NEW p \in 1..Len(s)
  PROVE  /\ InsertAt(s, p, e) \in Seq(ToSet(InsertAt(s, p, e)))
         /\ Len(InsertAt(s, p, e)) = Len(s) + 1
         /\ \A i \in 1..Len(s) + 1 : InsertAt(s, p, e)[i] =
              IF i < p THEN s[i] ELSE IF i = p THEN e ELSE s[i - 1]
         /\ ToSet(InsertAt(s, p, e)) = ToSet(s) \cup {e}
<1> DEFINE new == InsertAt(s, p, e)
           left == SubSeq(s, 1, p - 1)
           mid == <<e>>
           right == SubSeq(s, p, Len(s))
           S == ToSet(s) \cup {e}
<1>1. left \in Seq(S) /\ Len(left) = p - 1 /\ \A i \in 1..p - 1 : left[i] = s[i]
  OBVIOUS
<1>2. /\ right \in Seq(S) /\ Len(right) = Len(s) - p + 1
      /\ \A i \in 1..Len(s) - p + 1 : right[i] = s[p + i - 1]
  OBVIOUS
<1>3. mid \in Seq(S) /\ Len(mid) = 1 /\ mid[1] = e
  OBVIOUS
<1>4. new = (left \o mid) \o right
  BY DEF InsertAt
<1> HIDE DEF left, mid, right, S
<1> DEFINE head == left \o mid
<1>5. /\ head \in Seq(S) /\ Len(head) = p
      /\ \A i \in 1..p : head[i] = IF i < p THEN s[i] ELSE e
  <2>1. /\ head \in Seq(S) /\ Len(head) = Len(left) + Len(mid)
        /\ \A i \in 1..Len(left) + Len(mid) :
             head[i] = IF i <= Len(left) THEN left[i] ELSE mid[i - Len(left)]
    <3>1. left \in Seq(S) /\ mid \in Seq(S)
      BY <1>1, <1>3
    <3> QED
      BY ONLY <3>1, Joined
  <2> HIDE DEF head
  <2>2. \A i \in 1..p : head[i] = IF i <= p - 1 THEN left[i] ELSE mid[i - (p - 1)]
    BY <1>1, <1>3, <2>1
  <2>3. ASSUME NEW i \in 1..p PROVE head[i] = IF i < p THEN s[i] ELSE e
    <3>1. CASE i < p
      <4>1. i \in 1..p - 1 /\ i <= p - 1
        BY <3>1
      <4> QED
        BY <1>1, <2>2, <3>1, <4>1
    <3>2. CASE i = p
      BY <1>3, <2>2, <3>2
    <3> QED
      BY <3>1, <3>2
  <2> QED
    BY <1>1, <1>3, <2>1, <2>3
<1> HIDE DEF head
<1>6. /\ Len(head \o right) = Len(s) + 1
      /\ head \o right = [i \in 1..Len(s) + 1 |-> (head \o right)[i]]
      /\ \A i \in 1..Len(s) + 1 : (head \o right)[i] = IF i <= p THEN head[i] ELSE right[i - p]
  <2>1. /\ Len(head \o right) = Len(head) + Len(right)
        /\ head \o right = [i \in 1..Len(head) + Len(right) |-> (head \o right)[i]]
        /\ \A i \in 1..Len(head) + Len(right) :
             (head \o right)[i] = IF i <= Len(head) THEN head[i] ELSE right[i - Len(head)]
    BY ONLY <1>2, <1>5, Joined
  <2>2. Len(head) = p /\ Len(head) + Len(right) = Len(s) + 1
    BY <1>2, <1>5
  <2> QED
    BY <2>1, <2>2
<1>7. new = [i \in 1..Len(s) + 1 |-> new[i]] /\ Len(new) = Len(s) + 1
  BY <1>4, <1>6 DEF head
<1>8. ASSUME NEW i \in 1..Len(s) + 1
      PROVE  new[i] = IF i < p THEN s[i] ELSE IF i = p THEN e ELSE s[i - 1]
  <2>1. new[i] = IF i <= p THEN head[i] ELSE right[i - p]
    BY <1>4, <1>6 DEF head
  <2>2. CASE i <= p
    BY <1>5, <2>1, <2>2
  <2>3. CASE i > p
    <3>1. i - p \in 1..Len(s) - p + 1 /\ p + (i - p) - 1 = i - 1
      BY <2>3
    <3> QED
      BY <1>2, <2>1, <2>3, <3>1
  <2> QED
    BY <2>2, <2>3
<1>9. /\ Len(new) = Len(s) + 1
      /\ \A i \in 1..Len(s) + 1 : new[i] =
           IF i < p THEN s[i] ELSE IF i = p THEN e ELSE s[i - 1]
  BY <1>7, <1>8
<1> HIDE DEF new
<1>10. new \in Seq(ToSet(new)) /\ DOMAIN new = 1..Len(s) + 1 /\ DOMAIN s = 1..Len(s)
  <2>1. Len(s) + 1 \in Nat /\ DOMAIN s = 1..Len(s)
    OBVIOUS
  <2>2. DOMAIN new = 1..Len(s) + 1
    BY <1>7
  <2> QED
    BY <1>7, <2>1, <2>2, SeqOfItself
<1>11. ASSUME NEW i \in 1..Len(s) + 1 PROVE new[i] \in ToSet(s) \cup {e}
  <2>1. i < p => s[i] \in ToSet(s)
    BY <1>10 DEF ToSet
  <2>2. i > p => s[i - 1] \in ToSet(s)
    <3>1. i > p => i - 1 \in 1..Len(s)
      OBVIOUS
    <3> QED
      BY <1>10, <3>1 DEF ToSet
  <2> QED
    BY <1>9, <2>1, <2>2
<1>12. e \in ToSet(new)
  <2>1. p \in DOMAIN new /\ new[p] = e
    BY <1>9, <1>10
  <2> QED
    BY <2>1 DEF ToSet
<1>13. ASSUME NEW i \in 1..Len(s) PROVE s[i] \in ToSet(new)
  <2>1. CASE i < p
    BY <1>9, <1>10, <2>1 DEF ToSet
  <2>2. CASE i >= p
    <3>1. i + 1 \in 1..Len(s) + 1 /\ new[i + 1] = s[i]
      BY <1>9, <2>2
    <3> QED
      BY <1>10, <3>1 DEF ToSet
  <2> QED
    BY <2>1, <2>2
<1>14. ToSet(s) \subseteq ToSet(new) /\ ToSet(new) \subseteq ToSet(s) \cup {e}
  BY <1>10, <1>11, <1>13 DEF ToSet
<1> QED
  BY <1>9, <1>10, <1>12, <1>14 DEF new

(* RemoveAt moves what lies behind the place one back.                     *)
LEMMA Removed ==
  ASSUME NEW s, s \in Seq(ToSet(s)), NEW p \in 1..Len(s)
  PROVE  /\ RemoveAt(s, p) \in Seq(ToSet(RemoveAt(s, p)))
         /\ Len(RemoveAt(s, p)) = Len(s) - 1
         /\ \A i \in 1..Len(s) - 1 : RemoveAt(s, p)[i] = IF i < p THEN s[i] ELSE s[i + 1]
<1> DEFINE left == SubSeq(s, 1, p - 1)
           right == SubSeq(s, p + 1, Len(s))
           new == left \o right
<1>1. left \in Seq(ToSet(s)) /\ Len(left) = p - 1 /\ \A i \in 1..p - 1 : left[i] = s[i]
  OBVIOUS
<1>2. /\ right \in Seq(ToSet(s)) /\ Len(right) = Len(s) - p
      /\ \A i \in 1..Len(s) - p : right[i] = s[p + i]
  OBVIOUS
<1>3. RemoveAt(s, p) = new
  BY DEF RemoveAt
<1> HIDE DEF left, right
<1>4. Len(left) + Len(right) = Len(s) - 1 /\ Len(s) - 1 \in Nat
  BY <1>1, <1>2
<1>5. /\ Len(new) = Len(s) - 1
      /\ new = [i \in 1..Len(s) - 1 |-> new[i]]
      /\ \A i \in 1..Len(s) - 1 : new[i] = IF i <= p - 1 THEN left[i] ELSE right[i - (p - 1)]
  <2>1. left \in Seq(ToSet(s)) /\ right \in Seq(ToSet(s))
    BY <1>1, <1>2
  <2>2. /\ Len(new) = Len(left) + Len(right)
        /\ new = [i \in 1..Len(left) + Len(right) |-> new[i]]
        /\ \A i \in 1..Len(left) + Len(right) :
             new[i] = IF i <= Len(left) THEN left[i] ELSE right[i - Len(left)]
    BY ONLY <2>1, Joined
  <2> QED
    BY <1>1, <1>4, <2>2
<1> HIDE DEF new
<1>6. new \in Seq(ToSet(new))
  BY <1>4, <1>5, SeqOfItself
<1>7. ASSUME NEW i \in 1..Len(s) - 1 PROVE new[i] = IF i < p THEN s[i] ELSE s[i + 1]
  <2>1. CASE i < p
    BY <1>1, <1>5, <2>1
  <2>2. CASE i >= p
    <3>1. i - (p - 1) \in 1..Len(s) - p /\ p + (i - (p - 1)) = i + 1
      BY <2>2
    <3> QED
      BY <1>2, <1>5, <2>2, <3>1
  <2> QED
    BY <2>1, <2>2
<1> QED
  BY <1>3, <1>5, <1>6, <1>7

(* A set of numbers that holds all those up to the first one it lacks      *)
(* holds all.                                                              *)
LEMMA LeastMissing ==
  ASSUME NEW n \in Nat, NEW T, \A k \in 0..n : (\A j \in 0..(k - 1) : j \in T) => k \in T
  PROVE  \A k \in 0..n : k \in T
<1> DEFINE Missing == {k \in 0..n : k \notin T}
           R == OpToRel(<, Nat)
<1>1. SUFFICES ASSUME Missing # {} PROVE FALSE
  OBVIOUS
<1>2. IsWellFoundedOn(R, Nat)
  BY NatLessThanWellFounded
<1>3. Missing \subseteq Nat
  OBVIOUS
<1>4. PICK k \in Missing : \A j \in Missing : ~(<<j, k>> \in R)
  <2> HIDE DEF Missing, R
  <2> QED
    BY <1>1, <1>2, <1>3, WFMin
<1>5. \A j \in Missing : ~(j < k)
  BY <1>3, <1>4 DEF OpToRel
<1>6. \A j \in 0..(k - 1) : j \in T
  BY <1>5
<1> QED
  BY <1>6

------------------------------------------------------------------------------
(* The layout rule, for every record.                                      *)

LEMMA Sizes == \A type : Size(type) \in {1, 2, 4, 8}
  BY DEF Size

(* The next multiple of the size: not before, and not a size further.      *)
LEMMA AlignUp ==
  ASSUME NEW at \in Nat, NEW type
  PROVE  /\ Align(at, type) \in Nat
         /\ Align(at, type) >= at /\ Align(at, type) < at + Size(type)
         /\ Align(at, type) % Size(type) = 0
<1>1. CASE Size(type) = 1
  BY <1>1 DEF Align
<1>2. CASE Size(type) = 2
  BY <1>2 DEF Align
<1>3. CASE Size(type) = 4
  BY <1>3 DEF Align
<1>4. CASE Size(type) = 8
  BY <1>4 DEF Align
<1> QED
  BY <1>1, <1>2, <1>3, <1>4, Sizes

(* The equation of the offsets, up to field n.                             *)
Laid(rec, at, n) ==
  \A i \in 1..n :
    at[i] = Align(IF i = 1 THEN 0 ELSE at[i - 1] + Size(rec[i - 1].type), rec[i].type)

(* It has a solution, ...                                                  *)
LEMMA OffsetsExist ==
  ASSUME NEW rec, NEW n \in Nat
  PROVE  \E at \in [1..n -> Nat] : Laid(rec, at, n)
<1> DEFINE T == {k \in 0..n : \E at \in [1..k -> Nat] : Laid(rec, at, k)}
<1>1. ASSUME NEW k \in 0..n, \A j \in 0..(k - 1) : j \in T PROVE k \in T
  <2>1. CASE k = 0
    <3> DEFINE none == [i \in 1..k |-> 0]
    <3>1. none \in [1..k -> Nat] /\ Laid(rec, none, k)
      BY <2>1 DEF Laid
    <3> HIDE DEF none
    <3>2. \E at \in [1..k -> Nat] : Laid(rec, at, k)
      BY <3>1
    <3> QED
      BY <3>2
  <2>2. CASE k > 0
    <3>1. PICK at \in [1..(k - 1) -> Nat] : Laid(rec, at, k - 1)
      <4>1. k - 1 \in 0..(k - 1)
        BY <2>2
      <4>2. k - 1 \in T
        BY <1>1, <4>1
      <4> QED
        BY <4>2
    <3> DEFINE from == IF k = 1 THEN 0 ELSE at[k - 1] + Size(rec[k - 1].type)
               new == [i \in 1..k |-> IF i = k THEN Align(from, rec[k].type) ELSE at[i]]
    <3>2. from \in Nat
      BY <2>2, Sizes
    <3>3. new \in [1..k -> Nat]
      <4>1. Align(from, rec[k].type) \in Nat
        BY <3>2, AlignUp
      <4>2. \A i \in 1..k : i # k => at[i] \in Nat
        BY <2>2
      <4> HIDE DEF from
      <4> QED
        BY <4>1, <4>2
    <3>4. Laid(rec, new, k)
      BY <2>2, <3>1 DEF Laid
    <3> QED
      BY <3>3, <3>4
  <2> QED
    BY <2>1, <2>2
<1> HIDE DEF T
<1>2. n \in T
  BY <1>1, LeastMissing
<1> QED
  BY <1>2 DEF T

(* ... which is what Offsets takes: the offsets solve their equation.      *)
LEMMA OffsetsUnfold ==
  ASSUME NEW rec, Len(rec) \in Nat
  PROVE  /\ Laid(rec, Offsets(rec), Len(rec))
         /\ \A i \in 1..Len(rec) : Offsets(rec)[i] \in Nat
<1> DEFINE n == Len(rec)
           Step(f) == [i \in 1..n |->
             Align(IF i = 1 THEN 0 ELSE f[i - 1] + Size(rec[i - 1].type), rec[i].type)]
           at == CHOOSE f : f = Step(f)
<1>1. PICK f \in [1..n -> Nat] : Laid(rec, f, n)
  BY OffsetsExist
<1>2. f = Step(f)
  BY <1>1 DEF Laid
<1>3. at = Step(at)
  BY <1>2
<1>4. Offsets(rec) = at
  BY DEF Offsets
<1> HIDE DEF at
<1>5. Laid(rec, at, n)
  BY <1>3 DEF Laid
<1> HIDE DEF Step, n
<1>6. \A i \in 1..n : at[i] \in Nat
  <2> DEFINE T == {k \in 0..n : k = 0 \/ at[k] \in Nat}
  <2>1. ASSUME NEW k \in 0..n, \A j \in 0..(k - 1) : j \in T PROVE k \in T
    <3>1. CASE k = 0
      BY <3>1
    <3>2. CASE k = 1
      <4>1. at[1] = Align(0, rec[1].type)
        BY <1>5, <3>2 DEF Laid
      <4> QED
        BY <3>2, <4>1, AlignUp
    <3>3. CASE k > 1
      <4>1. at[k] = Align(at[k - 1] + Size(rec[k - 1].type), rec[k].type)
        BY <1>5, <3>3 DEF Laid
      <4>2. at[k - 1] \in Nat
        BY <2>1, <3>3
      <4>3. at[k - 1] + Size(rec[k - 1].type) \in Nat
        BY <4>2, Sizes
      <4> QED
        BY <4>1, <4>3, AlignUp
    <3> QED
      BY <3>1, <3>2, <3>3
  <2>2. n \in Nat
    BY DEF n
  <2> HIDE DEF T
  <2>3. \A k \in 0..n : k \in T
    BY <2>1, <2>2, LeastMissing
  <2> QED
    BY <2>3 DEF T
<1> QED
  BY <1>4, <1>5, <1>6 DEF n

(* Whatever fields a record has, each of them lies at a multiple of its    *)
(* size, and no two share a byte: C puts them one behind the other.        *)
THEOREM FieldsApart ==
  ASSUME NEW rec, Len(rec) \in Nat
  PROVE  /\ \A i \in 1..Len(rec) : Offsets(rec)[i] % Size(rec[i].type) = 0
         /\ \A i, j \in 1..Len(rec) :
              i < j => Offsets(rec)[i] + Size(rec[i].type) <= Offsets(rec)[j]
<1> DEFINE n == Len(rec)
           at == Offsets(rec)
           size(i) == Size(rec[i].type)
<1>1. n \in Nat /\ \A i : size(i) \in {1, 2, 4, 8}
  BY Sizes
<1>2. \A i \in 1..n : at[i] \in Nat
  BY OffsetsUnfold
<1>3. \A i \in 1..n : at[i] = Align(IF i = 1 THEN 0 ELSE at[i - 1] + size(i - 1), rec[i].type)
  BY OffsetsUnfold DEF Laid
<1> HIDE DEF n, at
<1>4. ASSUME NEW i \in 1..n PROVE at[i] % size(i) = 0
  <2> DEFINE from == IF i = 1 THEN 0 ELSE at[i - 1] + size(i - 1)
  <2>1. from \in Nat
    BY <1>1, <1>2
  <2>2. at[i] = Align(from, rec[i].type)
    BY <1>3
  <2> HIDE DEF from
  <2> QED
    BY <2>1, <2>2, AlignUp
<1>5. ASSUME NEW i \in 1..n, i + 1 \in 1..n PROVE at[i] + size(i) <= at[i + 1]
  <2>1. at[i + 1] = Align(at[i] + size(i), rec[i + 1].type)
    BY <1>3, <1>5
  <2>2. at[i] + size(i) \in Nat
    BY <1>1, <1>2
  <2> QED
    BY <2>1, <2>2, AlignUp
<1>6. ASSUME NEW i \in 1..n PROVE \A j \in 1..n : i < j => at[i] + size(i) <= at[j]
  <2> DEFINE T == {k \in 0..n : i < k => at[i] + size(i) <= at[k]}
  <2>1. ASSUME NEW k \in 0..n, \A j \in 0..(k - 1) : j \in T PROVE k \in T
    <3>1. CASE k <= i
      BY <3>1
    <3>2. CASE k = i + 1
      BY <1>5, <3>2
    <3>3. CASE k > i + 1
      <4>1. k - 1 \in T /\ k - 1 \in 1..n /\ i < k - 1
        BY <1>1, <2>1, <3>3
      <4>2. at[k - 1] + size(k - 1) <= at[(k - 1) + 1]
        BY <1>5, <4>1
      <4>3. (k - 1) + 1 = k
        OBVIOUS
      <4>4. at[i] + size(i) <= at[k - 1]
        BY <4>1
      <4>5. size(k - 1) \in Nat /\ size(i) \in Nat
        BY <1>1
      <4>6. at[i] \in Nat /\ at[k - 1] \in Nat /\ at[k] \in Nat
        BY <1>1, <1>2, <3>3
      <4>7. at[k - 1] + size(k - 1) <= at[k]
        BY <4>2, <4>3
      <4> HIDE DEF size
      <4>8. at[i] + size(i) <= at[k]
        BY <4>4, <4>5, <4>6, <4>7
      <4> QED
        BY <4>8
    <3> QED
      BY <1>1, <3>1, <3>2, <3>3
  <2> HIDE DEF T
  <2>2. \A k \in 0..n : k \in T
    BY <1>1, <2>1, LeastMissing
  <2> QED
    BY <1>1, <2>2 DEF T
<1> QED
  BY <1>4, <1>6 DEF n, at

(* Records that begin alike have the offsets of that part in common.       *)
LEMMA SamePrefix ==
  ASSUME NEW a, Len(a) \in Nat, NEW b, Len(b) \in Nat,
         NEW n \in Nat, n <= Len(a), n <= Len(b), \A i \in 1..n : a[i] = b[i]
  PROVE  \A i \in 1..n : Offsets(a)[i] = Offsets(b)[i]
<1> DEFINE x == Offsets(a)
           y == Offsets(b)
<1>1. /\ \A i \in 1..Len(a) :
           x[i] = Align(IF i = 1 THEN 0 ELSE x[i - 1] + Size(a[i - 1].type), a[i].type)
      /\ \A i \in 1..Len(b) :
           y[i] = Align(IF i = 1 THEN 0 ELSE y[i - 1] + Size(b[i - 1].type), b[i].type)
  BY OffsetsUnfold DEF Laid
<1> HIDE DEF x, y
<1> DEFINE T == {k \in 0..n : k = 0 \/ x[k] = y[k]}
<1>2. ASSUME NEW k \in 0..n, \A j \in 0..(k - 1) : j \in T PROVE k \in T
  <2>1. CASE k = 0
    BY <2>1
  <2>2. CASE k = 1
    BY <1>1, <2>2
  <2>3. CASE k > 1
    <3>1. k - 1 \in T /\ k - 1 \in 1..n /\ k # 1
      BY <1>2, <2>3
    <3>2. x[k - 1] = y[k - 1] /\ a[k - 1] = b[k - 1] /\ a[k] = b[k]
      BY <2>3, <3>1
    <3>3. /\ x[k] = Align(x[k - 1] + Size(a[k - 1].type), a[k].type)
          /\ y[k] = Align(y[k - 1] + Size(b[k - 1].type), b[k].type)
      BY <1>1, <3>1
    <3> QED
      BY <3>2, <3>3
  <2> QED
    BY <2>1, <2>2, <2>3
<1> HIDE DEF T
<1>3. \A k \in 0..n : k \in T
  BY <1>2, LeastMissing
<1> QED
  BY <1>3 DEF T, x, y

------------------------------------------------------------------------------
(* Records whose fields have names of their own.                           *)

Struct(rec) ==
  /\ rec \in Seq(ToSet(rec))
  /\ \A i, j \in 1..Len(rec) : rec[i].name = rec[j].name => i = j

(* Position finds the field of a name.                                     *)
LEMMA PositionOf ==
  ASSUME NEW rec, Struct(rec), NEW p \in 1..Len(rec)
  PROVE  Position(rec, rec[p].name) = p
<1>1. DOMAIN rec = 1..Len(rec)
  BY DEF Struct
<1> QED
  BY <1>1 DEF Position, Struct

(* An entry of a record has its place there.                               *)
LEMMA FieldOf ==
  ASSUME NEW rec, Struct(rec), NEW entry \in ToSet(rec)
  PROVE  \E p \in 1..Len(rec) : rec[p] = entry
<1>1. DOMAIN rec = 1..Len(rec)
  BY DEF Struct
<1> QED
  BY <1>1 DEF ToSet

(* A field of a new name, put before the one of a given name.              *)
LEMMA FieldAdded ==
  ASSUME NEW rec, Struct(rec), NEW p \in 1..Len(rec), NEW name, rec[p].name = name,
         NEW new, \A entry \in ToSet(rec) : entry.name # new.name
  PROVE  /\ Struct(Before(rec, name, new)) /\ Len(Before(rec, name, new)) = Len(rec) + 1
         /\ ToSet(Before(rec, name, new)) = ToSet(rec) \cup {new}
         /\ \A i \in 1..Len(rec) + 1 : Before(rec, name, new)[i] =
              IF i < p THEN rec[i] ELSE IF i = p THEN new ELSE rec[i - 1]
<1> DEFINE more == Before(rec, name, new)
<1>1. more = InsertAt(rec, p, new)
  BY PositionOf DEF Before
<1> HIDE DEF more
<1>2. rec \in Seq(ToSet(rec)) /\ DOMAIN rec = 1..Len(rec) /\ Len(rec) \in Nat
  BY DEF Struct
<1>3. /\ more \in Seq(ToSet(more)) /\ Len(more) = Len(rec) + 1
      /\ ToSet(more) = ToSet(rec) \cup {new}
      /\ \A i \in 1..Len(rec) + 1 :
           more[i] = IF i < p THEN rec[i] ELSE IF i = p THEN new ELSE rec[i - 1]
  BY <1>1, <1>2, Inserted
<1>4. \A i \in 1..Len(rec) : rec[i].name # new.name
  BY <1>2 DEF ToSet
<1>5. ASSUME NEW i \in 1..Len(rec) + 1, NEW j \in 1..Len(rec) + 1, more[i].name = more[j].name
      PROVE  i = j
  <2> DEFINE old(k) == IF k < p THEN k ELSE k - 1
  <2>1. ASSUME NEW k \in 1..Len(rec) + 1, k # p
        PROVE  old(k) \in 1..Len(rec) /\ more[k] = rec[old(k)]
    BY <1>2, <1>3, <2>1
  <2>2. more[p] = new
    BY <1>2, <1>3
  <2>3. CASE i # p /\ j # p
    <3>1. old(i) = old(j)
      <4> HIDE DEF old
      <4>1. old(i) \in 1..Len(rec) /\ more[i] = rec[old(i)]
        BY <2>1, <2>3
      <4>2. old(j) \in 1..Len(rec) /\ more[j] = rec[old(j)]
        BY <2>1, <2>3
      <4> QED
        BY <1>5, <4>1, <4>2 DEF Struct
    <3> QED
      BY <1>2, <2>3, <3>1
  <2>4. CASE i = p \/ j = p
    <3> HIDE DEF old
    <3> QED
      BY <1>4, <1>5, <2>1, <2>2, <2>4
  <2> QED
    BY <2>3, <2>4
<1> QED
  BY <1>3, <1>5 DEF Struct, more

(* A field taken out.                                                      *)
LEMMA FieldRemoved ==
  ASSUME NEW rec, Struct(rec), NEW p \in 1..Len(rec), NEW name, rec[p].name = name
  PROVE  /\ Struct(Without(rec, name)) /\ Len(Without(rec, name)) = Len(rec) - 1
         /\ ToSet(Without(rec, name)) = ToSet(rec) \ {rec[p]}
<1> DEFINE less == Without(rec, name)
<1>1. less = RemoveAt(rec, p)
  BY PositionOf DEF Without
<1> HIDE DEF less
<1>2. rec \in Seq(ToSet(rec)) /\ DOMAIN rec = 1..Len(rec) /\ Len(rec) \in Nat
  BY DEF Struct
<1>3. /\ less \in Seq(ToSet(less)) /\ Len(less) = Len(rec) - 1
      /\ \A i \in 1..Len(rec) - 1 : less[i] = IF i < p THEN rec[i] ELSE rec[i + 1]
  BY <1>1, <1>2, Removed
<1> DEFINE old(k) == IF k < p THEN k ELSE k + 1
<1>4. ASSUME NEW k \in 1..Len(rec) - 1
      PROVE  old(k) \in 1..Len(rec) /\ old(k) # p /\ less[k] = rec[old(k)]
  BY <1>2, <1>3
<1>5. ASSUME NEW i \in 1..Len(rec) - 1, NEW j \in 1..Len(rec) - 1, less[i].name = less[j].name
      PROVE  i = j
  <2>1. old(i) = old(j)
    <3> HIDE DEF old
    <3> QED
      BY <1>4, <1>5 DEF Struct
  <2> QED
    BY <1>2, <2>1
<1>6. DOMAIN less = 1..Len(rec) - 1
  BY <1>3
<1>7. ASSUME NEW k \in 1..Len(rec) - 1 PROVE less[k] \in ToSet(rec) \ {rec[p]}
  <2> HIDE DEF old
  <2> QED
    BY <1>2, <1>4 DEF Struct, ToSet
<1>8. ASSUME NEW k \in 1..Len(rec), k # p PROVE rec[k] \in ToSet(less)
  <2> DEFINE now == IF k < p THEN k ELSE k - 1
  <2>1. now \in 1..Len(rec) - 1 /\ (k < p => now < p) /\ (k > p => now >= p /\ now + 1 = k)
    BY <1>2, <1>8
  <2> HIDE DEF now
  <2>2. less[now] = rec[k]
    <3>1. CASE k < p
      <4>1. now = k
        BY <3>1 DEF now
      <4> QED
        BY <1>3, <2>1, <3>1, <4>1
    <3>2. CASE k > p
      BY <1>2, <1>3, <2>1, <3>2
    <3> QED
      BY <1>2, <1>8, <3>1, <3>2
  <2> QED
    BY <1>6, <2>1, <2>2 DEF ToSet
<1>9. ToSet(less) \subseteq ToSet(rec) \ {rec[p]}
  BY <1>6, <1>7 DEF ToSet
<1>10. ToSet(rec) \ {rec[p]} \subseteq ToSet(less)
  BY <1>2, <1>8 DEF ToSet
<1> QED
  BY <1>3, <1>5, <1>9, <1>10 DEF Struct, less

------------------------------------------------------------------------------
(* The mirrors of the four releases.                                       *)

LEMMA FourReleases == Release = {"24.11", "25.05", "25.11", "26.05"}
  BY DEF Release, Releases, ToSet

(* The fields of 25.05 the other mirrors are told by, and their places.    *)
LEMMA Rec25_05Fields ==
  /\ Len(JobRec25_05) = 73
  /\ \A i \in 1..73 : JobRec25_05[i] = [name |-> JobRec25_05[i].name, type |-> JobRec25_05[i].type]
  /\ JobRec25_05[19] = Char("env") /\ JobRec25_05[20] = U32("exitcode")
  /\ JobRec25_05[30] = Char("lineage") /\ JobRec25_05[34] = Char("partition")
  /\ JobRec25_05[44] = Char("resv_req") /\ JobRec25_05[46] = U16("segment_size")
  /\ JobRec25_05[48] = I64("start")
<1>1. Len(JobRec25_05) = 73
  BY DEF JobRec25_05, Char, Ptr, U16, U32, U64, I64
<1>2. \A i \in 1..73 : JobRec25_05[i] = [name |-> JobRec25_05[i].name, type |-> JobRec25_05[i].type]
  BY DEF JobRec25_05, Char, Ptr, U16, U32, U64, I64
<1>3. /\ JobRec25_05[19] = Char("env") /\ JobRec25_05[20] = U32("exitcode")
      /\ JobRec25_05[30] = Char("lineage") /\ JobRec25_05[34] = Char("partition")
  BY DEF JobRec25_05, Char, Ptr, U16, U32, U64, I64
<1>4. /\ JobRec25_05[44] = Char("resv_req") /\ JobRec25_05[46] = U16("segment_size")
      /\ JobRec25_05[48] = I64("start")
  BY DEF JobRec25_05, Char, Ptr, U16, U32, U64, I64
<1> QED
  BY <1>1, <1>2, <1>3, <1>4

(* Names of fields that 25.05 has not.                                     *)
NewNames == {"lft", "exclusive", "oversubscribe", "sluid"}

(* No two fields of the 25.05 mirror have one name.                        *)
LEMMA Rec25_05Struct ==
  /\ Struct(JobRec25_05)
  /\ DOMAIN JobRec25_05 = 1..73
  /\ \A entry \in ToSet(JobRec25_05) : entry.name \notin NewNames
<1>1. JobRec25_05 = [i \in 1..73 |-> JobRec25_05[i]]
  BY DEF JobRec25_05
<1>2. DOMAIN JobRec25_05 = 1..73 /\ JobRec25_05 \in Seq(ToSet(JobRec25_05))
  BY <1>1, SeqOfItself
<1>3. \A i, j \in 1..73 : JobRec25_05[i].name = JobRec25_05[j].name => i = j
  BY DEF JobRec25_05, Char, Ptr, U16, U32, U64, I64
<1>4. \A i \in 1..73 : JobRec25_05[i].name \notin NewNames
  BY DEF NewNames, JobRec25_05, Char, Ptr, U16, U32, U64, I64
<1>5. Len(JobRec25_05) = 73
  BY Rec25_05Fields
<1>6. Struct(JobRec25_05)
  BY <1>2, <1>3, <1>5 DEF Struct
<1>7. \A entry \in ToSet(JobRec25_05) : entry.name \notin NewNames
  BY <1>2, <1>4 DEF ToSet
<1> QED
  BY <1>2, <1>6, <1>7

(* The 24.11 mirror: lft more, two fields less.                            *)
LEMMA Rec24_11Struct ==
  /\ Struct(JobRec24_11)
  /\ ToSet(JobRec24_11) =
       (ToSet(JobRec25_05) \cup {U32("lft")}) \ {Char("resv_req"), U16("segment_size")}
<1> DEFINE rec == JobRec25_05
           a == Before(rec, "lineage", U32("lft"))
           b == Without(a, "resv_req")
           c == Without(b, "segment_size")
<1>1. /\ Struct(a) /\ ToSet(a) = ToSet(rec) \cup {U32("lft")}
  <2>1. rec[30].name = "lineage" /\ 30 \in 1..Len(rec) /\ U32("lft").name = "lft"
    BY Rec25_05Fields DEF Char, U32
  <2>2. \A entry \in ToSet(rec) : entry.name # U32("lft").name
    BY <2>1, Rec25_05Struct DEF NewNames
  <2> QED
    BY <2>1, <2>2, Rec25_05Struct, FieldAdded
<1>2. Char("resv_req") \in ToSet(rec) /\ U16("segment_size") \in ToSet(rec)
  BY Rec25_05Fields, Rec25_05Struct DEF ToSet
<1>3. Char("resv_req").name = "resv_req" /\ U16("segment_size").name = "segment_size"
  BY DEF Char, U16
<1> HIDE DEF rec, a
<1>4. /\ Struct(b) /\ ToSet(b) = ToSet(a) \ {Char("resv_req")}
  <2>1. PICK p \in 1..Len(a) : a[p] = Char("resv_req")
    BY <1>1, <1>2, FieldOf
  <2>2. Struct(a) /\ a[p].name = "resv_req"
    BY <1>1, <1>3, <2>1
  <2> QED
    BY <2>1, <2>2, FieldRemoved
<1> HIDE DEF b
<1>5. /\ Struct(c) /\ ToSet(c) = ToSet(b) \ {U16("segment_size")}
  <2>1. Char("resv_req") # U16("segment_size")
    BY DEF Char, U16
  <2>2. PICK p \in 1..Len(b) : b[p] = U16("segment_size")
    BY <1>1, <1>2, <1>4, <2>1, FieldOf
  <2>3. Struct(b) /\ b[p].name = "segment_size"
    BY <1>3, <1>4, <2>2
  <2> QED
    BY <2>2, <2>3, FieldRemoved
<1>6. JobRec24_11 = c
  BY DEF JobRec24_11, a, b, c, rec
<1> QED
  BY <1>1, <1>4, <1>5, <1>6 DEF rec

(* The 26.05 mirror: three fields more, the first nineteen untouched.      *)
LEMMA Rec26_05Struct ==
  /\ Struct(JobRec26_05) /\ Len(JobRec26_05) = 76
  /\ ToSet(JobRec26_05) =
       ToSet(JobRec25_05) \cup {Char("exclusive"), Char("oversubscribe"), U64("sluid")}
  /\ \A i \in 1..19 : JobRec26_05[i] = JobRec25_05[i]
  /\ JobRec26_05[20] = Char("exclusive") /\ JobRec26_05[21] = U32("exitcode")
<1> DEFINE rec == JobRec25_05
           a == Before(rec, "exitcode", Char("exclusive"))
           b == Before(a, "partition", Char("oversubscribe"))
           c == Before(b, "start", U64("sluid"))
<1>1. /\ Char("exclusive").name = "exclusive" /\ Char("oversubscribe").name = "oversubscribe"
      /\ U64("sluid").name = "sluid"
      /\ rec[20].name = "exitcode" /\ rec[34].name = "partition" /\ rec[48].name = "start"
      /\ rec[20] = U32("exitcode")
  BY Rec25_05Fields DEF Char, U32, U64, I64
<1>2. \A entry \in ToSet(rec) : entry.name \notin {"exclusive", "oversubscribe", "sluid"}
  BY Rec25_05Struct DEF NewNames
<1>3. Struct(rec) /\ Len(rec) = 73
  BY Rec25_05Fields, Rec25_05Struct
<1>4. JobRec26_05 = c
  BY DEF JobRec26_05
<1> HIDE DEF rec
<1>5. /\ Struct(a) /\ Len(a) = 74 /\ ToSet(a) = ToSet(rec) \cup {Char("exclusive")}
      /\ \A i \in 1..74 : a[i] = IF i < 20 THEN rec[i]
                                 ELSE IF i = 20 THEN Char("exclusive") ELSE rec[i - 1]
  <2>1. 20 \in 1..Len(rec) /\ \A entry \in ToSet(rec) : entry.name # Char("exclusive").name
    BY <1>1, <1>2, <1>3
  <2>2. Struct(rec) /\ rec[20].name = "exitcode"
    BY <1>1, <1>3
  <2>3. Struct(a) /\ Len(a) = Len(rec) + 1 /\ ToSet(a) = ToSet(rec) \cup {Char("exclusive")}
    BY <2>1, <2>2, FieldAdded
  <2>4. \A i \in 1..Len(rec) + 1 : a[i] = IF i < 20 THEN rec[i]
                                        ELSE IF i = 20 THEN Char("exclusive") ELSE rec[i - 1]
    BY <2>1, <2>2, FieldAdded
  <2> QED
    BY <1>3, <2>3, <2>4
<1> HIDE DEF a
<1>6. /\ Struct(b) /\ Len(b) = 75 /\ ToSet(b) = ToSet(a) \cup {Char("oversubscribe")}
      /\ \A i \in 1..75 : b[i] = IF i < 35 THEN a[i]
                                 ELSE IF i = 35 THEN Char("oversubscribe") ELSE a[i - 1]
  <2>1. 35 \in 1..Len(a) /\ a[35] = rec[34]
    BY <1>5
  <2>2. 35 \in 1..Len(a) /\ \A entry \in ToSet(a) : entry.name # Char("oversubscribe").name
    BY <1>1, <1>2, <1>5, <2>1
  <2>3. Struct(a) /\ a[35].name = "partition"
    BY <1>1, <1>5, <2>1
  <2>4. Struct(b) /\ Len(b) = Len(a) + 1 /\ ToSet(b) = ToSet(a) \cup {Char("oversubscribe")}
    BY <2>2, <2>3, FieldAdded
  <2>5. \A i \in 1..Len(a) + 1 : b[i] = IF i < 35 THEN a[i]
                                        ELSE IF i = 35 THEN Char("oversubscribe") ELSE a[i - 1]
    BY <2>2, <2>3, FieldAdded
  <2>6. Len(a) = 74
    BY <1>5
  <2> QED
    BY <2>4, <2>5, <2>6
<1> HIDE DEF b
<1>7. /\ Struct(c) /\ Len(c) = 76 /\ ToSet(c) = ToSet(b) \cup {U64("sluid")}
      /\ \A i \in 1..76 : c[i] = IF i < 50 THEN b[i]
                                 ELSE IF i = 50 THEN U64("sluid") ELSE b[i - 1]
  <2>1. 50 \in 1..Len(b) /\ b[50] = rec[48]
    BY <1>5, <1>6
  <2>2. 50 \in 1..Len(b) /\ \A entry \in ToSet(b) : entry.name # U64("sluid").name
    BY <1>1, <1>2, <1>5, <1>6, <2>1
  <2>3. Struct(b) /\ b[50].name = "start"
    BY <1>1, <1>6, <2>1
  <2>4. Struct(c) /\ Len(c) = Len(b) + 1 /\ ToSet(c) = ToSet(b) \cup {U64("sluid")}
    BY <2>2, <2>3, FieldAdded
  <2>5. \A i \in 1..Len(b) + 1 : c[i] = IF i < 50 THEN b[i]
                                        ELSE IF i = 50 THEN U64("sluid") ELSE b[i - 1]
    BY <2>2, <2>3, FieldAdded
  <2> QED
    BY <1>6, <2>4, <2>5
<1> HIDE DEF c
<1>8. \A i \in 1..21 :
        c[i] = IF i < 20 THEN rec[i] ELSE IF i = 20 THEN Char("exclusive") ELSE rec[i - 1]
  BY <1>5, <1>6, <1>7
<1>9. c[20] = Char("exclusive") /\ c[21] = rec[20] /\ \A i \in 1..19 : c[i] = rec[i]
  BY <1>8
<1> QED
  BY <1>1, <1>4, <1>5, <1>6, <1>7, <1>9 DEF rec

(* The mirrors are the records the headers declare: the same fields, of    *)
(* the same types, in the same order.                                      *)
LEMMA Mirrored ==
  \A r \in Release : slurmdb_job_rec_t(r) = JobRec(r)
<1>1. JobHeader25_05 = JobRec25_05
  BY DEF JobHeader25_05, JobRec25_05
<1>2. slurmdb_job_rec_t("24.11") = JobRec24_11
  BY <1>1 DEF slurmdb_job_rec_t, JobRec24_11
<1>3. /\ slurmdb_job_rec_t("25.05") = JobRec25_05
      /\ slurmdb_job_rec_t("25.11") = JobRec25_05
  BY <1>1 DEF slurmdb_job_rec_t
<1>4. slurmdb_job_rec_t("26.05") = JobRec26_05
  BY <1>1 DEF slurmdb_job_rec_t, JobRec26_05
<1> QED
  BY <1>2, <1>3, <1>4, FourReleases DEF JobRec

(* No two fields of a mirror have one name.                                *)
LEMMA RecordOf ==
  \A r \in Release : Struct(JobRec(r))
  BY FourReleases, Rec24_11Struct, Rec25_05Struct, Rec26_05Struct DEF JobRec

(* The fields the other releases have not.                                 *)
LEMMA NamesOf ==
  /\ \A entry \in ToSet(JobRec24_11) : entry.name \notin {"resv_req", "sluid"}
  /\ \A entry \in ToSet(JobRec25_05) : entry.name \notin {"lft", "sluid"}
  /\ \A entry \in ToSet(JobRec26_05) : entry.name # "lft"
<1>1. /\ Char("exclusive").name = "exclusive" /\ Char("oversubscribe").name = "oversubscribe"
      /\ U64("sluid").name = "sluid" /\ U32("lft").name = "lft"
      /\ Char("resv_req").name = "resv_req"
  BY DEF Char, U32, U64
<1>2. \A entry \in ToSet(JobRec25_05) : entry.name \notin {"lft", "sluid"}
  BY Rec25_05Struct DEF NewNames
<1>3. ASSUME NEW entry \in ToSet(JobRec25_05), entry.name = "resv_req"
      PROVE  entry = Char("resv_req")
  <2>1. PICK i \in 1..73 : JobRec25_05[i] = entry
    BY Rec25_05Struct DEF ToSet
  <2>2. 44 \in 1..73 /\ JobRec25_05[44] = Char("resv_req")
    BY Rec25_05Fields
  <2>3. JobRec25_05[i].name = JobRec25_05[44].name
    BY <1>1, <1>3, <2>1, <2>2
  <2>4. i = 44
    BY <2>2, <2>3, Rec25_05Fields, Rec25_05Struct DEF Struct
  <2> QED
    BY <2>1, <2>2, <2>4
<1> QED
  BY <1>1, <1>2, <1>3, Rec24_11Struct, Rec26_05Struct

------------------------------------------------------------------------------
(* The tables of the four releases.                                        *)

(* The field a row reads, with the type its kind has in C.                 *)
Read(row) == [name |-> row.field, type |-> KindType(row.kind)]

(* Keys of rows and of exit codes that the shared rows must leave free.    *)
LateKeys == {"resv_req", "segment_size", "exclusive", "oversubscribe", "sluid", "lft",
             "exitcode_return_code", "exitcode_signal"}

(* The keys of the shared rows are their own.                              *)
LEMMA SharedKeys ==
  /\ \A i, j \in 1..68 : SharedFields[i].key = SharedFields[j].key => i = j
  /\ \A i \in 1..68 : SharedFields[i].key \notin LateKeys
  /\ SharedFields[33] = U32Row("exitcode")
<1>1. \A i, j \in 1..68 : SharedFields[i].key = SharedFields[j].key => i = j
  BY DEF SharedFields, Row, StrRow, U16Row, U32Row, U64Row
<1>2. \A i \in 1..68 : SharedFields[i].key \notin LateKeys
  BY DEF LateKeys, SharedFields, Row, StrRow, U16Row, U32Row, U64Row
<1>3. SharedFields[33] = U32Row("exitcode")
  BY DEF SharedFields, Row, StrRow, U16Row, U32Row, U64Row
<1> QED
  BY <1>1, <1>2, <1>3

(* Every shared row reads a field that 24.11 and 25.05 have, by its C type.*)
LEMMA SharedRead ==
  \A i \in 1..68 :
    /\ Read(SharedFields[i]) \in ToSet(JobRec25_05)
    /\ SharedFields[i].field \notin {"resv_req", "segment_size"}
<1>1. \A i \in 1..68 : \E k \in 1..73 : JobRec25_05[k].name = SharedFields[i].field
  BY SMTT(120) DEF JobRec25_05, Char, Ptr, U16, U32, U64, I64,
                  SharedFields, Row, StrRow, U16Row, U32Row, U64Row
<1>2. \A i \in 1..68, k \in 1..73 :
        JobRec25_05[k].name = SharedFields[i].field =>
          JobRec25_05[k].type = IF SharedFields[i].kind = "Str" THEN "char*"
                                ELSE IF SharedFields[i].kind = "U16" THEN "u16"
                                ELSE IF SharedFields[i].kind = "U64" THEN "u64"
                                ELSE IF SharedFields[i].kind = "Time" THEN "i64" ELSE "u32"
  BY SMTT(120) DEF JobRec25_05, Char, Ptr, U16, U32, U64, I64,
                  SharedFields, Row, StrRow, U16Row, U32Row, U64Row
<1>3. \A kind : KindType(kind) = IF kind = "Str" THEN "char*" ELSE IF kind = "U16" THEN "u16"
                                 ELSE IF kind = "U64" THEN "u64"
                                 ELSE IF kind = "Time" THEN "i64" ELSE "u32"
  BY DEF KindType
<1>4. \A i \in 1..68 : SharedFields[i].field \notin {"resv_req", "segment_size"}
  BY DEF SharedFields, Row, StrRow, U16Row, U32Row, U64Row
<1>5. ASSUME NEW i \in 1..68 PROVE Read(SharedFields[i]) \in ToSet(JobRec25_05)
  <2>1. PICK k \in 1..73 : JobRec25_05[k].name = SharedFields[i].field
    BY <1>1
  <2>2. JobRec25_05[k].type = KindType(SharedFields[i].kind)
    BY <1>2, <1>3, <2>1
  <2>3. JobRec25_05[k] = Read(SharedFields[i])
    BY <2>1, <2>2, Rec25_05Fields DEF Read
  <2> QED
    BY <2>3, Rec25_05Struct DEF ToSet
<1> QED
  BY <1>4, <1>5

(* s is a sequence of n elements.                                          *)
Listed(s, n) == s = [i \in 1..n |-> s[i]]

LEMMA ListedSeq ==
  ASSUME NEW s
  PROVE  \A n \in Nat : Listed(s, n) => s \in Seq(ToSet(s)) /\ Len(s) = n
BY SeqOfItself DEF Listed

(* Two sequences joined; kept under a name for the provers.                *)
Joint(s, t) == s \o t

(* The rows of a table made longer.                                        *)
LEMMA MoreRows ==
  ASSUME NEW s, NEW t
  PROVE  \A m, n \in Nat :
           Listed(s, m) /\ Listed(t, n) =>
             /\ Listed(Joint(s, t), m + n)
             /\ \A i \in 1..m + n : Joint(s, t)[i] = IF i <= m THEN s[i] ELSE t[i - m]
<1> SUFFICES ASSUME NEW m \in Nat, NEW n \in Nat, Listed(s, m), Listed(t, n)
             PROVE  /\ Listed(Joint(s, t), m + n)
                    /\ \A i \in 1..m + n : Joint(s, t)[i] = IF i <= m THEN s[i] ELSE t[i - m]
  OBVIOUS
<1> DEFINE S == ToSet(s) \cup ToSet(t)
<1>1. Len(s) = m /\ Len(t) = n /\ s \in Seq(ToSet(s)) /\ t \in Seq(ToSet(t))
  BY ListedSeq
<1>2. s \in Seq(S) /\ t \in Seq(S)
  BY <1>1
<1> HIDE DEF S
<1>3. /\ s \o t = [i \in 1..Len(s) + Len(t) |-> (s \o t)[i]]
      /\ \A i \in 1..Len(s) + Len(t) :
           (s \o t)[i] = IF i <= Len(s) THEN s[i] ELSE t[i - Len(s)]
  BY ONLY <1>2, Joined
<1>4. Listed(s \o t, m + n)
  BY <1>1, <1>3 DEF Listed
<1>5. \A i \in 1..m + n : (s \o t)[i] = IF i <= m THEN s[i] ELSE t[i - m]
  BY <1>1, <1>3
<1> QED
  BY <1>4, <1>5 DEF Joint

(* The tables: the shared rows and a few more.                             *)
LEMMA Tables ==
  /\ Listed(JobFields("24.11"), 69)
  /\ \A i \in 1..68 : JobFields("24.11")[i] = SharedFields[i]
  /\ JobFields("24.11")[69] = U32Row("lft")
  /\ Listed(JobFields25_05, 70)
  /\ \A i \in 1..68 : JobFields25_05[i] = SharedFields[i]
  /\ JobFields25_05[69] = StrRow("resv_req") /\ JobFields25_05[70] = U16Row("segment_size")
  /\ Listed(JobFields26_05, 73)
  /\ \A i \in 1..70 : JobFields26_05[i] = JobFields25_05[i]
  /\ JobFields26_05[71] = StrRow("exclusive") /\ JobFields26_05[72] = StrRow("oversubscribe")
  /\ JobFields26_05[73] = U64Row("sluid")
<1>1. Listed(SharedFields, 68)
  BY DEF Listed, SharedFields
<1>2. /\ Listed(JobFields("24.11"), 69)
      /\ \A i \in 1..68 : JobFields("24.11")[i] = SharedFields[i]
      /\ JobFields("24.11")[69] = U32Row("lft")
  <2> DEFINE more == <<U32Row("lft")>>
             all == Joint(SharedFields, more)
  <2>1. Listed(more, 1) /\ more[1] = U32Row("lft")
    BY DEF Listed
  <2>2. JobFields("24.11") = all
    BY DEF JobFields, Joint
  <2> HIDE DEF more
  <2>3. /\ Listed(all, 68 + 1)
        /\ \A i \in 1..68 + 1 : all[i] = IF i <= 68 THEN SharedFields[i] ELSE more[i - 68]
    BY <1>1, <2>1, MoreRows
  <2> HIDE DEF all
  <2> QED
    BY <2>1, <2>2, <2>3
<1>3. /\ Listed(JobFields25_05, 70) /\ \A i \in 1..68 : JobFields25_05[i] = SharedFields[i]
      /\ JobFields25_05[69] = StrRow("resv_req") /\ JobFields25_05[70] = U16Row("segment_size")
  <2> DEFINE more == <<StrRow("resv_req"), U16Row("segment_size")>>
             all == Joint(SharedFields, more)
  <2>1. Listed(more, 2) /\ more[1] = StrRow("resv_req") /\ more[2] = U16Row("segment_size")
    BY DEF Listed
  <2>2. JobFields25_05 = all
    BY DEF JobFields25_05, Joint
  <2> HIDE DEF more
  <2>3. /\ Listed(all, 68 + 2)
        /\ \A i \in 1..68 + 2 : all[i] = IF i <= 68 THEN SharedFields[i] ELSE more[i - 68]
    BY <1>1, <2>1, MoreRows
  <2> HIDE DEF all
  <2>4. all[69] = more[69 - 68] /\ all[70] = more[70 - 68]
    BY <2>3
  <2> QED
    BY <2>1, <2>2, <2>3, <2>4
<1>4. /\ Listed(JobFields26_05, 73) /\ \A i \in 1..70 : JobFields26_05[i] = JobFields25_05[i]
      /\ JobFields26_05[71] = StrRow("exclusive") /\ JobFields26_05[72] = StrRow("oversubscribe")
      /\ JobFields26_05[73] = U64Row("sluid")
  <2> DEFINE more == <<StrRow("exclusive"), StrRow("oversubscribe"), U64Row("sluid")>>
             all == Joint(JobFields25_05, more)
  <2>1. /\ Listed(more, 3) /\ more[1] = StrRow("exclusive")
        /\ more[2] = StrRow("oversubscribe") /\ more[3] = U64Row("sluid")
    BY DEF Listed
  <2>2. JobFields26_05 = all
    BY DEF JobFields26_05, Joint
  <2> HIDE DEF more
  <2>3. /\ Listed(all, 70 + 3)
        /\ \A i \in 1..70 + 3 : all[i] = IF i <= 70 THEN JobFields25_05[i] ELSE more[i - 70]
    BY <1>3, <2>1, MoreRows
  <2> HIDE DEF all
  <2>4. all[71] = more[71 - 70] /\ all[72] = more[72 - 70] /\ all[73] = more[73 - 70]
    BY <2>3
  <2> QED
    BY <2>1, <2>2, <2>3, <2>4
<1> QED
  BY <1>2, <1>3, <1>4

(* Tables are sequences of 69, 70 and 73 rows.                             *)
LEMMA TableLengths ==
  \A r \in Release :
    /\ JobFields(r) \in Seq(ToSet(JobFields(r)))
    /\ Len(JobFields(r)) = IF r = "24.11" THEN 69 ELSE IF r = "26.05" THEN 73 ELSE 70
<1>1. JobFields("25.05") = JobFields25_05 /\ JobFields("25.11") = JobFields25_05
      /\ JobFields("26.05") = JobFields26_05
  BY DEF JobFields
<1>2. /\ Listed(JobFields("24.11"), 69) /\ Listed(JobFields25_05, 70)
      /\ Listed(JobFields26_05, 73)
  BY Tables
<1>3. \A n \in Nat : Listed(JobFields("24.11"), n) =>
        JobFields("24.11") \in Seq(ToSet(JobFields("24.11"))) /\ Len(JobFields("24.11")) = n
  BY ListedSeq
<1>4. \A n \in Nat : Listed(JobFields25_05, n) =>
        JobFields25_05 \in Seq(ToSet(JobFields25_05)) /\ Len(JobFields25_05) = n
  BY ListedSeq
<1>5. \A n \in Nat : Listed(JobFields26_05, n) =>
        JobFields26_05 \in Seq(ToSet(JobFields26_05)) /\ Len(JobFields26_05) = n
  BY ListedSeq
<1>6. JobFields("24.11") \in Seq(ToSet(JobFields("24.11"))) /\ Len(JobFields("24.11")) = 69
  BY <1>2, <1>3
<1>7. JobFields25_05 \in Seq(ToSet(JobFields25_05)) /\ Len(JobFields25_05) = 70
  BY <1>2, <1>4
<1>8. JobFields26_05 \in Seq(ToSet(JobFields26_05)) /\ Len(JobFields26_05) = 73
  BY <1>2, <1>5
<1> DEFINE Right(r) == /\ JobFields(r) \in Seq(ToSet(JobFields(r)))
                       /\ Len(JobFields(r)) = IF r = "24.11" THEN 69
                                               ELSE IF r = "26.05" THEN 73 ELSE 70
<1>9. Right("24.11")
  BY <1>6
<1>10. Right("25.05") /\ Right("25.11")
  BY <1>1, <1>7
<1>11. Right("26.05")
  BY <1>1, <1>8
<1> HIDE DEF Right
<1>12. \A r \in Release : Right(r)
  BY <1>9, <1>10, <1>11, FourReleases
<1> QED
  BY <1>12 DEF Right

(* The first n rows have keys of their own, none of them an exit code's.   *)
KeysApart(t, n) ==
  /\ \A i, j \in 1..n : t[i].key = t[j].key => i = j
  /\ \A i \in 1..n : t[i].key \notin {"exitcode_return_code", "exitcode_signal"}

(* No table has a key twice or one that is kept for the exit code.         *)
LEMMA TableKeys == \A r \in Release : KeysApart(JobFields(r), Len(JobFields(r)))
<1>1. /\ JobFields("25.05") = JobFields25_05 /\ JobFields("25.11") = JobFields25_05
      /\ JobFields("26.05") = JobFields26_05
  BY DEF JobFields
<1>2. /\ U32Row("lft").key = "lft" /\ StrRow("resv_req").key = "resv_req"
      /\ U16Row("segment_size").key = "segment_size" /\ StrRow("exclusive").key = "exclusive"
      /\ StrRow("oversubscribe").key = "oversubscribe" /\ U64Row("sluid").key = "sluid"
  BY DEF StrRow, U16Row, U32Row, U64Row, Row
<1>3. ASSUME NEW t, NEW n \in 69..73, \A i \in 1..68 : t[i] = SharedFields[i],
             \A i \in 69..n : t[i].key \in LateKeys \ {"exitcode_return_code", "exitcode_signal"},
             \A i, j \in 69..n : t[i].key = t[j].key => i = j
      PROVE  KeysApart(t, n)
  <2>1. /\ \A i, j \in 1..68 : SharedFields[i].key = SharedFields[j].key => i = j
        /\ \A i \in 1..68 : SharedFields[i].key \notin LateKeys
    BY SharedKeys
  <2>2. \A i \in 1..n : i \in 1..68 \/ i \in 69..n
    OBVIOUS
  <2>3. {"exitcode_return_code", "exitcode_signal"} \subseteq LateKeys
    BY DEF LateKeys
  <2>4. ASSUME NEW i \in 1..n, NEW j \in 1..n, t[i].key = t[j].key PROVE i = j
    <3>1. CASE i \in 1..68 /\ j \in 1..68
      BY <1>3, <2>1, <2>4, <3>1
    <3>2. CASE i \in 1..68 /\ j \in 69..n
      BY <1>3, <2>1, <2>4, <3>2
    <3>3. CASE i \in 69..n /\ j \in 1..68
      BY <1>3, <2>1, <2>4, <3>3
    <3>4. CASE i \in 69..n /\ j \in 69..n
      BY <1>3, <2>4, <3>4
    <3> QED
      BY <2>2, <3>1, <3>2, <3>3, <3>4
  <2>5. ASSUME NEW i \in 1..n PROVE t[i].key \notin {"exitcode_return_code", "exitcode_signal"}
    BY <1>3, <2>1, <2>2, <2>3
  <2> QED
    BY <2>4, <2>5 DEF KeysApart
<1>4. KeysApart(JobFields("24.11"), 69)
  <2> DEFINE t == JobFields("24.11")
             n == 69
  <2>1. (\A i \in 1..68 : t[i] = SharedFields[i]) /\ t[69].key = "lft"
    BY <1>2, Tables
  <2>2. n \in 69..73 /\ n = 69
    OBVIOUS
  <2> HIDE DEF t, n
  <2>3. \A i \in 69..69 : t[i].key = "lft" /\ i = 69
    BY <2>1
  <2>4. /\ \A i \in 69..n : t[i].key \in LateKeys \ {"exitcode_return_code", "exitcode_signal"}
        /\ \A i, j \in 69..n : t[i].key = t[j].key => i = j
    BY <2>2, <2>3 DEF LateKeys
  <2>5. KeysApart(t, n)
    BY <1>3, <2>1, <2>2, <2>4
  <2> QED
    BY <2>2, <2>5 DEF t
<1>5. KeysApart(JobFields25_05, 70)
  <2> DEFINE t == JobFields25_05
             n == 70
  <2>1. /\ \A i \in 1..68 : t[i] = SharedFields[i]
        /\ t[69].key = "resv_req" /\ t[70].key = "segment_size"
    BY <1>2, Tables
  <2>2. n \in 69..73 /\ n = 70
    OBVIOUS
  <2> HIDE DEF t, n
  <2>3. \A i \in 69..70 : t[i].key = IF i = 69 THEN "resv_req" ELSE "segment_size"
    BY <2>1
  <2>4. /\ \A i \in 69..n : t[i].key \in LateKeys \ {"exitcode_return_code", "exitcode_signal"}
        /\ \A i, j \in 69..n : t[i].key = t[j].key => i = j
    BY <2>2, <2>3 DEF LateKeys
  <2>5. KeysApart(t, n)
    BY <1>3, <2>1, <2>2, <2>4
  <2> QED
    BY <2>2, <2>5 DEF t
<1>6. KeysApart(JobFields26_05, 73)
  <2> DEFINE t == JobFields26_05
             n == 73
  <2>1. \A i \in 1..68 : t[i] = SharedFields[i]
    BY Tables
  <2>2. t[69] = JobFields25_05[69] /\ t[70] = JobFields25_05[70]
    BY Tables
  <2>3. /\ t[69].key = "resv_req" /\ t[70].key = "segment_size" /\ t[71].key = "exclusive"
        /\ t[72].key = "oversubscribe" /\ t[73].key = "sluid"
    BY <1>2, <2>2, Tables
  <2>4. n \in 69..73 /\ n = 73
    OBVIOUS
  <2> HIDE DEF t, n
  <2>5. \A i \in 69..73 :
          t[i].key = IF i = 69 THEN "resv_req" ELSE IF i = 70 THEN "segment_size"
                     ELSE IF i = 71 THEN "exclusive" ELSE IF i = 72 THEN "oversubscribe"
                     ELSE "sluid"
    BY <2>3
  <2>6. /\ \A i \in 69..n : t[i].key \in LateKeys \ {"exitcode_return_code", "exitcode_signal"}
        /\ \A i, j \in 69..n : t[i].key = t[j].key => i = j
    <3>1. ASSUME NEW i \in 69..n
          PROVE  t[i].key \in LateKeys \ {"exitcode_return_code", "exitcode_signal"}
      BY <2>4, <2>5 DEF LateKeys
    <3>2. \A i \in 69..n : i = 69 \/ i = 70 \/ i = 71 \/ i = 72 \/ i = 73
      BY <2>4
    <3>3. ASSUME NEW i \in 69..n, NEW j \in 69..n, t[i].key = t[j].key PROVE i = j
      BY <2>3, <3>2, <3>3
    <3> QED
      BY <3>1, <3>3
  <2>7. KeysApart(t, n)
    BY <1>3, <2>1, <2>4, <2>6
  <2> QED
    BY <2>4, <2>7 DEF t
<1>7. Len(JobFields("24.11")) = 69 /\ Len(JobFields25_05) = 70 /\ Len(JobFields26_05) = 73
  BY <1>1, TableLengths, FourReleases
<1> DEFINE Apart(r) == KeysApart(JobFields(r), Len(JobFields(r)))
<1>8. Apart("24.11") /\ Apart("26.05")
  BY <1>1, <1>4, <1>6, <1>7
<1>9. Apart("25.05") /\ Apart("25.11")
  BY <1>1, <1>5, <1>7
<1> HIDE DEF Apart
<1>10. \A r \in Release : Apart(r)
  BY <1>8, <1>9, FourReleases
<1> QED
  BY <1>10 DEF Apart

(* Every row names a field of its own release's record, and reads it as    *)
(* the type it has there.                                                  *)
LEMMA TableRead ==
  \A r \in Release : \A i \in 1..Len(JobFields(r)) : Read(JobFields(r)[i]) \in ToSet(JobRec(r))
<1>1. /\ JobFields("25.05") = JobFields25_05 /\ JobFields("25.11") = JobFields25_05
      /\ JobFields("26.05") = JobFields26_05
  BY DEF JobFields
<1>2. /\ JobRec("24.11") = JobRec24_11 /\ JobRec("25.05") = JobRec25_05
      /\ JobRec("25.11") = JobRec25_05 /\ JobRec("26.05") = JobRec26_05
  BY DEF JobRec
<1>3. /\ Read(U32Row("lft")) = U32("lft") /\ Read(StrRow("resv_req")) = Char("resv_req")
      /\ Read(U16Row("segment_size")) = U16("segment_size")
      /\ Read(StrRow("exclusive")) = Char("exclusive")
      /\ Read(StrRow("oversubscribe")) = Char("oversubscribe")
      /\ Read(U64Row("sluid")) = U64("sluid")
  BY DEF Read, KindType, StrRow, U16Row, U32Row, U64Row, Row, Char, U16, U32, U64
<1>4. Char("resv_req") \in ToSet(JobRec25_05) /\ U16("segment_size") \in ToSet(JobRec25_05)
  BY Rec25_05Fields, Rec25_05Struct DEF ToSet
<1>5. ASSUME NEW i \in 1..69 PROVE Read(JobFields("24.11")[i]) \in ToSet(JobRec24_11)
  <2>1. CASE i <= 68
    <3>1. /\ Read(SharedFields[i]) \in ToSet(JobRec25_05)
          /\ SharedFields[i].field \notin {"resv_req", "segment_size"}
      <4>1. i \in 1..68
        BY <2>1
      <4> QED
        BY <4>1, SharedRead
    <3>2. Read(SharedFields[i]).name \notin {"resv_req", "segment_size"}
      BY <3>1 DEF Read
    <3>3. Char("resv_req").name = "resv_req" /\ U16("segment_size").name = "segment_size"
      BY DEF Char, U16
    <3>4. Read(SharedFields[i]) \in ToSet(JobRec24_11)
      BY <3>1, <3>2, <3>3, Rec24_11Struct
    <3> QED
      BY <2>1, <3>4, Tables
  <2>2. CASE i = 69
    <3>1. U32("lft") # Char("resv_req") /\ U32("lft") # U16("segment_size")
      BY DEF Char, U16, U32
    <3> QED
      BY <1>3, <2>2, <3>1, Rec24_11Struct, Tables
  <2> QED
    BY <2>1, <2>2
<1>6. ASSUME NEW i \in 1..70 PROVE Read(JobFields25_05[i]) \in ToSet(JobRec25_05)
  <2>1. CASE i <= 68
    <3>1. i \in 1..68
      BY <2>1
    <3>2. JobFields25_05[i] = SharedFields[i]
      BY <3>1, Tables
    <3>3. Read(SharedFields[i]) \in ToSet(JobRec25_05)
      BY <3>1, SharedRead
    <3> QED
      BY <3>2, <3>3
  <2>2. CASE i > 68
    <3>1. i = 69 \/ i = 70
      BY <2>2
    <3>2. JobFields25_05[69] = StrRow("resv_req") /\ JobFields25_05[70] = U16Row("segment_size")
      BY Tables
    <3> QED
      BY <1>3, <1>4, <3>1, <3>2
  <2> QED
    BY <2>1, <2>2
<1>7. ASSUME NEW i \in 1..73 PROVE Read(JobFields26_05[i]) \in ToSet(JobRec26_05)
  <2>1. i <= 70 \/ i = 71 \/ i = 72 \/ i = 73
    OBVIOUS
  <2>2. CASE i <= 70
    BY <1>6, <2>2, Rec26_05Struct, Tables
  <2>3. CASE i = 71 \/ i = 72 \/ i = 73
    BY <1>3, <2>3, Rec26_05Struct, Tables
  <2> QED
    BY <2>1, <2>2, <2>3
<1>8. Len(JobFields("24.11")) = 69 /\ Len(JobFields25_05) = 70 /\ Len(JobFields26_05) = 73
  BY <1>1, TableLengths, FourReleases
<1> DEFINE Own(r) == \A i \in 1..Len(JobFields(r)) : Read(JobFields(r)[i]) \in ToSet(JobRec(r))
<1>9. Own("24.11")
  BY <1>2, <1>5, <1>8
<1>10. Own("25.05") /\ Own("25.11")
  <2>1. \A i \in 1..Len(JobFields25_05) : Read(JobFields25_05[i]) \in ToSet(JobRec25_05)
    BY <1>6, <1>8
  <2> QED
    BY <1>1, <1>2, <2>1
<1>11. Own("26.05")
  <2>1. \A i \in 1..Len(JobFields26_05) : Read(JobFields26_05[i]) \in ToSet(JobRec26_05)
    BY <1>7, <1>8
  <2> QED
    BY <1>1, <1>2, <2>1
<1> HIDE DEF Own
<1>12. \A r \in Release : Own(r)
  BY <1>9, <1>10, <1>11, FourReleases
<1> QED
  BY <1>12 DEF Own

(* The rows that show which release the table is of.                       *)
LEMMA TellTales ==
  /\ JobFields("24.11")[69].field = "lft"
  /\ \A r \in {"25.05", "25.11"} :
       /\ JobFields(r)[69].field = "resv_req" /\ JobFields(r)[33].field = "exitcode"
       /\ JobFields(r)[33].kind = "U32"
  /\ JobFields("26.05")[73].field = "sluid"
<1>1. /\ U32Row("lft").field = "lft" /\ StrRow("resv_req").field = "resv_req"
      /\ U64Row("sluid").field = "sluid" /\ U32Row("exitcode").field = "exitcode"
      /\ U32Row("exitcode").kind = "U32"
  BY DEF StrRow, U32Row, U64Row, Row
<1>2. /\ JobFields("25.05") = JobFields25_05 /\ JobFields("25.11") = JobFields25_05
      /\ JobFields("26.05") = JobFields26_05
  BY DEF JobFields
<1>3. JobFields25_05[33] = SharedFields[33]
  BY Tables
<1>4. SharedFields[33] = U32Row("exitcode")
  BY SharedKeys
<1>5. /\ JobFields("24.11")[69] = U32Row("lft") /\ JobFields25_05[69] = StrRow("resv_req")
      /\ JobFields26_05[73] = U64Row("sluid")
  BY Tables
<1> QED
  BY <1>1, <1>2, <1>3, <1>4, <1>5

(* Both mirrors have id, name and type at the same bytes: the modifier lies *)
(* in the padding behind the id.                                           *)
TresOffset(field) == CASE field = "id" -> 24 [] field = "name" -> 32 [] OTHER -> 40
TresField(field) == IF field = "id" THEN U32(field) ELSE Char(field)

TresFound(rec) ==
  \A field \in LookupFields :
    /\ Position(rec, field) \in DOMAIN rec
    /\ rec[Position(rec, field)] = TresField(field) /\ TresField(field).name = field
    /\ Offset(rec, field) = TresOffset(field)

LEMMA TresOffsets == TresFound(TresRec) /\ TresFound(TresRecWithModifier)
<1>1. /\ Size("u64") = 8 /\ Size("u32") = 4 /\ Size("char*") = 8 /\ Size("i8") = 1
  BY DEF Size
<1>2. /\ Align(0, "u64") = 0 /\ Align(8, "u32") = 8 /\ Align(12, "u64") = 16
      /\ Align(24, "u32") = 24 /\ Align(28, "char*") = 32 /\ Align(40, "char*") = 40
      /\ Align(28, "i8") = 28 /\ Align(29, "char*") = 32
  BY <1>1 DEF Align
<1>3. /\ U64("alloc_secs").type = "u64" /\ U32("rec_count").type = "u32"
      /\ U64("count").type = "u64" /\ U32("id").type = "u32" /\ I8("modifier").type = "i8"
      /\ Char("name").type = "char*" /\ Char("tres_type").type = "char*"
      /\ U32("id").name = "id" /\ Char("name").name = "name"
      /\ Char("tres_type").name = "tres_type"
  BY DEF U64, U32, Char, I8
<1>4. TresFound(TresRec)
  <2> DEFINE rec == TresRec
             at == Offsets(rec)
  <2>1. /\ Len(rec) = 6 /\ Listed(rec, 6)
        /\ rec[1] = U64("alloc_secs") /\ rec[2] = U32("rec_count") /\ rec[3] = U64("count")
        /\ rec[4] = U32("id") /\ rec[5] = Char("name") /\ rec[6] = Char("tres_type")
    BY DEF TresRec, Listed
  <2>2. Struct(rec) /\ DOMAIN rec = 1..6
    <3>1. rec \in Seq(ToSet(rec)) /\ DOMAIN rec = 1..6
      BY <2>1, ListedSeq DEF Listed
    <3>2. \A i, j \in 1..6 : rec[i].name = rec[j].name => i = j
      BY DEF TresRec, U64, U32, Char
    <3> QED
      BY <2>1, <3>1, <3>2 DEF Struct
  <2> HIDE DEF rec
  <2>3. \A i \in 1..6 : at[i] = Align(IF i = 1 THEN 0 ELSE at[i - 1] + Size(rec[i - 1].type),
                                       rec[i].type)
    <3>1. Len(rec) \in Nat
      BY <2>1
    <3>2. Laid(rec, at, Len(rec))
      BY <3>1, OffsetsUnfold
    <3> HIDE DEF at
    <3>3. Laid(rec, at, 6)
      BY <2>1, <3>2
    <3> QED
      BY <3>3 DEF Laid
  <2> HIDE DEF at
  <2>4. at[1] = 0
    BY <1>2, <1>3, <2>1, <2>3
  <2>5. at[2] = 8
    BY <1>1, <1>2, <1>3, <2>1, <2>3, <2>4
  <2>6. at[3] = 16
    BY <1>1, <1>2, <1>3, <2>1, <2>3, <2>5
  <2>7. at[4] = 24
    BY <1>1, <1>2, <1>3, <2>1, <2>3, <2>6
  <2>8. at[5] = 32
    BY <1>1, <1>2, <1>3, <2>1, <2>3, <2>7
  <2>9. at[6] = 40
    BY <1>1, <1>2, <1>3, <2>1, <2>3, <2>8
  <2>10. Position(rec, "id") = 4 /\ Position(rec, "name") = 5 /\ Position(rec, "tres_type") = 6
    <3>1. 4 \in 1..Len(rec) /\ 5 \in 1..Len(rec) /\ 6 \in 1..Len(rec)
      BY <2>1
    <3>2. /\ Position(rec, rec[4].name) = 4 /\ Position(rec, rec[5].name) = 5
          /\ Position(rec, rec[6].name) = 6
      BY <2>2, <3>1, PositionOf
    <3> QED
      BY <1>3, <2>1, <3>2
  <2>11. TresFound(rec)
    BY <1>3, <2>1, <2>2, <2>7, <2>8, <2>9, <2>10
       DEF TresFound, LookupFields, TresField, TresOffset, Offset, at
  <2> QED
    BY <2>11 DEF rec
<1>5. TresFound(TresRecWithModifier)
  <2> DEFINE rec == TresRecWithModifier
             at == Offsets(rec)
  <2>1. /\ Len(rec) = 7 /\ Listed(rec, 7)
        /\ rec[1] = U64("alloc_secs") /\ rec[2] = U32("rec_count") /\ rec[3] = U64("count")
        /\ rec[4] = U32("id") /\ rec[5] = I8("modifier")
        /\ rec[6] = Char("name") /\ rec[7] = Char("tres_type")
    BY DEF TresRecWithModifier, Listed
  <2>2. Struct(rec) /\ DOMAIN rec = 1..7
    <3>1. rec \in Seq(ToSet(rec)) /\ DOMAIN rec = 1..7
      BY <2>1, ListedSeq DEF Listed
    <3>2. \A i, j \in 1..7 : rec[i].name = rec[j].name => i = j
      BY DEF TresRecWithModifier, U64, U32, I8, Char
    <3> QED
      BY <2>1, <3>1, <3>2 DEF Struct
  <2> HIDE DEF rec
  <2>3. \A i \in 1..7 : at[i] = Align(IF i = 1 THEN 0 ELSE at[i - 1] + Size(rec[i - 1].type),
                                       rec[i].type)
    <3>1. Len(rec) \in Nat
      BY <2>1
    <3>2. Laid(rec, at, Len(rec))
      BY <3>1, OffsetsUnfold
    <3> HIDE DEF at
    <3>3. Laid(rec, at, 7)
      BY <2>1, <3>2
    <3> QED
      BY <3>3 DEF Laid
  <2> HIDE DEF at
  <2>4. at[1] = 0
    BY <1>2, <1>3, <2>1, <2>3
  <2>5. at[2] = 8
    BY <1>1, <1>2, <1>3, <2>1, <2>3, <2>4
  <2>6. at[3] = 16
    BY <1>1, <1>2, <1>3, <2>1, <2>3, <2>5
  <2>7. at[4] = 24
    BY <1>1, <1>2, <1>3, <2>1, <2>3, <2>6
  <2>8. at[5] = 28
    BY <1>1, <1>2, <1>3, <2>1, <2>3, <2>7
  <2>9. at[6] = 32
    BY <1>1, <1>2, <1>3, <2>1, <2>3, <2>8
  <2>10. at[7] = 40
    BY <1>1, <1>2, <1>3, <2>1, <2>3, <2>9
  <2>11. Position(rec, "id") = 4 /\ Position(rec, "name") = 6 /\ Position(rec, "tres_type") = 7
    <3>1. 4 \in 1..Len(rec) /\ 6 \in 1..Len(rec) /\ 7 \in 1..Len(rec)
      BY <2>1
    <3>2. /\ Position(rec, rec[4].name) = 4 /\ Position(rec, rec[6].name) = 6
          /\ Position(rec, rec[7].name) = 7
      BY <2>2, <3>1, PositionOf
    <3> QED
      BY <1>3, <2>1, <3>2
  <2>12. TresFound(rec)
    BY <1>3, <2>1, <2>2, <2>7, <2>9, <2>10, <2>11
       DEF TresFound, LookupFields, TresField, TresOffset, Offset, at
  <2> QED
    BY <2>12 DEF rec
<1> QED
  BY <1>4, <1>5

(* The headers declare the records of the two mirrors: the first up to     *)
(* 25.05, the second since 25.11.                                          *)
LEMMA TresHeaders ==
  \A r \in Release :
    slurmdb_tres_rec_t(r) = IF r \in {"24.11", "25.05"} THEN TresRec ELSE TresRecWithModifier
  BY DEF slurmdb_tres_rec_t, TresRec, TresRecWithModifier

------------------------------------------------------------------------------
(* The walk.                                                               *)

LEMMA NoRowKeys == ASSUME NEW rows PROVE RowKeys(rows, 0) = <<>>
  BY DEF RowKeys

(* One row more.                                                           *)
LEMMA NextRowKey ==
  ASSUME NEW rows, NEW k \in Nat
  PROVE  Append(RowKeys(rows, k), rows[k + 1].key) = RowKeys(rows, k + 1)
<1>1. RowKeys(rows, k) \in Seq({rows[i].key : i \in 1..k})
  BY DEF RowKeys
<1>2. Len(RowKeys(rows, k)) = k
  BY DEF RowKeys
<1>3. \A i \in 1..k : RowKeys(rows, k)[i] = rows[i].key
  BY DEF RowKeys
<1> DEFINE old == RowKeys(rows, k)
<1>4. Append(old, rows[k + 1].key) =
        [i \in 1..k + 1 |-> IF i = k + 1 THEN rows[k + 1].key ELSE old[i]]
  <2> HIDE DEF old
  <2> QED
    BY <1>1, <1>2 DEF old
<1> QED
  BY <1>3, <1>4 DEF RowKeys

(* The walk begins in the invariant ...                                    *)
LEMMA InitIInv == Init => IInv
<1> SUFFICES ASSUME Init PROVE IInv
  OBVIOUS
<1> DEFINE n == Len(JobFields(abi))
<1>1. n \in Nat
  BY TableLengths DEF Init
<1>2. Len(<<>>) = 0 /\ Len(ExitKeys) = 2
  BY DEF ExitKeys
<1>3. TypeOK
  BY <1>1, <1>2 DEF Init, TypeOK
<1>4. KeysInv
  BY <1>1, NoRowKeys DEF Init, KeysInv, Decoded
<1>5. MisreadInv
  <2>1. Behind = {}
    <3>1. DOMAIN JobFields(abi) = 1..n
      BY TableLengths DEF Init
    <3> QED
      BY <1>1, <3>1 DEF Init, Behind
  <2> QED
    BY <2>1 DEF Init, MisreadInv
<1> QED
  BY <1>3, <1>4, <1>5 DEF IInv

(* ... and no step of it leaves it.                                        *)
LEMMA StepIInv == IInv /\ [Next]_vars => IInv'
<1> SUFFICES ASSUME IInv, [Next]_vars PROVE IInv'
  OBVIOUS
<1> DEFINE t == JobFields(abi)
           n == Len(JobFields(abi))
<1>1. /\ t \in Seq(ToSet(t)) /\ DOMAIN t = 1..n /\ n \in Nat
      /\ next \in 1..n + 2 /\ abi \in Release /\ lib \in Release
  <2>1. abi \in Release /\ lib \in Release /\ next \in 1..n + 2
    BY DEF IInv, TypeOK
  <2>2. t \in Seq(ToSet(t))
    BY <2>1, TableLengths
  <2> QED
    BY <2>1, <2>2
<1>2. ASSUME ReadRow PROVE IInv'
  <2>1. /\ next <= n /\ next' = next + 1 /\ abi' = abi /\ lib' = lib
        /\ keys' = Append(keys, t[next].key)
        /\ misread' = IF ReadsField(t[next], abi, lib) THEN misread ELSE misread \cup {t[next]}
    BY <1>2 DEF ReadRow
  <2>2. next \in 1..n /\ t[next] \in ToSet(t)
    BY <1>1, <2>1 DEF ToSet
  <2>3. keys' = RowKeys(t, next)
    <3>1. keys = RowKeys(t, next - 1)
      BY <1>1, <2>1 DEF IInv, KeysInv, Decoded
    <3>2. next - 1 \in Nat /\ (next - 1) + 1 = next
      BY <1>1
    <3>3. Append(RowKeys(t, next - 1), t[(next - 1) + 1].key) = RowKeys(t, (next - 1) + 1)
      <4> HIDE DEF t
      <4> QED
        BY <3>2, NextRowKey
    <3> QED
      BY <2>1, <3>1, <3>2, <3>3
  <2>4. TypeOK'
    <3>1. Len(keys') = next
      BY <1>1, <2>2, <2>3 DEF RowKeys
    <3>2. Len(ExitKeys) = 2
      BY DEF ExitKeys
    <3>3. misread' \subseteq ToSet(t)
      BY <2>1, <2>2 DEF IInv, TypeOK
    <3>4. Len(keys') <= n + Len(ExitKeys) /\ next' \in 1..n + 2
      BY <1>1, <2>1, <2>2, <3>1, <3>2
    <3> QED
      BY <1>1, <2>1, <3>3, <3>4 DEF TypeOK
  <2>5. KeysInv'
    <3>1. next' - 1 = next /\ ~(next' > n + 1)
      BY <1>1, <2>1
    <3> QED
      BY <2>1, <2>3, <3>1 DEF KeysInv, Decoded
  <2>6. MisreadInv'
    <3>1. Behind' = Behind \cup {t[next]}
      BY <1>1, <2>1, <2>2 DEF Behind
    <3> QED
      BY <2>1, <3>1 DEF IInv, MisreadInv, ReadsField
  <2> QED
    BY <2>4, <2>5, <2>6 DEF IInv
<1>3. ASSUME AddExitCode PROVE IInv'
  <2>1. /\ next = n + 1 /\ next' = next + 1 /\ abi' = abi /\ lib' = lib /\ misread' = misread
        /\ keys' = keys \o ExitKeys
    BY <1>3 DEF AddExitCode
  <2>2. keys = RowKeys(t, n)
    <3>1. next - 1 = n /\ ~(next > n + 1)
      BY <1>1, <2>1
    <3> QED
      BY <3>1 DEF IInv, KeysInv, Decoded
  <2>3. TypeOK'
    <3> DEFINE S == {t[i].key : i \in 1..n} \cup {"exitcode_return_code", "exitcode_signal"}
    <3>1. RowKeys(t, n) \in Seq(S) /\ Len(RowKeys(t, n)) = n
      BY <1>1 DEF RowKeys
    <3>2. ExitKeys \in Seq(S) /\ Len(ExitKeys) = 2
      BY DEF ExitKeys
    <3> HIDE DEF S
    <3>3. Len(keys') = n + Len(ExitKeys)
      <4>1. Len(RowKeys(t, n) \o ExitKeys) = Len(RowKeys(t, n)) + Len(ExitKeys)
        BY ONLY <3>1, <3>2, Joined
      <4> QED
        BY <2>1, <2>2, <3>1, <4>1
    <3>4. Len(keys') <= n + Len(ExitKeys) /\ next' \in 1..n + 2
      BY <1>1, <2>1, <3>2, <3>3
    <3> QED
      BY <1>1, <2>1, <3>4 DEF IInv, TypeOK
  <2>4. KeysInv'
    <3>1. next' > n + 1
      BY <1>1, <2>1
    <3> QED
      BY <2>1, <2>2, <3>1 DEF KeysInv, Decoded
  <2>5. MisreadInv'
    <3>1. Behind' = Behind
      <4>1. \A i \in DOMAIN t : i < next /\ i < next'
        BY <1>1, <2>1
      <4> QED
        BY <2>1, <4>1 DEF Behind
    <3> QED
      BY <2>1, <3>1 DEF IInv, MisreadInv, ReadsField
  <2> QED
    BY <2>3, <2>4, <2>5 DEF IInv
<1>4. ASSUME UNCHANGED vars PROVE IInv'
  BY <1>4 DEF IInv, TypeOK, KeysInv, MisreadInv, Behind, Decoded, ReadsField, vars
<1> QED
  BY <1>2, <1>3, <1>4 DEF Next, Terminated

(* Every state of the walk: the keys inserted are those of the rows behind *)
(* next, in order, then the two of the exit code; misread holds the rows   *)
(* behind next that do not read what they name (job_to_value).             *)
THEOREM Inductive == Spec => []IInv
  BY InitIInv, StepIInv, PTL DEF Spec

(* Type correctness of the walk.                                           *)
THEOREM TypeCorrect == Spec => []TypeOK
  BY Inductive, PTL DEF IInv

------------------------------------------------------------------------------
(* What the rows read.                                                     *)

(* What a row reads in a record of its own layout.                         *)
LEMMA OwnRowRead ==
  ASSUME NEW r \in Release, NEW l \in Release, JobRec(l) = JobRec(r),
         NEW i \in 1..Len(JobFields(r))
  PROVE  ReadsField(JobFields(r)[i], r, l)
<1> DEFINE row == JobFields(r)[i]
<1>1. Read(row) \in ToSet(JobRec(r)) /\ Struct(JobRec(r))
  BY TableRead, RecordOf
<1>2. PICK p \in 1..Len(JobRec(r)) : JobRec(r)[p] = Read(row)
  BY <1>1, FieldOf
<1>3. JobRec(r)[p].name = row.field /\ JobRec(r)[p].type = KindType(row.kind)
  BY <1>2 DEF Read
<1>4. DOMAIN JobRec(r) = 1..Len(JobRec(r))
  BY <1>1 DEF Struct
<1>5. Position(JobRec(r), row.field) = p
  BY <1>1, <1>3, PositionOf
<1> HIDE DEF row
<1>6. Offset(JobRec(r), row.field) = Offsets(JobRec(r))[p]
  BY <1>5 DEF Offset
<1>7. slurmdb_job_rec_t(l) = JobRec(r)
  BY Mirrored
<1>8. ReadsField(row, r, l)
  BY <1>3, <1>4, <1>6, <1>7 DEF ReadsField
<1> QED
  BY <1>8 DEF row

(* Every row of every table reads the whole field it names, as the type it *)
(* has, from a record of its own layout: job_fields! leaves this to its    *)
(* caller. 25.05 and 25.11 may be taken for each other.                    *)
THEOREM ReadRight == Spec => []EveryRowReadRight
<1>1. IInv => EveryRowReadRight
  <2> SUFFICES ASSUME IInv, SameLayout PROVE misread = {}
    BY DEF EveryRowReadRight
  <2>1. abi \in Release /\ lib \in Release
    BY DEF IInv, TypeOK
  <2>2. JobRec(lib) = JobRec(abi)
    BY DEF SameLayout, JobRec
  <2>3. DOMAIN JobFields(abi) = 1..Len(JobFields(abi))
    BY <2>1, TableLengths
  <2>4. \A row \in Behind : ReadsField(row, abi, lib)
    BY <2>1, <2>2, <2>3, OwnRowRead DEF Behind
  <2> QED
    BY <2>4 DEF IInv, MisreadInv
<1> QED
  BY <1>1, Inductive, PTL

(* serde_json's Map never loses a value: no key is inserted twice, whatever*)
(* the two releases.                                                       *)
THEOREM NoKeyTwiceHolds == Spec => []NoKeyTwice
<1>1. IInv => NoKeyTwice
  <2> SUFFICES ASSUME IInv, NEW i \in DOMAIN keys, NEW j \in DOMAIN keys, keys[i] = keys[j]
               PROVE  i = j
    BY DEF NoKeyTwice
  <2> DEFINE t == JobFields(abi)
             n == Len(t)
  <2>1. KeysApart(t, n) /\ n \in Nat
    BY TableKeys, TableLengths DEF IInv, TypeOK
  <2>2. next \in 1..n + 2
    BY DEF IInv, TypeOK
  <2>3. CASE ~Decoded
    <3>1. keys = RowKeys(t, next - 1)
      BY <2>3 DEF IInv, KeysInv
    <3>2. next - 1 \in 0..n
      BY <2>1, <2>2, <2>3 DEF Decoded
    <3> HIDE DEF n
    <3>3. DOMAIN keys = 1..next - 1 /\ \A k \in 1..next - 1 : keys[k] = t[k].key
      BY <3>1 DEF RowKeys
    <3>4. i \in 1..n /\ j \in 1..n /\ t[i].key = t[j].key
      BY <2>1, <3>2, <3>3
    <3> QED
      BY <2>1, <3>4 DEF KeysApart
  <2>4. CASE Decoded
    <3> DEFINE S == {t[k].key : k \in 1..n} \cup {"exitcode_return_code", "exitcode_signal"}
               rows == RowKeys(t, n)
    <3>1. keys = rows \o ExitKeys
      BY <2>4 DEF IInv, KeysInv
    <3> HIDE DEF n
    <3>2. rows \in Seq(S) /\ Len(rows) = n /\ \A k \in 1..n : rows[k] = t[k].key
      BY <2>1 DEF RowKeys
    <3>3. /\ ExitKeys \in Seq(S) /\ Len(ExitKeys) = 2
          /\ ExitKeys[1] = "exitcode_return_code" /\ ExitKeys[2] = "exitcode_signal"
      BY DEF ExitKeys
    <3> HIDE DEF S, rows
    <3>4. /\ DOMAIN keys = 1..Len(rows) + Len(ExitKeys)
          /\ \A k \in 1..Len(rows) + Len(ExitKeys) :
               keys[k] = IF k <= Len(rows) THEN rows[k] ELSE ExitKeys[k - Len(rows)]
      <4>1. /\ Len(rows \o ExitKeys) = Len(rows) + Len(ExitKeys)
            /\ rows \o ExitKeys \in Seq(S)
            /\ \A k \in 1..Len(rows) + Len(ExitKeys) :
                 (rows \o ExitKeys)[k] = IF k <= Len(rows) THEN rows[k] ELSE ExitKeys[k - Len(rows)]
        <5>1. rows \in Seq(S) /\ ExitKeys \in Seq(S)
          BY <3>2, <3>3
        <5> QED
          BY ONLY <5>1, Joined
      <4>2. DOMAIN (rows \o ExitKeys) = 1..Len(rows) + Len(ExitKeys)
        BY <4>1
      <4> QED
        BY <3>1, <4>1, <4>2
    <3>5. DOMAIN keys = 1..n + 2
      BY <3>2, <3>3, <3>4
    <3>6. ASSUME NEW k \in 1..n PROVE keys[k] = t[k].key
      BY <2>1, <3>2, <3>3, <3>4
    <3>7. keys[n + 1] = "exitcode_return_code" /\ keys[n + 2] = "exitcode_signal"
      <4>1. /\ n + 1 \in 1..n + 2 /\ ~(n + 1 <= n) /\ (n + 1) - n = 1
            /\ n + 2 \in 1..n + 2 /\ ~(n + 2 <= n) /\ (n + 2) - n = 2
        BY <2>1
      <4>2. \A k \in 1..n + 2 : keys[k] = IF k <= n THEN rows[k] ELSE ExitKeys[k - n]
        BY <3>2, <3>3, <3>4
      <4>3. keys[n + 1] = ExitKeys[(n + 1) - n] /\ keys[n + 2] = ExitKeys[(n + 2) - n]
        BY <4>1, <4>2
      <4> QED
        BY <3>3, <4>1, <4>3
    <3>8. \A k \in 1..n + 2 : k \in 1..n \/ k = n + 1 \/ k = n + 2
      BY <2>1
    <3>9. i \in 1..n \/ i = n + 1 \/ i = n + 2
      BY <3>5, <3>8
    <3>10. j \in 1..n \/ j = n + 1 \/ j = n + 2
      BY <3>5, <3>8
    <3> HIDE DEF t
    <3>11. CASE i \in 1..n
      BY <2>1, <3>6, <3>7, <3>10, <3>11 DEF KeysApart
    <3>12. CASE j \in 1..n
      BY <2>1, <3>6, <3>7, <3>9, <3>12 DEF KeysApart
    <3>13. "exitcode_return_code" # "exitcode_signal"
      OBVIOUS
    <3> QED
      BY <3>7, <3>9, <3>10, <3>11, <3>12, <3>13
  <2> QED
    BY <2>3, <2>4
<1> QED
  BY <1>1, Inductive, PTL

(* fetch_tres copies id, name and type from the right bytes, whichever of  *)
(* the four headers laid out the record and whichever mirror --abi picks,  *)
(* that of 25.11 without its modifier too.                                 *)
THEOREM LookupsAgree == Spec => []LookupsReadRight
<1>1. IInv => LookupsReadRight
  <2> SUFFICES ASSUME IInv, NEW field \in LookupFields
               PROVE  ReadsThrough(TresRecOf(abi), slurmdb_tres_rec_t(lib), field)
    BY DEF LookupsReadRight
  <2> DEFINE mirror == TresRecOf(abi)
             struct == slurmdb_tres_rec_t(lib)
             i == Position(struct, field)
  <2>1. TresFound(mirror)
    BY TresOffsets DEF TresRecOf
  <2>2. TresFound(struct)
    BY TresOffsets, TresHeaders DEF IInv, TypeOK
  <2> HIDE DEF mirror, struct
  <2>3. i \in DOMAIN struct /\ struct[i] = TresField(field) /\ struct[i].name = field
    BY <2>2 DEF TresFound
  <2>4. mirror[Position(mirror, field)] = TresField(field)
    BY <2>1 DEF TresFound
  <2>5. Offsets(struct)[i] = TresOffset(field) /\ Offset(mirror, field) = TresOffset(field)
    BY <2>1, <2>2 DEF TresFound, Offset
  <2>6. ReadsThrough(mirror, struct, field)
    BY <2>3, <2>4, <2>5 DEF ReadsThrough
  <2> QED
    BY <2>6 DEF mirror, struct
<1> QED
  BY <1>1, Inductive, PTL

(* A row whose field the record has not is misread.                        *)
LEMMA Absent ==
  ASSUME NEW row, NEW a, NEW l \in Release,
         \A entry \in ToSet(JobRec(l)) : entry.name # row.field
  PROVE  ~ReadsField(row, a, l)
  BY Mirrored DEF ReadsField, ToSet

(* exclusive of 26.05 has pushed exitcode eight bytes on.                  *)
LEMMA ExitCodeMoved ==
  ASSUME NEW row, row.field = "exitcode", NEW a \in {"25.05", "25.11"}
  PROVE  ~ReadsField(row, a, "26.05")
<1> DEFINE old == JobRec25_05
           new == JobRec26_05
           x == Offsets(old)
           y == Offsets(new)
<1>1. /\ Len(old) = 73 /\ Len(new) = 76 /\ Struct(old) /\ Struct(new)
      /\ \A i \in 1..19 : new[i] = old[i]
      /\ old[19] = Char("env") /\ old[20] = U32("exitcode")
      /\ new[20] = Char("exclusive") /\ new[21] = U32("exitcode")
  BY Rec25_05Fields, Rec25_05Struct, Rec26_05Struct
<1>2. /\ Char("env").type = "char*" /\ Char("exclusive").type = "char*"
      /\ U32("exitcode").type = "u32" /\ U32("exitcode").name = "exitcode"
  BY DEF Char, U32
<1>3. Size("char*") = 8 /\ Size("u32") = 4
  BY DEF Size
<1>4. JobRec(a) = old /\ slurmdb_job_rec_t("26.05") = new
  BY Mirrored, FourReleases DEF JobRec
<1> HIDE DEF old, new
<1>5. x[19] = y[19]
  <2> DEFINE n == 19
  <2>1. n \in Nat /\ n <= Len(old) /\ n <= Len(new) /\ n \in 1..n /\ n = 19
    BY <1>1
  <2>2. Len(old) \in Nat /\ Len(new) \in Nat /\ \A i \in 1..n : old[i] = new[i]
    BY <1>1
  <2> HIDE DEF n
  <2>3. \A i \in 1..n : x[i] = y[i]
    BY <2>1, <2>2, SamePrefix
  <2> QED
    BY <2>1, <2>3
<1>6. x[20] = Align(x[19] + 8, "u32") /\ x[19] \in Nat
  <2>1. Len(old) \in Nat
    BY <1>1
  <2>2. Laid(old, x, Len(old)) /\ \A i \in 1..Len(old) : x[i] \in Nat
    BY <2>1, OffsetsUnfold
  <2> HIDE DEF x
  <2>3. \A i \in 1..Len(old) :
          x[i] = Align(IF i = 1 THEN 0 ELSE x[i - 1] + Size(old[i - 1].type), old[i].type)
    BY <2>2 DEF Laid
  <2>4. 19 \in 1..Len(old) /\ 20 \in 1..Len(old)
    BY <1>1
  <2>5. x[20] = Align(x[20 - 1] + Size(old[20 - 1].type), old[20].type)
    BY <2>3, <2>4
  <2>6. old[19].type = "char*" /\ old[20].type = "u32"
    BY <1>1, <1>2
  <2> QED
    BY <1>3, <2>2, <2>4, <2>5, <2>6
<1>7. y[19] + 8 <= y[20] /\ y[20] + 8 <= y[21] /\ y[20] \in Nat /\ y[21] \in Nat
  <2>1. Len(new) \in Nat
    BY <1>1
  <2>2. \A i \in 1..Len(new) : y[i] \in Nat
    BY <2>1, OffsetsUnfold
  <2>3. \A i, j \in 1..Len(new) : i < j => y[i] + Size(new[i].type) <= y[j]
    BY <2>1, FieldsApart
  <2> HIDE DEF y
  <2>4. 19 \in 1..Len(new) /\ 20 \in 1..Len(new) /\ 21 \in 1..Len(new)
    BY <1>1
  <2>5. y[19] + Size(new[19].type) <= y[20] /\ y[20] + Size(new[20].type) <= y[21]
    BY <2>3, <2>4
  <2>6. 19 \in 1..19 /\ new[20].type = "char*" /\ old[19].type = "char*"
    BY <1>1, <1>2
  <2>7. new[19].type = "char*"
    BY <1>1, <2>6
  <2>8. y[20] \in Nat /\ y[21] \in Nat
    BY <2>2, <2>4
  <2> QED
    BY <1>3, <2>5, <2>6, <2>7, <2>8
<1>8. x[20] < x[19] + 12
  <2> HIDE DEF x
  <2>1. x[19] + 8 \in Nat
    BY <1>6
  <2>2. Align(x[19] + 8, "u32") < (x[19] + 8) + Size("u32") /\ Align(x[19] + 8, "u32") \in Nat
    BY <2>1, AlignUp
  <2> QED
    BY <1>3, <1>6, <2>2
<1>9. x[20] # y[21]
  <2> HIDE DEF x, y
  <2> QED
    BY <1>5, <1>6, <1>7, <1>8
<1>10. Offset(old, "exitcode") = x[20]
  <2>1. 20 \in 1..Len(old) /\ old[20].name = "exitcode"
    BY <1>1, <1>2
  <2>2. Position(old, old[20].name) = 20
    <3>1. Struct(old)
      BY <1>1
    <3> QED
      BY <2>1, <3>1, PositionOf
  <2> QED
    BY <2>1, <2>2 DEF Offset
<1>11. ASSUME NEW i \in DOMAIN new, new[i].name = "exitcode" PROVE i = 21
  <2>1. Struct(new) /\ 21 \in 1..Len(new) /\ new[21].name = "exitcode"
    BY <1>1, <1>2
  <2>2. DOMAIN new = 1..Len(new)
    BY <2>1 DEF Struct
  <2> QED
    BY <1>11, <2>1, <2>2 DEF Struct
<1> HIDE DEF x, y
<1>12. \A i \in DOMAIN new : new[i].name = "exitcode" => Offsets(new)[i] # Offset(old, "exitcode")
  BY <1>9, <1>10, <1>11 DEF y
<1> QED
  BY <1>4, <1>12 DEF ReadsField

(* A --abi of another layout always misreads a row: every table that is not*)
(* the library's has a row whose field the record has not, or, 25.05 over  *)
(* 26.05, the row of exitcode reads the low half of a pointer.             *)
THEOREM WrongAbiAlwaysMisreads == Spec => []WrongAbiMisreads
<1>1. IInv => WrongAbiMisreads
  <2> SUFFICES ASSUME IInv, Decoded, ~SameLayout PROVE misread # {}
    BY DEF WrongAbiMisreads
  <2> DEFINE t == JobFields(abi)
  <2>1. abi \in Release /\ lib \in Release
    BY DEF IInv, TypeOK
  <2>2. DOMAIN t = 1..Len(t) /\ \A i \in 1..Len(t) : i < next
    BY <2>1, TableLengths DEF Decoded, IInv, TypeOK
  <2>3. ASSUME NEW i \in 1..Len(t), ~ReadsField(t[i], abi, lib) PROVE misread # {}
    <3>1. t[i] \in Behind
      BY <2>2 DEF Behind
    <3> QED
      BY <2>3, <3>1 DEF IInv, MisreadInv
  <2>4. /\ JobRec("24.11") = JobRec24_11 /\ JobRec("25.05") = JobRec25_05
        /\ JobRec("25.11") = JobRec25_05 /\ JobRec("26.05") = JobRec26_05
    BY DEF JobRec
  <2>5. Len(t) = IF abi = "24.11" THEN 69 ELSE IF abi = "26.05" THEN 73 ELSE 70
    BY <2>1, TableLengths
  <2>6. CASE abi = "24.11"
    <3>1. lib \in {"25.05", "25.11", "26.05"}
      BY <2>1, <2>6, FourReleases DEF SameLayout
    <3>2. 69 \in 1..Len(t) /\ t[69].field = "lft"
      BY <2>5, <2>6, TellTales
    <3>3. \A entry \in ToSet(JobRec(lib)) : entry.name # t[69].field
      BY <2>4, <3>1, <3>2, NamesOf
    <3>4. ~ReadsField(t[69], abi, lib)
      BY <2>1, <3>3, Absent
    <3> QED
      BY <2>3, <3>2, <3>4
  <2>7. CASE abi \in {"25.05", "25.11"} /\ lib = "24.11"
    <3>1. 69 \in 1..Len(t) /\ t[69].field = "resv_req"
      BY <2>5, <2>7, TellTales
    <3>2. \A entry \in ToSet(JobRec(lib)) : entry.name # t[69].field
      BY <2>4, <2>7, <3>1, NamesOf
    <3>3. ~ReadsField(t[69], abi, lib)
      BY <2>1, <3>2, Absent
    <3> QED
      BY <2>3, <3>1, <3>3
  <2>8. CASE abi \in {"25.05", "25.11"} /\ lib = "26.05"
    <3>1. 33 \in 1..Len(t) /\ t[33].field = "exitcode"
      BY <2>5, <2>8, TellTales
    <3>2. ~ReadsField(t[33], abi, lib)
      BY <2>8, <3>1, ExitCodeMoved
    <3> QED
      BY <2>3, <3>1, <3>2
  <2>9. CASE abi = "26.05"
    <3>1. lib \in {"24.11", "25.05", "25.11"}
      BY <2>1, <2>9, FourReleases DEF SameLayout
    <3>2. 73 \in 1..Len(t) /\ t[73].field = "sluid"
      BY <2>5, <2>9, TellTales
    <3>3. \A entry \in ToSet(JobRec(lib)) : entry.name # t[73].field
      BY <2>4, <3>1, <3>2, NamesOf
    <3>4. ~ReadsField(t[73], abi, lib)
      BY <2>1, <3>3, Absent
    <3> QED
      BY <2>3, <3>2, <3>4
  <2> QED
    BY <2>1, <2>6, <2>7, <2>8, <2>9, FourReleases DEF SameLayout
<1> QED
  BY <1>1, Inductive, PTL
=============================================================================

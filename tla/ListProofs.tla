----------------------------- MODULE ListProofs ------------------------------
(***************************************************************************)
(* Lemmas about lists that the proofs of the components share: the links   *)
(* of a wl_list are modelled by the places of a sequence.                  *)
(***************************************************************************)
EXTENDS Integers, Sequences, SequenceTheorems, WellFoundedInduction, TLAPS

(* What RemoveAt leaves of a list, place by place.                         *)
LEMMA RemovedIs ==
  ASSUME NEW S, NEW s \in Seq(S), NEW i \in 1 .. Len(s)
  PROVE  LET r == SubSeq(s, 1, i - 1) \o SubSeq(s, i + 1, Len(s))
         IN /\ r \in Seq(S) /\ Len(r) = Len(s) - 1
            /\ \A j \in 1 .. Len(s) - 1 : r[j] = IF j < i THEN s[j] ELSE s[j + 1]
<1> DEFINE head == SubSeq(s, 1, i - 1)
           tail == SubSeq(s, i + 1, Len(s))
<1>1. \A j \in 1 .. Len(s) : s[j] \in S
  OBVIOUS
<1>2. /\ \A j \in 1 .. i - 1 : s[j] \in S
      /\ \A j \in i + 1 .. Len(s) : s[j] \in S
      /\ i - 1 \in Int /\ i + 1 \in Int /\ Len(s) \in Int /\ 1 \in Int
  BY <1>1
<1>3. /\ head \in Seq(S) /\ Len(head) = IF 1 <= i - 1 THEN i - 1 - 1 + 1 ELSE 0
      /\ \A j \in 1 .. i - 1 - 1 + 1 : head[j] = s[1 + j - 1]
  BY <1>2, SubSeqProperties
<1>4. /\ tail \in Seq(S)
      /\ Len(tail) = IF i + 1 <= Len(s) THEN Len(s) - (i + 1) + 1 ELSE 0
      /\ \A j \in 1 .. Len(s) - (i + 1) + 1 : tail[j] = s[i + 1 + j - 1]
  BY <1>2, SubSeqProperties
<1> HIDE DEF head, tail
<1>5. /\ head \in Seq(S) /\ tail \in Seq(S)
      /\ Len(head) = i - 1 /\ Len(tail) = Len(s) - i
      /\ \A j \in 1 .. i - 1 : j \in 1 .. i - 1 - 1 + 1 /\ 1 + j - 1 = j
      /\ \A j \in 1 .. Len(s) - i :
            j \in 1 .. Len(s) - (i + 1) + 1 /\ i + 1 + j - 1 = i + j
  BY <1>3, <1>4
<1>6. /\ head \o tail \in Seq(S) /\ Len(head \o tail) = Len(s) - 1
      /\ \A j \in 1 .. Len(s) - 1 :
           (head \o tail)[j] = IF j <= i - 1 THEN head[j] ELSE tail[j - (i - 1)]
  <2>1. /\ head \o tail \in Seq(S) /\ Len(head \o tail) = Len(head) + Len(tail)
        /\ \A j \in 1 .. Len(head) + Len(tail) :
             (head \o tail)[j] = IF j <= Len(head) THEN head[j] ELSE tail[j - Len(head)]
    BY <1>5, ConcatProperties
  <2>2. Len(head) + Len(tail) = Len(s) - 1 /\ Len(head) = i - 1
    BY <1>5
  <2> QED
    BY <2>1, <2>2
<1>7. ASSUME NEW j \in 1 .. Len(s) - 1
      PROVE  (head \o tail)[j] = IF j < i THEN s[j] ELSE s[j + 1]
  <2>1. CASE j < i
    BY <1>3, <1>5, <1>6, <2>1
  <2>2. CASE j >= i
    <3>1. /\ j - (i - 1) \in 1 .. Len(s) - i /\ i + (j - (i - 1)) = j + 1
          /\ ~(j <= i - 1)
      BY <2>2
    <3>2. tail[j - (i - 1)] = s[j + 1]
      BY <1>4, <1>5, <3>1
    <3> QED
      BY <1>6, <2>2, <3>1, <3>2
  <2>3. j < i \/ j >= i
    OBVIOUS
  <2> QED
    BY <2>1, <2>2, <2>3
<1> QED
  BY <1>6, <1>7 DEF head, tail

(* The rest stays in the list, and nothing comes into it.                  *)
LEMMA ListWithout ==
  ASSUME NEW S, NEW s \in Seq(S), NEW i \in 1 .. Len(s)
  PROVE  LET r == SubSeq(s, 1, i - 1) \o SubSeq(s, i + 1, Len(s))
         IN /\ \A k \in 1 .. Len(r) : \E j \in 1 .. Len(s) : r[k] = s[j]
            /\ \A j \in 1 .. Len(s) : j # i => \E k \in 1 .. Len(r) : r[k] = s[j]
<1> DEFINE r == SubSeq(s, 1, i - 1) \o SubSeq(s, i + 1, Len(s))
<1>1. /\ r \in Seq(S) /\ Len(r) = Len(s) - 1
      /\ \A j \in 1 .. Len(s) - 1 : r[j] = IF j < i THEN s[j] ELSE s[j + 1]
  BY RemovedIs
<1> HIDE DEF r
<1>2. ASSUME NEW k \in 1 .. Len(r)
      PROVE  \E j \in 1 .. Len(s) : r[k] = s[j]
  <2>1. k \in 1 .. Len(s) /\ k + 1 \in 1 .. Len(s) /\ k \in 1 .. Len(s) - 1
    BY <1>1
  <2> QED
    BY <1>1, <2>1
<1>3. ASSUME NEW j \in 1 .. Len(s), j # i
      PROVE  \E k \in 1 .. Len(r) : r[k] = s[j]
  <2>1. CASE j < i
    <3>1. j \in 1 .. Len(r) /\ r[j] = s[j]
      BY <1>1, <2>1
    <3> QED
      BY <3>1
  <2>2. CASE j > i
    <3>1. j - 1 \in 1 .. Len(s) - 1 /\ ~(j - 1 < i) /\ (j - 1) + 1 = j
      BY <2>2
    <3>2. r[j - 1] = s[j] /\ j - 1 \in 1 .. Len(r)
      BY <1>1, <3>1
    <3> QED
      BY <3>2
  <2> QED
    BY <1>3, <2>1, <2>2
<1> QED
  BY <1>2, <1>3 DEF r

(* The smallest and the largest of some places of a list.                  *)
LEMMA FirstPlace ==
  ASSUME NEW T, T \subseteq Nat, T # {}
  PROVE  \E i \in T : \A j \in T : i <= j
<1> DEFINE R == OpToRel(<, Nat)
<1>1. IsWellFoundedOn(R, Nat)
  BY NatLessThanWellFounded
<1>2. \A x, y \in Nat : <<y, x>> \in R <=> y < x
  BY DEF OpToRel
<1> HIDE DEF R
<1>3. PICK i \in T : \A j \in T : ~ (<<j, i>> \in R)
  BY <1>1, WFMin
<1>4. \A j \in T : i <= j
  <2> TAKE j \in T
  <2>1. i \in Nat /\ j \in Nat /\ ~ (j < i)
    BY <1>2, <1>3
  <2> QED
    BY <2>1
<1> QED
  BY <1>4

LEMMA LastPlace ==
  ASSUME NEW n \in Nat, NEW T, T \subseteq 1 .. n, T # {}
  PROVE  \E i \in T : \A j \in T : j <= i
<1> DEFINE U == {n - i : i \in T}
<1>1. U \subseteq Nat /\ U # {}
  <2>1. PICK i \in T : TRUE
    OBVIOUS
  <2>2. n - i \in U
    OBVIOUS
  <2>3. \A i_1 \in T : n - i_1 \in Nat
    OBVIOUS
  <2> QED
    BY <2>2, <2>3
<1>2. (\A i \in T : n - i \in U) /\ \A u \in U : \E i \in T : u = n - i
  OBVIOUS
<1> HIDE DEF U
<1>3. PICK u \in U : \A v \in U : u <= v
  BY <1>1, FirstPlace
<1>4. PICK i \in T : u = n - i
  BY <1>2, <1>3
<1>5. \A j \in T : j <= i
  <2> TAKE j \in T
  <2>1. n - j \in U /\ i \in Nat /\ j \in Nat
    BY <1>2
  <2>2. n - i <= n - j
    BY <1>3, <1>4, <2>1
  <2> QED
    BY <2>1, <2>2
<1> QED
  BY <1>5

(* What is put at the head of a list is added to it.                       *)
LEMMA ListWith ==
  ASSUME NEW S, NEW s \in Seq(S), NEW t \in S
  PROVE  LET r == <<t>> \o s
         IN /\ r \in Seq(S) /\ Len(r) = Len(s) + 1 /\ r[1] = t
            /\ \A j \in 1 .. Len(s) : r[j + 1] = s[j]
            /\ \A k \in 2 .. Len(r) : k - 1 \in 1 .. Len(s) /\ r[k] = s[k - 1]
<1> DEFINE r == <<t>> \o s
<1>1. <<t>> \in Seq(S) /\ Len(<<t>>) = 1 /\ <<t>>[1] = t
  OBVIOUS
<1>2. /\ r \in Seq(S) /\ Len(r) = 1 + Len(s)
      /\ \A j \in 1 .. 1 + Len(s) : r[j] = IF j <= 1 THEN <<t>>[j] ELSE s[j - 1]
  BY <1>1, ConcatProperties
<1> HIDE DEF r
<1>3. r[1] = t
  BY <1>1, <1>2
<1>4. ASSUME NEW j \in 1 .. Len(s)
      PROVE  r[j + 1] = s[j]
  <2>1. j + 1 \in 1 .. 1 + Len(s) /\ ~(j + 1 <= 1) /\ (j + 1) - 1 = j
    OBVIOUS
  <2> QED
    BY <1>2, <2>1
<1>5. ASSUME NEW k \in 2 .. Len(r)
      PROVE  k - 1 \in 1 .. Len(s) /\ r[k] = s[k - 1]
  <2>1. k \in 1 .. 1 + Len(s) /\ ~(k <= 1) /\ k - 1 \in 1 .. Len(s)
    BY <1>2
  <2> QED
    BY <1>2, <2>1
<1> QED
  BY <1>2, <1>3, <1>4, <1>5 DEF r

(* What is put in a list at the place i, as a list of its own.             *)
InsertedAt(s, i, one) == SubSeq(s, 1, i - 1) \o one \o SubSeq(s, i, Len(s))

LEMMA InsertedIs ==
  ASSUME NEW S, NEW s \in Seq(S), NEW t \in S, NEW one, one = <<t>>,
         NEW i \in 1 .. Len(s) + 1
  PROVE  /\ InsertedAt(s, i, one) \in Seq(S) /\ Len(InsertedAt(s, i, one)) = Len(s) + 1
         /\ InsertedAt(s, i, one)[i] = t
         /\ \A j \in 1 .. i - 1 : InsertedAt(s, i, one)[j] = s[j]
         /\ \A j \in i .. Len(s) : InsertedAt(s, i, one)[j + 1] = s[j]
<1> DEFINE head == SubSeq(s, 1, i - 1)
           tail == SubSeq(s, i, Len(s))
           front == head \o one
           r == front \o tail
<1>1. \A j \in 1 .. Len(s) : s[j] \in S
  OBVIOUS
<1>2. /\ \A j \in 1 .. i - 1 : s[j] \in S
      /\ \A j \in i .. Len(s) : s[j] \in S
      /\ i - 1 \in Int /\ i \in Int /\ Len(s) \in Int /\ 1 \in Int
  BY <1>1
<1>3. /\ head \in Seq(S) /\ Len(head) = IF 1 <= i - 1 THEN i - 1 - 1 + 1 ELSE 0
      /\ \A j \in 1 .. i - 1 - 1 + 1 : head[j] = s[1 + j - 1]
  BY <1>2, SubSeqProperties
<1>4. /\ tail \in Seq(S) /\ Len(tail) = IF i <= Len(s) THEN Len(s) - i + 1 ELSE 0
      /\ \A j \in 1 .. Len(s) - i + 1 : tail[j] = s[i + j - 1]
  BY <1>2, SubSeqProperties
<1>5. one \in Seq(S) /\ Len(one) = 1 /\ one[1] = t
  OBVIOUS
<1> HIDE DEF head, tail
<1>6. /\ Len(head) = i - 1 /\ Len(tail) = Len(s) + 1 - i
      /\ \A j \in 1 .. i - 1 : j \in 1 .. i - 1 - 1 + 1 /\ 1 + j - 1 = j
      /\ \A j \in i .. Len(s) : j + 1 - i \in 1 .. Len(s) - i + 1 /\ i + (j + 1 - i) - 1 = j
  <2>1. Len(s) \in Nat /\ i \in Nat /\ 1 <= i /\ i <= Len(s) + 1
    OBVIOUS
  <2>2. Len(head) = i - 1
    BY <1>3, <2>1
  <2>3. Len(tail) = Len(s) + 1 - i
    BY <1>4, <2>1
  <2> QED
    BY <2>1, <2>2, <2>3
<1>7. /\ front \in Seq(S) /\ Len(front) = i
      /\ \A j \in 1 .. i - 1 : front[j] = s[j]
      /\ front[i] = t
  <2>1. /\ front \in Seq(S) /\ Len(front) = Len(head) + 1
        /\ \A j \in 1 .. Len(head) + 1 :
              front[j] = IF j <= Len(head) THEN head[j] ELSE one[j - Len(head)]
    BY <1>3, <1>5, ConcatProperties
  <2>2. i \in 1 .. Len(head) + 1 /\ ~(i <= Len(head)) /\ i - Len(head) = 1
    BY <1>6
  <2>3. \A j \in 1 .. i - 1 : j \in 1 .. Len(head) + 1 /\ j <= Len(head) /\ head[j] = s[j]
    BY <1>3, <1>6
  <2> QED
    BY <1>5, <1>6, <2>1, <2>2, <2>3
<1> HIDE DEF front
<1>8. /\ r \in Seq(S) /\ Len(r) = Len(s) + 1
      /\ \A j \in 1 .. Len(s) + 1 : r[j] = IF j <= i THEN front[j] ELSE tail[j - i]
  <2>1. /\ r \in Seq(S) /\ Len(r) = Len(front) + Len(tail)
        /\ \A j \in 1 .. Len(front) + Len(tail) :
              r[j] = IF j <= Len(front) THEN front[j] ELSE tail[j - Len(front)]
    BY <1>4, <1>7, ConcatProperties
  <2>2. Len(front) + Len(tail) = Len(s) + 1
    BY <1>6, <1>7
  <2> QED
    BY <1>7, <2>1, <2>2
<1> HIDE DEF r
<1>9. r[i] = t /\ \A j \in 1 .. i - 1 : r[j] = s[j]
  BY <1>7, <1>8
<1>10. ASSUME NEW j \in i .. Len(s) PROVE r[j + 1] = s[j]
  <2>1. j + 1 \in 1 .. Len(s) + 1 /\ ~(j + 1 <= i)
    OBVIOUS
  <2>2. tail[j + 1 - i] = s[j]
    BY <1>4, <1>6
  <2> QED
    BY <1>8, <2>1, <2>2
<1>11. r = InsertedAt(s, i, one)
  BY DEF InsertedAt, r, front, head, tail
<1> QED
  BY <1>8, <1>9, <1>10, <1>11

=============================================================================

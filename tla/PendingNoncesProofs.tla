------------------------- MODULE PendingNoncesProofs -------------------------
(***************************************************************************)
(* Proofs about the vector of pending nonces, for every window and number  *)
(* of nonces: it stays sorted and within its account, and the endpoint's   *)
(* binary search, walk and drain do to its elements what MessagingChannel  *)
(* does to a set.                                                          *)
(***************************************************************************)
EXTENDS PendingNonces, Sums, SequenceTheorems

-----------------------------------------------------------------------------
(* Distinct sorted nonces: elements are at least as far apart as their     *)
(* places.                                                                 *)
Apart(list) ==
  \A i, j \in 1..Len(list) : i <= j => list[i] + (j - i) <= list[j]

(* What an insertion leaves of a list.                                     *)
LEMMA InsertedIs ==
  ASSUME NEW list \in Seq(Nat), NEW i \in 1..(Len(list) + 1), NEW n \in Nat
  PROVE  /\ InsertAt(list, i, n) \in Seq(Nat)
         /\ Len(InsertAt(list, i, n)) = Len(list) + 1
         /\ \A j \in 1..(Len(list) + 1) :
              InsertAt(list, i, n)[j] = IF j < i THEN list[j]
                                        ELSE IF j = i THEN n ELSE list[j - 1]
<1> DEFINE before == SubSeq(list, 1, i - 1)
           middle == <<n>>
           after == SubSeq(list, i, Len(list))
<1>0. Len(list) \in Nat /\ \A j \in 1..Len(list) : list[j] \in Nat
  BY LenProperties, ElementOfSeq
<1>1. /\ before \in Seq(Nat) /\ Len(before) = i - 1
      /\ \A j \in 1..(i - 1) : before[j] = list[j]
  <2>1. \A j \in 1..(i - 1) : list[j] \in Nat
    BY <1>0
  <2>2. 1 \in Int /\ i - 1 \in Int
    BY <1>0
  <2>3. /\ before \in Seq(Nat)
        /\ Len(before) = IF 1 <= i - 1 THEN (i - 1) - 1 + 1 ELSE 0
        /\ \A j \in 1..((i - 1) - 1 + 1) : before[j] = list[1 + j - 1]
    BY <2>1, <2>2, SubSeqProperties
  <2> HIDE DEF before
  <2> QED  BY <1>0, <2>3
<1>2. /\ after \in Seq(Nat) /\ Len(after) = Len(list) - i + 1
      /\ \A j \in 1..(Len(list) - i + 1) : after[j] = list[i + j - 1]
  <2>1. \A j \in i..Len(list) : list[j] \in Nat
    BY <1>0
  <2>2. Len(list) \in Int /\ i \in Int
    BY <1>0
  <2>3. /\ after \in Seq(Nat)
        /\ Len(after) = IF i <= Len(list) THEN Len(list) - i + 1 ELSE 0
        /\ \A j \in 1..(Len(list) - i + 1) : after[j] = list[i + j - 1]
    BY <2>1, <2>2, SubSeqProperties
  <2> HIDE DEF after
  <2> QED  BY <1>0, <2>3
<1>3. middle \in Seq(Nat) /\ Len(middle) = 1 /\ middle[1] = n
  OBVIOUS
<1>4. InsertAt(list, i, n) = (before \o middle) \o after
  BY DEF InsertAt
<1> HIDE DEF before, middle, after
<1>5. /\ before \o middle \in Seq(Nat) /\ Len(before \o middle) = i
      /\ \A j \in 1..i : (before \o middle)[j] = IF j < i THEN list[j] ELSE n
  <2>1. /\ before \o middle \in Seq(Nat) /\ Len(before \o middle) = Len(before) + Len(middle)
        /\ \A j \in 1..(Len(before) + Len(middle)) :
             (before \o middle)[j] = IF j <= Len(before) THEN before[j] ELSE middle[j - Len(before)]
    BY <1>1, <1>3, ConcatProperties
  <2> DEFINE front == before \o middle
  <2> HIDE DEF front
  <2>2. front \in Seq(Nat) /\ Len(front) = i
    BY <1>0, <1>1, <1>3, <2>1 DEF front
  <2>3. ASSUME NEW j \in 1..i PROVE front[j] = IF j < i THEN list[j] ELSE n
    <3>1. front[j] = IF j <= i - 1 THEN before[j] ELSE middle[j - (i - 1)]
      BY <1>0, <1>1, <1>3, <2>1 DEF front
    <3>2. CASE j < i
      BY <1>0, <1>1, <2>3, <3>1, <3>2
    <3>3. CASE j = i
      BY <1>0, <1>3, <3>1, <3>3
    <3> QED  BY <1>0, <3>2, <3>3
  <2> QED  BY <2>2, <2>3 DEF front
<1> DEFINE front == before \o middle
           whole == front \o after
<1>11. front \in Seq(Nat)
  BY <1>5
<1> HIDE DEF front
<1>6. /\ whole \in Seq(Nat) /\ Len(whole) = Len(front) + Len(after)
      /\ \A j \in 1..(Len(front) + Len(after)) :
           whole[j] = IF j <= Len(front) THEN front[j] ELSE after[j - Len(front)]
  BY <1>2, <1>11, ConcatProperties
<1>7. Len(front) = i /\ \A j \in 1..i : front[j] = IF j < i THEN list[j] ELSE n
  BY <1>5 DEF front
<1>8. whole = InsertAt(list, i, n)
  BY <1>4 DEF front
<1> HIDE DEF whole
<1>9. Len(whole) = Len(list) + 1
  BY <1>0, <1>2, <1>6, <1>7
<1>10. ASSUME NEW j \in 1..(Len(list) + 1)
       PROVE  whole[j] = IF j < i THEN list[j] ELSE IF j = i THEN n ELSE list[j - 1]
  <2>1. CASE j <= i
    BY <1>0, <1>2, <1>6, <1>7, <2>1
  <2>2. CASE j > i
    <3>1. whole[j] = after[j - i]
      BY <1>0, <1>2, <1>6, <1>7, <2>2
    <3>2. after[j - i] = list[i + (j - i) - 1] /\ i + (j - i) - 1 = j - 1
      BY <1>0, <1>2, <2>2
    <3> QED  BY <2>2, <3>1, <3>2
  <2> QED  BY <2>1, <2>2
<1> QED  BY <1>6, <1>8, <1>9, <1>10

(* Sorted in at the place that the search finds, a new nonce keeps the     *)
(* list sorted.                                                            *)
LEMMA InsertionSorts ==
  ASSUME NEW list \in Seq(Nat), Apart(list), NEW n \in Nat, NEW i \in InsertIndex(list, n)
  PROVE  /\ InsertAt(list, i, n) \in Seq(Nat)
         /\ Apart(InsertAt(list, i, n))
         /\ ToSet(InsertAt(list, i, n)) = ToSet(list) \cup {n}
<1> DEFINE whole == InsertAt(list, i, n)
<1>0. Len(list) \in Nat /\ \A j \in 1..Len(list) : list[j] \in Nat
  BY LenProperties, ElementOfSeq
<1>1. /\ i \in 1..(Len(list) + 1)
      /\ \A j \in 1..(i - 1) : list[j] < n
      /\ \A j \in i..Len(list) : list[j] > n
  BY DEF InsertIndex
<1>2. /\ whole \in Seq(Nat) /\ Len(whole) = Len(list) + 1
      /\ \A j \in 1..(Len(list) + 1) :
           whole[j] = IF j < i THEN list[j] ELSE IF j = i THEN n ELSE list[j - 1]
  BY <1>1, InsertedIs
<1> HIDE DEF whole
<1>3. ASSUME NEW j \in 1..Len(whole), NEW k \in 1..Len(whole), j <= k
      PROVE  whole[j] + (k - j) <= whole[k]
  <2>1. CASE k < i
    <3>1. whole[j] = list[j] /\ whole[k] = list[k]
      BY <1>0, <1>1, <1>2, <1>3, <2>1
    <3>2. j \in 1..Len(list) /\ k \in 1..Len(list) /\ j <= k
      BY <1>0, <1>1, <1>2, <1>3, <2>1
    <3> QED  BY <3>1, <3>2 DEF Apart
  <2>2. CASE i < j
    <3>1. whole[j] = list[j - 1] /\ whole[k] = list[k - 1]
      BY <1>0, <1>1, <1>2, <1>3, <2>2
    <3>2. j - 1 \in 1..Len(list) /\ k - 1 \in 1..Len(list) /\ j - 1 <= k - 1
      BY <1>0, <1>1, <1>2, <1>3, <2>2
    <3>3. list[j - 1] + ((k - 1) - (j - 1)) <= list[k - 1]
      BY <3>2 DEF Apart
    <3> QED  BY <1>0, <3>1, <3>2, <3>3
  <2>3. ASSUME j < i PROVE list[j] + (i - j) <= n
    <3>1. i - 1 \in 1..Len(list) /\ j \in 1..Len(list) /\ j <= i - 1
      BY <1>0, <1>1, <2>3
    <3>2. list[j] + ((i - 1) - j) <= list[i - 1]
      BY <3>1 DEF Apart
    <3>3. list[i - 1] < n
      BY <1>0, <1>1, <3>1
    <3>4. list[j] \in Int /\ list[i - 1] \in Int /\ i \in Int /\ j \in Int
      BY <1>0, <1>1, <3>1
    <3> DEFINE x == list[j]
               y == list[i - 1]
    <3> HIDE DEF x, y
    <3>5. x + ((i - 1) - j) <= y /\ y < n /\ x \in Int /\ y \in Int
      BY <3>2, <3>3, <3>4 DEF x, y
    <3>6. x + (i - j) <= n
      BY <3>4, <3>5
    <3> QED  BY <3>6 DEF x
  <2>4. ASSUME i < k PROVE n + (k - i) <= list[k - 1]
    <3>1. i \in 1..Len(list) /\ k - 1 \in 1..Len(list) /\ i <= k - 1
      BY <1>0, <1>1, <1>2, <2>4
    <3>2. list[i] + ((k - 1) - i) <= list[k - 1]
      BY <3>1 DEF Apart
    <3>3. list[i] > n
      BY <1>0, <1>1, <3>1
    <3>4. list[i] \in Nat /\ list[k - 1] \in Nat
      BY <1>0, <3>1
    <3> QED  BY <1>0, <1>1, <3>1, <3>2, <3>3, <3>4
  <2>5. CASE j < i /\ k = i
    <3>1. whole[j] = list[j] /\ whole[k] = n
      BY <1>0, <1>1, <1>2, <2>5
    <3> QED  BY <2>3, <2>5, <3>1
  <2>6. CASE j = i /\ k = i
    BY <1>0, <1>1, <1>2, <2>6
  <2>7. CASE j = i /\ i < k
    <3>1. whole[j] = n /\ whole[k] = list[k - 1]
      BY <1>0, <1>1, <1>2, <2>7
    <3> QED  BY <2>4, <2>7, <3>1
  <2>8. CASE j < i /\ i < k
    <3>1. list[j] + (i - j) <= n /\ n + (k - i) <= list[k - 1]
      BY <2>3, <2>4, <2>8
    <3>2. whole[j] = list[j] /\ whole[k] = list[k - 1]
      BY <1>0, <1>1, <1>2, <2>8
    <3>3. j \in 1..Len(list) /\ k - 1 \in 1..Len(list)
      BY <1>0, <1>1, <1>2, <2>8
    <3>4. list[j] \in Int /\ list[k - 1] \in Int /\ i \in Int /\ j \in Int /\ k \in Int
      BY <1>0, <1>1, <3>3
    <3> DEFINE x == list[j]
               y == list[k - 1]
    <3> HIDE DEF x, y
    <3>5. x + (i - j) <= n /\ n + (k - i) <= y /\ x \in Int /\ y \in Int
      BY <3>1, <3>4 DEF x, y
    <3>6. x + (k - j) <= y
      BY <3>4, <3>5
    <3> QED  BY <3>2, <3>6 DEF x, y
  <2> QED  BY <1>0, <1>1, <1>2, <1>3, <2>1, <2>2, <2>5, <2>6, <2>7, <2>8
<1>4. ToSet(whole) = ToSet(list) \cup {n}
  <2>0. DOMAIN whole = 1..Len(whole) /\ DOMAIN list = 1..Len(list)
    BY <1>2
  <2>1. ASSUME NEW x \in ToSet(whole) PROVE x \in ToSet(list) \cup {n}
    <3>1. PICK j \in 1..(Len(list) + 1) : whole[j] = x
      BY <1>2, <2>0 DEF ToSet
    <3>2. CASE j < i
      <4>1. x = list[j] /\ j \in DOMAIN list
        BY <1>0, <1>1, <1>2, <2>0, <3>1, <3>2
      <4> QED  BY <4>1 DEF ToSet
    <3>3. CASE j = i
      BY <1>2, <3>1, <3>3
    <3>4. CASE j > i
      <4>1. x = list[j - 1] /\ j - 1 \in DOMAIN list
        BY <1>0, <1>1, <1>2, <2>0, <3>1, <3>4
      <4> QED  BY <4>1 DEF ToSet
    <3> QED  BY <1>0, <1>1, <3>2, <3>3, <3>4
  <2>2. n \in ToSet(whole)
    <3>1. whole[i] = n /\ i \in DOMAIN whole
      BY <1>0, <1>1, <1>2, <2>0
    <3> QED  BY <3>1 DEF ToSet
  <2>3. ASSUME NEW x \in ToSet(list) PROVE x \in ToSet(whole)
    <3>1. PICK j \in 1..Len(list) : list[j] = x
      BY <2>0 DEF ToSet
    <3>2. CASE j < i
      <4>1. whole[j] = x /\ j \in DOMAIN whole
        BY <1>0, <1>1, <1>2, <2>0, <3>1, <3>2
      <4> QED  BY <4>1 DEF ToSet
    <3>3. CASE j >= i
      <4>1. whole[j + 1] = x /\ j + 1 \in DOMAIN whole
        BY <1>0, <1>1, <1>2, <2>0, <3>1, <3>3
      <4> QED  BY <4>1 DEF ToSet
    <3> QED  BY <1>0, <1>1, <3>2, <3>3
  <2> QED  BY <2>1, <2>2, <2>3
<1>5. Apart(whole)
  BY <1>3 DEF Apart
<1> QED  BY <1>2, <1>4, <1>5 DEF whole

(* The walk ends somewhere.                                                *)
LEMMA RunEnds ==
  ASSUME NEW list \in Seq(Nat), inboundNonce \in Nat
  PROVE  /\ Run(list) \in 0..Len(list)
         /\ \A i \in 1..Run(list) : list[i] = inboundNonce + i
         /\ Run(list) < Len(list) => list[Run(list) + 1] # inboundNonce + Run(list) + 1
<1> DEFINE T == {k \in 0..Len(list) : k < Len(list) => list[k + 1] # inboundNonce + k + 1}
           Ends(k) == /\ \A i \in 1..k : list[i] = inboundNonce + i
                      /\ k < Len(list) => list[k + 1] # inboundNonce + k + 1
<1>0. Len(list) \in Nat
  BY LenProperties
<1>1. T \in SUBSET Nat /\ Len(list) \in T
  BY <1>0
<1>2. PICK k \in T : \A m \in T : k <= m
  <2> HIDE DEF T
  <2> QED  BY <1>1, LeastNatural
<1>3. k \in 0..Len(list) /\ (k < Len(list) => list[k + 1] # inboundNonce + k + 1)
  OBVIOUS
<1>4. ASSUME NEW i \in 1..k PROVE list[i] = inboundNonce + i
  <2>1. i - 1 \notin T
    <3>1. ~(k <= i - 1)
      BY <1>0, <1>3
    <3> HIDE DEF T
    <3> QED  BY <1>2, <3>1
  <2>2. i - 1 \in 0..Len(list) /\ i - 1 < Len(list) /\ (i - 1) + 1 = i
    BY <1>0, <1>3
  <2>3. list[(i - 1) + 1] = inboundNonce + (i - 1) + 1
    BY <2>1, <2>2
  <2> QED  BY <2>2, <2>3
<1>5. \E m \in 0..Len(list) : Ends(m)
  BY <1>3, <1>4
<1>6. Run(list) = CHOOSE m \in 0..Len(list) : Ends(m)
  BY DEF Run
<1> HIDE DEF Ends
<1>7. Run(list) \in 0..Len(list) /\ Ends(Run(list))
  BY <1>5, <1>6
<1> QED  BY <1>7 DEF Ends

-----------------------------------------------------------------------------
(* The nonces of the list are apart, more than one ahead of inbound_nonce, *)
(* and within its window.                                                  *)
ListInv ==
  /\ inboundNonce \in 0..MaxNonce
  /\ nonces \in Seq(1..MaxNonce)
  /\ Apart(nonces)
  /\ \A i \in 1..Len(nonces) : nonces[i] \in (inboundNonce + 2)..(inboundNonce + Window)

(* An insertion keeps this, and is an insertion into the set.              *)
LEMMA ListStep ==
  ASSUME ListInv, NEW n \in 1..MaxNonce, InsertPendingInboundNonce(n)
  PROVE  ListInv' /\ Channel!InsertPendingInboundNonce(n)
<1>0. /\ inboundNonce \in Nat /\ MaxNonce \in Nat /\ Window \in Nat /\ n \in Nat
      /\ Len(nonces) \in Nat /\ nonces \in Seq(Nat)
      /\ InWindow(n)
  BY ListAssumption, LenProperties, SeqMonotonic DEF ListInv, InsertPendingInboundNonce
<1>1. Channel!InWindow(n)
  BY <1>0 DEF Channel!InWindow, InWindow
<1>2. CASE n \in ToSet(nonces)
  BY <1>1, <1>2 DEF InsertPendingInboundNonce, Channel!InsertPendingInboundNonce, vars, ListInv
<1>3. CASE n \notin ToSet(nonces)
  <2>1. PICK i \in InsertIndex(nonces, n) : UpdateInboundNonce(InsertAt(nonces, i, n))
    BY <1>3 DEF InsertPendingInboundNonce
  <2> DEFINE list == InsertAt(nonces, i, n)
             k == Run(list)
             last == inboundNonce + k
  <2>2. list \in Seq(Nat) /\ Apart(list) /\ ToSet(list) = ToSet(nonces) \cup {n}
    BY <1>0, <2>1, InsertionSorts DEF ListInv
  <2>3. inboundNonce' = inboundNonce + k /\ nonces' = SubSeq(list, k + 1, Len(list))
    BY <2>1 DEF UpdateInboundNonce
  <2> HIDE DEF list
  <2>4. /\ k \in 0..Len(list)
        /\ \A j \in 1..k : list[j] = inboundNonce + j
        /\ k < Len(list) => list[k + 1] # inboundNonce + k + 1
    BY <1>0, <2>2, RunEnds
  <2>5. Len(list) \in Nat /\ DOMAIN list = 1..Len(list)
    BY <2>2, LenProperties
  <2>6. \A x \in ToSet(list) : x \in 1..MaxNonce /\ x > inboundNonce /\ x <= inboundNonce + Window
    <3>1. \A x \in ToSet(nonces) :
            x \in 1..MaxNonce /\ x > inboundNonce /\ x <= inboundNonce + Window
      BY <1>0 DEF ListInv, ToSet
    <3> QED  BY <1>0, <2>2, <3>1 DEF InWindow
  <2>7. \A j \in 1..Len(list) :
          list[j] \in 1..MaxNonce /\ list[j] > inboundNonce /\ list[j] <= inboundNonce + Window
    BY <2>5, <2>6 DEF ToSet
  <2> HIDE DEF k
  <2>8. last \in inboundNonce..MaxNonce
    <3>1. CASE k = 0
      BY <1>0, <3>1 DEF ListInv
    <3>2. CASE k # 0
      <4>1. k \in 1..k /\ k \in 1..Len(list)
        BY <2>4, <2>5, <3>2
      <4>2. list[k] = inboundNonce + k /\ list[k] \in 1..MaxNonce
        BY <2>4, <2>7, <4>1
      <4> QED  BY <1>0, <4>1, <4>2
    <3> QED  BY <3>1, <3>2
  <2>9. \A j \in (k + 1)..Len(list) : list[j] >= last + 2
    <3> SUFFICES ASSUME NEW j \in (k + 1)..Len(list) PROVE list[j] >= last + 2
      OBVIOUS
    <3>1. /\ k + 1 \in 1..Len(list) /\ j \in 1..Len(list) /\ k + 1 <= j
          /\ list[j] \in Nat /\ list[k + 1] \in Nat
      BY <2>4, <2>5, <2>7
    <3>2. list[k + 1] + (j - (k + 1)) <= list[j]
      BY <2>2, <3>1 DEF Apart
    <3>3. list[k + 1] # last + 1
      BY <1>0, <2>4, <2>5, <3>1
    <3>4. list[k + 1] >= last + 1
      <4>1. CASE k = 0
        BY <1>0, <2>7, <3>1, <4>1
      <4>2. CASE k # 0
        <5>1. k \in 1..k /\ k \in 1..Len(list) /\ k <= k + 1
          BY <2>4, <2>5, <4>2
        <5>2. list[k] + ((k + 1) - k) <= list[k + 1]
          BY <2>2, <3>1, <5>1 DEF Apart
        <5>3. list[k] = last
          BY <2>4, <5>1
        <5> QED  BY <1>0, <2>4, <3>1, <5>2, <5>3
      <4> QED  BY <4>1, <4>2
    <3>5. list[k + 1] >= last + 2
      <4> DEFINE x == list[k + 1]
      <4> HIDE DEF x, last
      <4>1. x # last + 1 /\ x >= last + 1 /\ x \in Int /\ last \in Int
        BY <1>0, <2>8, <3>1, <3>3, <3>4 DEF x
      <4>2. x >= last + 2
        BY <4>1
      <4> QED  BY <4>2 DEF x
    <3> QED  BY <1>0, <2>4, <3>1, <3>2, <3>5
  <2>10. /\ nonces' \in Seq(1..MaxNonce)
         /\ Len(nonces') = Len(list) - k
         /\ \A j \in 1..(Len(list) - k) : nonces'[j] = list[k + j]
    <3>1. \A j \in (k + 1)..Len(list) : list[j] \in 1..MaxNonce
      BY <2>4, <2>5, <2>7
    <3>2. k + 1 \in Int /\ Len(list) \in Int
      BY <2>4, <2>5
    <3> DEFINE rest == SubSeq(list, k + 1, Len(list))
    <3>3. /\ rest \in Seq(1..MaxNonce)
          /\ Len(rest) = IF k + 1 <= Len(list) THEN Len(list) - (k + 1) + 1 ELSE 0
          /\ \A j \in 1..(Len(list) - (k + 1) + 1) : rest[j] = list[k + 1 + j - 1]
      BY <3>1, <3>2, SubSeqProperties
    <3>4. nonces' = rest
      BY <2>3
    <3> HIDE DEF rest
    <3>5. Len(rest) = Len(list) - k
      <4> DEFINE length == Len(list)
      <4>1. Len(rest) = IF k + 1 <= length THEN length - (k + 1) + 1 ELSE 0
        BY <3>3
      <4>2. length \in Nat /\ k \in 0..length
        BY <2>4, <2>5
      <4> HIDE DEF length
      <4>3. Len(rest) = length - k
        BY <4>1, <4>2
      <4> QED  BY <4>3 DEF length
    <3>6. ASSUME NEW j \in 1..(Len(list) - k) PROVE rest[j] = list[k + j]
      <4>1. j \in 1..(Len(list) - (k + 1) + 1) /\ k + 1 + j - 1 = k + j
        BY <2>4, <2>5
      <4> QED  BY <3>3, <4>1
    <3> QED  BY <3>3, <3>4, <3>5, <3>6
  <2>11. inboundNonce' = last
    BY <2>3
  <2> HIDE DEF last
  <2>12. ListInv'
    <3>1. Apart(nonces)'
      <4> SUFFICES ASSUME NEW a \in 1..Len(nonces'), NEW b \in 1..Len(nonces'), a <= b
                   PROVE  nonces'[a] + (b - a) <= nonces'[b]
        BY DEF Apart
      <4>1. k + a \in 1..Len(list) /\ k + b \in 1..Len(list) /\ k + a <= k + b
        BY <2>4, <2>5, <2>10
      <4>2. list[k + a] + ((k + b) - (k + a)) <= list[k + b]
        BY <2>2, <4>1 DEF Apart
      <4>3. nonces'[a] = list[k + a] /\ nonces'[b] = list[k + b]
        BY <2>10
      <4>4. (k + b) - (k + a) = b - a
        BY <2>4, <2>5, <2>10
      <4> QED  BY <4>2, <4>3, <4>4
    <3>2. ASSUME NEW a \in 1..Len(nonces')
          PROVE  nonces'[a] \in (inboundNonce' + 2)..(inboundNonce' + Window)
      <4>1. k + a \in (k + 1)..Len(list) /\ k + a \in 1..Len(list)
        BY <2>4, <2>5, <2>10
      <4>2. nonces'[a] = list[k + a]
        BY <2>10
      <4>3. list[k + a] >= last + 2 /\ list[k + a] \in Nat /\ list[k + a] <= inboundNonce + Window
        BY <2>7, <2>9, <4>1
      <4> QED  BY <1>0, <2>8, <2>11, <4>2, <4>3
    <3>3. inboundNonce' \in 0..MaxNonce
      BY <1>0, <2>8, <2>11
    <3> QED  BY <2>10, <3>1, <3>2, <3>3 DEF ListInv
  <2>13. /\ (inboundNonce + 1)..last \subseteq ToSet(list)
         /\ last + 1 \notin ToSet(list)
    <3>1. ASSUME NEW x \in (inboundNonce + 1)..last PROVE x \in ToSet(list)
      <4> DEFINE j == x - inboundNonce
      <4>1. j \in 1..k /\ j \in 1..Len(list) /\ inboundNonce + j = x
        BY <1>0, <2>4, <2>5 DEF last
      <4> HIDE DEF j
      <4>2. list[j] = x
        BY <2>4, <4>1
      <4> QED  BY <2>5, <4>1, <4>2 DEF ToSet
    <3>2. ASSUME last + 1 \in ToSet(list) PROVE FALSE
      <4>1. PICK j \in 1..Len(list) : list[j] = last + 1
        BY <2>5, <3>2 DEF ToSet
      <4>2. CASE j <= k
        <5>1. list[j] = inboundNonce + j
          BY <2>4, <4>1, <4>2
        <5> QED  BY <1>0, <2>4, <4>1, <4>2, <5>1 DEF last
      <4>3. CASE j > k
        <5>1. list[j] >= last + 2
          BY <2>4, <2>5, <2>9, <4>3
        <5> QED  BY <1>0, <2>8, <4>1, <5>1
      <4> QED  BY <2>4, <2>5, <4>2, <4>3
    <3> QED  BY <3>1, <3>2
  <2>14. ToSet(nonces') = ToSet(list) \ ((inboundNonce + 1)..last)
    <3>0. DOMAIN nonces' = 1..Len(nonces')
      BY <2>10, LenProperties
    <3>1. ASSUME NEW x \in ToSet(nonces') PROVE x \in ToSet(list) /\ x \notin (inboundNonce + 1)..last
      <4>1. PICK a \in 1..Len(nonces') : nonces'[a] = x
        BY <3>0, <3>1 DEF ToSet
      <4>2. k + a \in (k + 1)..Len(list) /\ k + a \in DOMAIN list /\ list[k + a] = x
        BY <2>4, <2>5, <2>10, <4>1
      <4>3. x >= last + 2
        BY <2>9, <4>2
      <4> QED  BY <1>0, <2>5, <2>7, <2>8, <4>2, <4>3 DEF ToSet
    <3>2. ASSUME NEW x \in ToSet(list), x \notin (inboundNonce + 1)..last
          PROVE  x \in ToSet(nonces')
      <4>1. PICK j \in 1..Len(list) : list[j] = x
        BY <2>5, <3>2 DEF ToSet
      <4>2. j > k
        <5> SUFFICES ASSUME j <= k PROVE FALSE
          BY <2>4, <2>5
        <5>1. x = inboundNonce + j
          BY <2>4, <4>1
        <5> QED  BY <1>0, <2>4, <2>5, <3>2, <5>1 DEF last
      <4>3. j - k \in DOMAIN nonces' /\ nonces'[j - k] = list[k + (j - k)] /\ k + (j - k) = j
        BY <2>4, <2>5, <2>10, <3>0, <4>2
      <4> QED  BY <4>1, <4>3 DEF ToSet
    <3> QED  BY <3>1, <3>2
  <2>15. Channel!UpdateInboundNonce(ToSet(nonces) \cup {n})
    BY <2>2, <2>8, <2>11, <2>13, <2>14 DEF Channel!UpdateInboundNonce
  <2> QED  BY <1>1, <1>3, <2>12, <2>15 DEF Channel!InsertPendingInboundNonce
<1> QED  BY <1>2, <1>3

(* It holds of the empty list.                                             *)
LEMMA ListBegins == Init => ListInv
<1> SUFFICES ASSUME Init PROVE ListInv
  OBVIOUS
<1>1. nonces = << >> /\ inboundNonce = 0 /\ Len(nonces) = 0 /\ nonces \in Seq(1..MaxNonce)
  BY EmptySeq DEF Init
<1> QED  BY <1>1, ListAssumption DEF ListInv, Apart

LEMMA ListInvariant == Spec => []ListInv
<1>1. ASSUME ListInv, [Next]_vars PROVE ListInv'
  <2>1. CASE Next
    BY <1>1, <2>1, ListStep DEF Next
  <2>2. CASE UNCHANGED vars
    BY <1>1, <2>2 DEF vars, ListInv, Apart
  <2> QED  BY <1>1, <2>1, <2>2
<1> QED  BY <1>1, ListBegins, PTL DEF Spec

(* Counter and vector hold nonces.                                         *)
THEOREM TypeCorrect == Spec => []TypeOK
<1>1. ListInv => TypeOK
  BY DEF ListInv, TypeOK
<1> QED  BY <1>1, ListInvariant, PTL

(* The vector stays sorted and never fills its account.                    *)
THEOREM ListsStaySorted == Spec => []SortedAndFits
<1>1. ASSUME ListInv PROVE SortedAndFits
  <2>0. /\ Len(nonces) \in Nat /\ inboundNonce \in Nat /\ Window \in Nat \ {0}
        /\ \A i \in 1..Len(nonces) : nonces[i] \in Nat
    BY <1>1, ListAssumption, LenProperties, ElementOfSeq DEF ListInv
  <2>1. \A i \in 1..(Len(nonces) - 1) : nonces[i] < nonces[i + 1]
    <3> SUFFICES ASSUME NEW i \in 1..(Len(nonces) - 1) PROVE nonces[i] < nonces[i + 1]
      OBVIOUS
    <3>1. i \in 1..Len(nonces) /\ i + 1 \in 1..Len(nonces) /\ i <= i + 1
      BY <2>0
    <3>2. nonces[i] + ((i + 1) - i) <= nonces[i + 1]
      BY <1>1, <3>1 DEF ListInv, Apart
    <3> QED  BY <2>0, <3>1, <3>2
  <2>2. Len(nonces) < Window
    <3>1. CASE Len(nonces) = 0
      BY <2>0, <3>1
    <3>2. CASE Len(nonces) # 0
      <4>1. 1 \in 1..Len(nonces) /\ Len(nonces) \in 1..Len(nonces) /\ 1 <= Len(nonces)
        BY <2>0, <3>2
      <4>2. nonces[1] + (Len(nonces) - 1) <= nonces[Len(nonces)]
        BY <1>1, <4>1 DEF ListInv, Apart
      <4>3. nonces[1] >= inboundNonce + 2 /\ nonces[Len(nonces)] <= inboundNonce + Window
        BY <1>1, <2>0, <4>1 DEF ListInv
      <4> QED  BY <2>0, <4>1, <4>2, <4>3
    <3> QED  BY <3>1, <3>2
  <2> QED  BY <2>1, <2>2 DEF SortedAndFits
<1> QED  BY <1>1, ListInvariant, PTL

(* The list does what MessagingChannel does to its set.                    *)
THEOREM ListsAreSets == Spec => ListIsSet
<1>1. ASSUME ListInv, [Next]_vars
      PROVE  [\E n \in 1..MaxNonce : Channel!InsertPendingInboundNonce(n)]_vars
  BY <1>1, ListStep DEF Next
<1> QED  BY <1>1, ListInvariant, PTL DEF Spec, ListIsSet
===============================================================================

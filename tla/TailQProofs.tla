---------------------------- MODULE TailQProofs ----------------------------
(***************************************************************************)
(* What the operations of TailQ do to the elements of a queue on which     *)
(* every element is linked at most once.                                   *)
(***************************************************************************)
EXTENDS TailQ, SequenceTheorems, WellFoundedInduction, TLAPS

\* A queue of elements of S, each on it at most once.
IsTailQ(q, S) == q \in Seq(S) /\ \A i, j \in DOMAIN q : q[i] = q[j] => i = j

\* A nonempty set of naturals has a least element: the first queue entry that is not due,
\* the first queue whose bit is set.
LEMMA LeastIndex ==
  ASSUME NEW T, T \subseteq Nat, T # {}
  PROVE  \E x \in T : \A y \in T : x <= y
  <1>1. PICK x \in T : \A y \in T : ~(<<y, x>> \in OpToRel(<, Nat))
    BY NatLessThanWellFounded, WFMin
  <1>2. \A y \in T : ~(y < x)
    BY <1>1 DEF OpToRel
  <1> QED  BY <1>2

\* Nothing is on the empty queue alone.
LEMMA EmptyTailQ ==
  ASSUME NEW S, NEW q \in Seq(S)
  PROVE  q = <<>> <=> ToSet(q) = {}
  <1>1. CASE q = <<>>
    BY <1>1 DEF ToSet
  <1>2. CASE q # <<>>
    <2>1. 1 \in DOMAIN q
      BY <1>2
    <2> QED  BY <1>2, <2>1 DEF ToSet
  <1> QED  BY <1>1, <1>2

\* Appending an element that is not on the queue adds just that element.
LEMMA InsertTailProps ==
  ASSUME NEW S, NEW q, IsTailQ(q, S), NEW e \in S, e \notin ToSet(q)
  PROVE  /\ IsTailQ(TAILQ_INSERT_TAIL(q, e), S)
         /\ ToSet(TAILQ_INSERT_TAIL(q, e)) = ToSet(q) \cup {e}
  <1> DEFINE r == Append(q, e)
  <1>1. q \in Seq(S) /\ \A i \in 1..Len(q) : q[i] # e
    BY DEF IsTailQ, ToSet
  <1>2. /\ r \in Seq(S) /\ Len(r) = Len(q) + 1 /\ r[Len(q) + 1] = e
        /\ \A i \in 1..Len(q) : r[i] = q[i]
    BY <1>1
  <1>3. TAILQ_INSERT_TAIL(q, e) = r
    BY DEF TAILQ_INSERT_TAIL
  <1> HIDE DEF r
  <1>4. DOMAIN r = 1..(Len(q) + 1) /\ DOMAIN q = 1..Len(q) /\ Len(q) \in Nat
    BY <1>1, <1>2
  <1>5. \A i, j \in DOMAIN r : r[i] = r[j] => i = j
    <2> SUFFICES ASSUME NEW i \in DOMAIN r, NEW j \in DOMAIN r, r[i] = r[j] PROVE i = j
      OBVIOUS
    <2>1. CASE i = Len(q) + 1 \/ j = Len(q) + 1
      BY <1>1, <1>2, <1>4, <2>1
    <2>2. CASE i # Len(q) + 1 /\ j # Len(q) + 1
      <3>1. i \in 1..Len(q) /\ j \in 1..Len(q)
        BY <1>4, <2>2
      <3> QED  BY <1>2, <1>4, <3>1 DEF IsTailQ
    <2> QED  BY <2>1, <2>2
  <1>6. ToSet(r) = ToSet(q) \cup {e}
    <2>1. ASSUME NEW x \in ToSet(r) PROVE x \in ToSet(q) \cup {e}
      <3>1. PICK i \in DOMAIN r : x = r[i]
        BY DEF ToSet
      <3>2. CASE i = Len(q) + 1
        BY <1>2, <3>1, <3>2
      <3>3. CASE i # Len(q) + 1
        BY <1>2, <1>4, <3>1, <3>3 DEF ToSet
      <3> QED  BY <3>2, <3>3
    <2>2. ASSUME NEW x \in ToSet(q) \cup {e} PROVE x \in ToSet(r)
      <3>1. CASE x = e
        BY <1>2, <1>4, <3>1 DEF ToSet
      <3>2. CASE x \in ToSet(q)
        <4>1. PICK i \in DOMAIN q : x = q[i]
          BY <3>2 DEF ToSet
        <4>2. i \in DOMAIN r /\ r[i] = x
          BY <1>2, <1>4, <4>1
        <4> QED  BY <4>2 DEF ToSet
      <3> QED  BY <3>1, <3>2
    <2> QED  BY <2>1, <2>2
  <1> QED  BY <1>2, <1>3, <1>5, <1>6 DEF IsTailQ

\* What RemoveAt returns: unlinking entry i (TAILQ_REMOVE, remrq, untimeout) shifts the later
\* entries down by one and keeps the others.
LEMMA RemoveAtProps ==
  ASSUME NEW S, NEW q \in Seq(S), NEW i \in 1..Len(q)
  PROVE  /\ RemoveAt(q, i) \in Seq(S)
         /\ Len(RemoveAt(q, i)) = Len(q) - 1
         /\ \A k \in 1..(Len(q) - 1) :
               RemoveAt(q, i)[k] = IF k < i THEN q[k] ELSE q[k + 1]
  <1> DEFINE a == SubSeq(q, 1, i - 1)
             b == SubSeq(q, i + 1, Len(q))
  <1>1. a \in Seq(S) /\ Len(a) = i - 1 /\ \A k \in 1..(i - 1) : a[k] = q[k]
    OBVIOUS
  <1>2. b \in Seq(S) /\ Len(b) = Len(q) - i /\ \A k \in 1..(Len(q) - i) : b[k] = q[k + i]
    OBVIOUS
  <1> HIDE DEF a, b
  <1>3. /\ a \o b \in Seq(S)
        /\ Len(a \o b) = Len(a) + Len(b)
        /\ \A k \in 1..(Len(a) + Len(b)) :
              (a \o b)[k] = IF k <= Len(a) THEN a[k] ELSE b[k - Len(a)]
    BY <1>1, <1>2, ConcatProperties
  <1>4. RemoveAt(q, i) = a \o b
    BY DEF RemoveAt, a, b
  <1>5. ASSUME NEW k \in 1..(Len(q) - 1)
        PROVE  RemoveAt(q, i)[k] = IF k < i THEN q[k] ELSE q[k + 1]
    <2>1. CASE k < i
      BY <1>1, <1>2, <1>3, <1>4, <2>1
    <2>2. CASE k >= i
      <3>1. k - (i - 1) \in 1..(Len(q) - i) /\ (k - (i - 1)) + i = k + 1
        BY <2>2
      <3>2. b[k - (i - 1)] = q[k + 1]
        BY <1>2, <3>1
      <3> QED  BY <1>1, <1>2, <1>3, <1>4, <2>2, <3>2
    <2> QED  BY <2>1, <2>2
  <1>6. Len(a) + Len(b) = Len(q) - 1
    BY <1>1, <1>2
  <1> QED  BY <1>3, <1>4, <1>5, <1>6

\* Removing an element removes just that element.
LEMMA RemoveProps ==
  ASSUME NEW S, NEW q, IsTailQ(q, S), NEW e
  PROVE  /\ IsTailQ(TAILQ_REMOVE(q, e), S)
         /\ ToSet(TAILQ_REMOVE(q, e)) = ToSet(q) \ {e}
  <1>1. CASE e \notin ToSet(q)
    BY <1>1 DEF TAILQ_REMOVE
  <1>2. CASE e \in ToSet(q)
    <2> DEFINE n == CHOOSE i \in DOMAIN q : q[i] = e
               r == RemoveAt(q, n)
    <2>1. n \in DOMAIN q /\ q[n] = e
      BY <1>2 DEF ToSet
    <2>2. TAILQ_REMOVE(q, e) = r
      BY <1>2 DEF TAILQ_REMOVE
    <2> HIDE DEF n
    <2>3. q \in Seq(S) /\ DOMAIN q = 1..Len(q) /\ Len(q) \in Nat /\ n \in 1..Len(q)
      BY <2>1 DEF IsTailQ
    <2>4. /\ r \in Seq(S) /\ Len(r) = Len(q) - 1
          /\ \A k \in 1..(Len(q) - 1) : r[k] = IF k < n THEN q[k] ELSE q[k + 1]
      BY <2>3, RemoveAtProps
    <2> HIDE DEF r
    <2>5. DOMAIN r = 1..(Len(q) - 1)
      BY <2>4
    <2>6. ASSUME NEW i \in DOMAIN r
          PROVE  \E k \in DOMAIN q : k # n /\ r[i] = q[k] /\ k = IF i < n THEN i ELSE i + 1
      BY <2>3, <2>4, <2>5
    <2>7. \A i, j \in DOMAIN r : r[i] = r[j] => i = j
      <3> SUFFICES ASSUME NEW i \in DOMAIN r, NEW j \in DOMAIN r, r[i] = r[j] PROVE i = j
        OBVIOUS
      <3>1. PICK k \in DOMAIN q : k # n /\ r[i] = q[k] /\ k = IF i < n THEN i ELSE i + 1
        BY <2>6
      <3>2. PICK l \in DOMAIN q : l # n /\ r[j] = q[l] /\ l = IF j < n THEN j ELSE j + 1
        BY <2>6
      <3>3. k = l
        BY <3>1, <3>2 DEF IsTailQ
      <3> QED  BY <2>3, <2>5, <3>1, <3>2, <3>3
    <2>8. ToSet(r) \subseteq ToSet(q) \ {e}
      <3> SUFFICES ASSUME NEW i \in DOMAIN r PROVE r[i] \in ToSet(q) /\ r[i] # e
        BY DEF ToSet
      <3>1. PICK k \in DOMAIN q : k # n /\ r[i] = q[k]
        BY <2>6
      <3> QED  BY <2>1, <3>1 DEF ToSet, IsTailQ
    <2>9. ToSet(q) \ {e} \subseteq ToSet(r)
      <3> SUFFICES ASSUME NEW k \in DOMAIN q, q[k] # e PROVE q[k] \in ToSet(r)
        BY DEF ToSet
      <3>1. k # n
        BY <2>1
      <3>2. CASE k < n
        <4>1. k \in DOMAIN r /\ r[k] = q[k]
          BY <2>3, <2>4, <2>5, <3>2
        <4> QED  BY <4>1 DEF ToSet
      <3>3. CASE k > n
        <4>1. k - 1 \in 1..(Len(q) - 1) /\ ~(k - 1 < n) /\ (k - 1) + 1 = k
          BY <2>3, <3>3
        <4>2. k - 1 \in DOMAIN r /\ r[k - 1] = q[k]
          BY <2>4, <2>5, <4>1
        <4> QED  BY <4>2 DEF ToSet
      <3> QED  BY <2>3, <3>1, <3>2, <3>3
    <2> QED  BY <2>2, <2>4, <2>7, <2>8, <2>9 DEF IsTailQ
  <1> QED  BY <1>1, <1>2

\* Taking the first element of a queue removes just that element.
LEMMA TailProps ==
  ASSUME NEW S, NEW q, IsTailQ(q, S), q # <<>>
  PROVE  /\ Head(q) \in S /\ Head(q) \in ToSet(q)
         /\ IsTailQ(Tail(q), S)
         /\ ToSet(Tail(q)) = ToSet(q) \ {Head(q)}
  <1>1. /\ q \in Seq(S) /\ DOMAIN q = 1..Len(q) /\ Len(q) \in Nat /\ 1 \in DOMAIN q
        /\ Head(q) = q[1] /\ q[1] \in S
    BY DEF IsTailQ
  <1> DEFINE r == Tail(q)
  <1>2. /\ r \in Seq(S) /\ Len(r) = Len(q) - 1 /\ DOMAIN r = 1..(Len(q) - 1)
        /\ \A i \in 1..(Len(q) - 1) : r[i] = q[i + 1]
    BY <1>1
  <1> HIDE DEF r
  <1>3. \A i, j \in DOMAIN r : r[i] = r[j] => i = j
    <2> SUFFICES ASSUME NEW i \in DOMAIN r, NEW j \in DOMAIN r, r[i] = r[j] PROVE i = j
      OBVIOUS
    <2>1. i + 1 \in DOMAIN q /\ j + 1 \in DOMAIN q /\ r[i] = q[i + 1] /\ r[j] = q[j + 1]
      BY <1>1, <1>2
    <2>2. i + 1 = j + 1
      BY <2>1 DEF IsTailQ
    <2> QED  BY <1>2, <2>2
  <1>4. ToSet(r) \subseteq ToSet(q) \ {Head(q)}
    <2> SUFFICES ASSUME NEW i \in DOMAIN r PROVE r[i] \in ToSet(q) /\ r[i] # Head(q)
      BY DEF ToSet
    <2>1. i + 1 \in DOMAIN q /\ i + 1 # 1 /\ r[i] = q[i + 1]
      BY <1>1, <1>2
    <2> QED  BY <1>1, <2>1 DEF ToSet, IsTailQ
  <1>5. ToSet(q) \ {Head(q)} \subseteq ToSet(r)
    <2> SUFFICES ASSUME NEW k \in DOMAIN q, q[k] # Head(q) PROVE q[k] \in ToSet(r)
      BY DEF ToSet
    <2>1. k - 1 \in 1..(Len(q) - 1) /\ (k - 1) + 1 = k
      BY <1>1
    <2>2. k - 1 \in DOMAIN r /\ r[k - 1] = q[k]
      BY <1>2, <2>1
    <2> QED  BY <2>2 DEF ToSet
  <1>6. Head(q) \in ToSet(q)
    BY <1>1 DEF ToSet
  <1> QED  BY <1>1, <1>2, <1>3, <1>4, <1>5, <1>6 DEF IsTailQ, r

\* Putting an element that is not on the queue at its head adds just that element.
LEMMA InsertHeadProps ==
  ASSUME NEW S, NEW q, IsTailQ(q, S), NEW e \in S, e \notin ToSet(q)
  PROVE  /\ IsTailQ(TAILQ_INSERT_HEAD(q, e), S)
         /\ ToSet(TAILQ_INSERT_HEAD(q, e)) = ToSet(q) \cup {e}
  <1> DEFINE r == <<e>> \o q
  <1>1. /\ q \in Seq(S) /\ DOMAIN q = 1..Len(q) /\ Len(q) \in Nat
        /\ \A i \in DOMAIN q : q[i] # e
    BY DEF IsTailQ, ToSet
  <1>2. <<e>> \in Seq(S) /\ Len(<<e>>) = 1 /\ <<e>>[1] = e
    OBVIOUS
  <1>3. /\ r \in Seq(S) /\ Len(r) = Len(q) + 1 /\ DOMAIN r = 1..(Len(q) + 1)
        /\ r[1] = e /\ \A i \in DOMAIN q : r[i + 1] = q[i]
    BY <1>1, <1>2, ConcatProperties
  <1>4. TAILQ_INSERT_HEAD(q, e) = r
    BY DEF TAILQ_INSERT_HEAD
  <1> HIDE DEF r
  <1>5. ASSUME NEW i \in DOMAIN r, i # 1
        PROVE  i - 1 \in DOMAIN q /\ r[i] = q[i - 1]
    <2>1. i - 1 \in DOMAIN q /\ (i - 1) + 1 = i
      BY <1>1, <1>3, <1>5
    <2> QED  BY <1>3, <2>1
  <1>6. \A i, j \in DOMAIN r : r[i] = r[j] => i = j
    <2> SUFFICES ASSUME NEW i \in DOMAIN r, NEW j \in DOMAIN r, r[i] = r[j] PROVE i = j
      OBVIOUS
    <2>1. CASE i = 1 \/ j = 1
      BY <1>1, <1>3, <1>5, <2>1
    <2>2. CASE i # 1 /\ j # 1
      <3>1. i - 1 = j - 1
        BY <1>5, <2>2 DEF IsTailQ
      <3> QED  BY <1>3, <3>1
    <2> QED  BY <2>1, <2>2
  <1>7. ToSet(r) \subseteq ToSet(q) \cup {e}
    BY <1>3, <1>5 DEF ToSet
  <1>8. ToSet(q) \cup {e} \subseteq ToSet(r)
    <2>1. e \in ToSet(r)
      BY <1>1, <1>3 DEF ToSet
    <2>2. ASSUME NEW i \in DOMAIN q PROVE q[i] \in ToSet(r)
      <3>1. i + 1 \in DOMAIN r /\ r[i + 1] = q[i]
        BY <1>1, <1>3
      <3> QED  BY <3>1 DEF ToSet
    <2> QED  BY <2>1, <2>2 DEF ToSet
  <1> QED  BY <1>3, <1>4, <1>6, <1>7, <1>8 DEF IsTailQ
=============================================================================

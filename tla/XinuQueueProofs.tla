--------------------------- MODULE XinuQueueProofs ---------------------------
(***************************************************************************)
(* What the queue operations of XinuQueue do to the set of processes on a  *)
(* queue, for every queue and every assignment of keys.                    *)
(***************************************************************************)
EXTENDS XinuQueue, SequenceTheorems, WellFoundedInduction, TLAPS

(* A nonempty set of naturals has the least element Min names.             *)
LEMMA MinOfNaturals ==
  ASSUME NEW S \in SUBSET Nat, S # {}
  PROVE  Min(S) \in S /\ \A y \in S : Min(S) <= y
<1>1. \E x \in S : \A y \in S : ~(<<y, x>> \in OpToRel(<, Nat))
  BY NatLessThanWellFounded, WFMin
<1>2. PICK x \in S : \A y \in S : ~(<<y, x>> \in OpToRel(<, Nat))
  BY <1>1
<1>3. \A y \in S : ~(y < x)
  BY <1>2 DEF OpToRel
<1>4. \E z \in S : \A y \in S : z <= y
  BY <1>3
<1> QED
  BY <1>4 DEF Min

LEMMA LeastOfNaturals ==
  ASSUME NEW S \in SUBSET Nat, S # {}
  PROVE  \E k \in S : \A j \in S : k <= j
BY MinOfNaturals

(* insert puts the entry at a place of the queue or at its end.            *)
LEMMA PlaceInQueue ==
  ASSUME NEW T, NEW q \in Seq(T), NEW qkey, NEW k
  PROVE  insert_place(q, qkey, k) \in 1 .. Len(q) + 1
<1> DEFINE I == {i \in 1 .. Len(q) : qkey[q[i]] < k} \cup {Len(q) + 1}
<1>1. I \in SUBSET Nat /\ I # {} /\ I \subseteq 1 .. Len(q) + 1
  OBVIOUS
<1> QED
  BY <1>1, MinOfNaturals DEF insert_place

LEMMA DelayPlaceInQueue ==
  ASSUME NEW T, NEW q \in Seq(T), NEW qkey, NEW d
  PROVE  insertd_place(q, qkey, d) \in 1 .. Len(q) + 1
<1> DEFINE I == {i \in 1 .. Len(q) : delta_sum(q, qkey)[i] > d} \cup {Len(q) + 1}
<1>1. I \in SUBSET Nat /\ I # {} /\ I \subseteq 1 .. Len(q) + 1
  OBVIOUS
<1> QED
  BY <1>1, MinOfNaturals DEF insertd_place

(* Where the entries of a queue stand after one is put at place i.         *)
LEMMA InsertAtPlaces ==
  ASSUME NEW T, NEW q \in Seq(T), NEW p \in T, NEW i \in 1 .. Len(q) + 1
  PROVE  LET r == InsertAt(q, i, p) IN
         /\ r \in Seq(T) /\ Len(r) = Len(q) + 1 /\ DOMAIN r = 1 .. Len(q) + 1
         /\ \A j \in 1 .. Len(q) + 1 :
              r[j] = IF j < i THEN q[j] ELSE IF j = i THEN p ELSE q[j-1]
<1> DEFINE r == InsertAt(q, i, p)
<1> DEFINE a == SubSeq(q, 1, i-1)
           b == SubSeq(q, i, Len(q))
<1>a. /\ a \in Seq(T) /\ Len(a) = i - 1
      /\ \A j \in 1 .. i-1 : a[j] = q[j]
  BY SubSeqProperties
<1>b. /\ b \in Seq(T) /\ Len(b) = Len(q) - i + 1
      /\ \A j \in 1 .. Len(q) - i + 1 : b[j] = q[i + j - 1]
  BY SubSeqProperties
<1>c. r = a \o <<p>> \o b
  BY DEF InsertAt
<1> HIDE DEF r, a, b
<1> DEFINE c == a \o <<p>>
<1>d. /\ c \in Seq(T) /\ Len(c) = i
      /\ \A j \in 1 .. i : c[j] = IF j < i THEN q[j] ELSE p
  BY <1>a, ConcatProperties
<1>e. r = c \o b
  BY <1>c
<1> HIDE DEF c
<1>f. /\ r \in Seq(T) /\ Len(r) = Len(q) + 1
      /\ \A j \in 1 .. Len(q) + 1 : r[j] = IF j <= i THEN c[j] ELSE b[j-i]
  <2>1. /\ r \in Seq(T) /\ Len(r) = Len(c) + Len(b)
        /\ \A j \in 1 .. Len(c) + Len(b) :
             r[j] = IF j <= Len(c) THEN c[j] ELSE b[j - Len(c)]
    BY <1>b, <1>d, <1>e, ConcatProperties
  <2>2. Len(c) + Len(b) = Len(q) + 1 /\ Len(c) = i
    BY <1>b, <1>d
  <2> QED
    BY <2>1, <2>2
<1>1. r \in Seq(T) /\ Len(r) = Len(q) + 1 /\ DOMAIN r = 1 .. Len(q) + 1
  BY <1>f, LenProperties
<1>2. ASSUME NEW j \in 1 .. Len(q) + 1
      PROVE  r[j] = IF j < i THEN q[j] ELSE IF j = i THEN p ELSE q[j-1]
  <2>1. CASE j <= i
    BY <2>1, <1>d, <1>f
  <2>2. CASE j > i
    <3>1. j - i \in 1 .. Len(q) - i + 1 /\ i + (j-i) - 1 = j - 1
      BY <2>2
    <3>2. b[j-i] = q[i + (j-i) - 1]
      BY <3>1, <1>b
    <3>3. r[j] = b[j-i]
      BY <2>2, <1>f
    <3> QED
      BY <2>2, <3>1, <3>2, <3>3
  <2> QED
    BY <2>1, <2>2
<1> QED
  BY <1>1, <1>2 DEF r

(* An entry put at any place of a queue it is not on joins the others.     *)
LEMMA InsertAtJoins ==
  ASSUME NEW T, NEW q \in Seq(T), IsInjective(q),
         NEW p \in T, p \notin ToSet(q), NEW i \in 1 .. Len(q) + 1
  PROVE  /\ InsertAt(q, i, p) \in Seq(T)
         /\ IsInjective(InsertAt(q, i, p))
         /\ ToSet(InsertAt(q, i, p)) = ToSet(q) \cup {p}
         /\ InsertAt(q, i, p) # << >>
<1> DEFINE r == InsertAt(q, i, p)
<1>1. r \in Seq(T) /\ Len(r) = Len(q) + 1 /\ DOMAIN r = 1 .. Len(q) + 1
  BY InsertAtPlaces
<1>2. ASSUME NEW j \in 1 .. Len(q) + 1
      PROVE  r[j] = IF j < i THEN q[j] ELSE IF j = i THEN p ELSE q[j-1]
  BY InsertAtPlaces
<1> HIDE DEF r
<1>3. /\ \A j \in 1 .. Len(q) : q[j] # p
      /\ \A j, k \in 1 .. Len(q) : q[j] = q[k] => j = k
  BY DEF ToSet, IsInjective
<1>4. IsInjective(r)
  <2> SUFFICES ASSUME NEW j \in 1 .. Len(q) + 1, NEW k \in 1 .. Len(q) + 1,
                      r[j] = r[k]
               PROVE  j = k
    BY <1>1 DEF IsInjective
  <2>1. j = i => k = i
    BY <1>2, <1>3
  <2>2. k = i => j = i
    BY <1>2, <1>3
  <2>3. CASE j # i /\ k # i
    <3> DEFINE x == IF j < i THEN j ELSE j - 1
               y == IF k < i THEN k ELSE k - 1
    <3>1. x \in 1 .. Len(q) /\ y \in 1 .. Len(q) /\ r[j] = q[x] /\ r[k] = q[y]
      BY <2>3, <1>2
    <3>2. x = y
      BY <3>1, <1>3
    <3> QED
      BY <3>2, <2>3
  <2> QED
    BY <2>1, <2>2, <2>3
<1>5. ToSet(r) \subseteq ToSet(q) \cup {p}
  BY <1>1, <1>2 DEF ToSet
<1>6. ASSUME NEW j \in 1 .. Len(q)  PROVE q[j] \in ToSet(r)
  <2>1. CASE j < i
    BY <2>1, <1>1, <1>2 DEF ToSet
  <2>2. CASE j >= i
    <3>1. j + 1 \in 1 .. Len(r) /\ r[j+1] = q[j]
      BY <2>2, <1>1, <1>2
    <3> QED
      BY <3>1, <1>1 DEF ToSet
  <2> QED
    BY <2>1, <2>2
<1>7. p \in ToSet(r)
  BY <1>1, <1>2 DEF ToSet
<1>8. ToSet(q) \subseteq ToSet(r)
  BY <1>6 DEF ToSet
<1> QED
  BY <1>1, <1>4, <1>5, <1>7, <1>8 DEF r

(* Where the entries of a queue stand when getitem has taken one.          *)
LEMMA GetitemPlaces ==
  ASSUME NEW T, NEW q \in Seq(T), NEW p \in ToSet(q)
  PROVE  LET r == getitem(q, p) IN
         \E i \in 1 .. Len(q) :
           /\ q[i] = p /\ r \in Seq(T) /\ Len(r) = Len(q) - 1
           /\ DOMAIN r = 1 .. Len(q) - 1
           /\ \A j \in 1 .. Len(q) - 1 : r[j] = IF j < i THEN q[j] ELSE q[j+1]
<1> DEFINE i == CHOOSE j \in 1 .. Len(q) : q[j] = p
<1>1. i \in 1 .. Len(q) /\ q[i] = p
  BY DEF ToSet
<1> HIDE DEF i
<1> DEFINE r == RemoveAt(q, i)
           a == SubSeq(q, 1, i-1)
           b == SubSeq(q, i+1, Len(q))
<1>a. /\ a \in Seq(T) /\ Len(a) = i - 1
      /\ \A j \in 1 .. i-1 : a[j] = q[j]
  BY <1>1, SubSeqProperties
<1>b. /\ b \in Seq(T) /\ Len(b) = Len(q) - i
      /\ \A j \in 1 .. Len(q) - i : b[j] = q[i + j]
  BY <1>1, SubSeqProperties
<1>c. r = a \o b
  BY DEF RemoveAt
<1> HIDE DEF r, a, b
<1>d. /\ r \in Seq(T) /\ Len(r) = Len(q) - 1
      /\ \A j \in 1 .. Len(q) - 1 : r[j] = IF j < i THEN a[j] ELSE b[j - (i-1)]
  <2>1. Len(a) + Len(b) = Len(q) - 1
    BY <1>1, <1>a, <1>b
  <2>2. /\ r \in Seq(T) /\ Len(r) = Len(q) - 1
        /\ \A j \in 1 .. Len(q) - 1 :
             r[j] = IF j <= Len(a) THEN a[j] ELSE b[j - Len(a)]
    BY <2>1, <1>a, <1>b, <1>c, ConcatProperties
  <2>3. \A j \in 1 .. Len(q) - 1 : j <= Len(a) <=> j < i
    BY <1>1, <1>a
  <2> QED
    BY <2>2, <2>3, <1>a
<1>2. r \in Seq(T) /\ Len(r) = Len(q) - 1 /\ DOMAIN r = 1 .. Len(q) - 1
  BY <1>d, LenProperties
<1>3. ASSUME NEW j \in 1 .. Len(q) - 1
      PROVE  r[j] = IF j < i THEN q[j] ELSE q[j+1]
  <2>1. CASE j < i
    BY <2>1, <1>1, <1>a, <1>d
  <2>2. CASE j >= i
    <3>1. j - (i-1) \in 1 .. Len(q) - i /\ i + (j - (i-1)) = j + 1
      BY <2>2, <1>1
    <3>2. b[j - (i-1)] = q[i + (j - (i-1))]
      BY <3>1, <1>b
    <3>3. r[j] = b[j - (i-1)]
      BY <2>2, <1>1, <1>d
    <3> QED
      BY <2>2, <3>1, <3>2, <3>3, <1>1
  <2> QED
    BY <2>1, <2>2, <1>1
<1>4. getitem(q, p) = r
  BY DEF getitem, r, i
<1> QED
  BY <1>1, <1>2, <1>3, <1>4

(* getitem takes exactly one entry off the queue it is on.                 *)
LEMMA GetitemLeaves ==
  ASSUME NEW T, NEW q \in Seq(T), IsInjective(q), NEW p \in ToSet(q)
  PROVE  /\ getitem(q, p) \in Seq(T)
         /\ IsInjective(getitem(q, p))
         /\ ToSet(getitem(q, p)) = ToSet(q) \ {p}
         /\ Len(getitem(q, p)) = Len(q) - 1
<1> DEFINE r == getitem(q, p)
<1>1. PICK i \in 1 .. Len(q) :
        /\ q[i] = p /\ r \in Seq(T) /\ Len(r) = Len(q) - 1
        /\ DOMAIN r = 1 .. Len(q) - 1
        /\ \A j \in 1 .. Len(q) - 1 : r[j] = IF j < i THEN q[j] ELSE q[j+1]
  BY GetitemPlaces
<1> HIDE DEF r
<1>2. r \in Seq(T) /\ Len(r) = Len(q) - 1 /\ DOMAIN r = 1 .. Len(q) - 1
  BY <1>1
<1>3. ASSUME NEW j \in 1 .. Len(q) - 1
      PROVE  r[j] = IF j < i THEN q[j] ELSE q[j+1]
  BY <1>1
<1>e. \A j, k \in 1 .. Len(q) : q[j] = q[k] => j = k
  BY DEF IsInjective
<1>f. ASSUME NEW j \in 1 .. Len(q) - 1
      PROVE  \E x \in 1 .. Len(q) : /\ x = (IF j < i THEN j ELSE j + 1)
                                    /\ x # i /\ r[j] = q[x]
  BY <1>1, <1>3
<1>4. IsInjective(r)
  <2> SUFFICES ASSUME NEW j \in 1 .. Len(q) - 1, NEW k \in 1 .. Len(q) - 1,
                      r[j] = r[k]
               PROVE  j = k
    BY <1>2 DEF IsInjective
  <2>1. PICK x \in 1 .. Len(q) :
          x = (IF j < i THEN j ELSE j + 1) /\ x # i /\ r[j] = q[x]
    BY <1>f
  <2>2. PICK y \in 1 .. Len(q) :
          y = (IF k < i THEN k ELSE k + 1) /\ y # i /\ r[k] = q[y]
    BY <1>f
  <2>3. x = y
    BY <2>1, <2>2, <1>e
  <2> QED
    BY <2>1, <2>2, <2>3, <1>1
<1>5. ToSet(r) \subseteq ToSet(q) \ {p}
  <2>1. ASSUME NEW j \in 1 .. Len(q) - 1  PROVE r[j] \in ToSet(q) /\ r[j] # p
    <3>1. PICK x \in 1 .. Len(q) : x # i /\ r[j] = q[x]
      BY <1>f
    <3>2. q[x] # p
      BY <1>1, <1>e, <3>1
    <3> QED
      BY <3>1, <3>2 DEF ToSet
  <2> QED
    BY <2>1, <1>2 DEF ToSet
<1>6. ASSUME NEW j \in 1 .. Len(q), q[j] # p  PROVE q[j] \in ToSet(r)
  <2>1. CASE j < i
    <3>1. j \in 1 .. Len(q) - 1 /\ r[j] = q[j]
      BY <2>1, <1>1, <1>3
    <3> QED
      BY <3>1, <1>2 DEF ToSet
  <2>2. CASE j > i
    <3>1. j - 1 \in 1 .. Len(r) /\ r[j-1] = q[j]
      BY <2>2, <1>1, <1>2, <1>3
    <3> QED
      BY <3>1, <1>2 DEF ToSet
  <2> QED
    BY <2>1, <2>2, <1>1, <1>6
<1>7. ToSet(q) \ {p} \subseteq ToSet(r)
  BY <1>6 DEF ToSet
<1> QED
  BY <1>2, <1>4, <1>5, <1>7 DEF r

(* dequeue takes the first entry.                                          *)
LEMMA TailLeaves ==
  ASSUME NEW T, NEW q \in Seq(T), IsInjective(q), q # << >>
  PROVE  /\ Head(q) \in ToSet(q) /\ Head(q) \in T
         /\ Tail(q) \in Seq(T)
         /\ IsInjective(Tail(q))
         /\ ToSet(Tail(q)) = ToSet(q) \ {Head(q)}
<1> DEFINE r == Tail(q)
<1>1. Len(q) >= 1 /\ Head(q) = q[1] /\ Head(q) \in T
  OBVIOUS
<1>2. /\ r \in Seq(T) /\ Len(r) = Len(q) - 1 /\ DOMAIN r = 1 .. Len(q) - 1
      /\ \A j \in 1 .. Len(q) - 1 : j + 1 \in 1 .. Len(q) /\ r[j] = q[j+1]
  BY <1>1, HeadTailProperties, LenProperties
<1> HIDE DEF r
<1>a. \A j, k \in 1 .. Len(q) : q[j] = q[k] => j = k
  BY DEF IsInjective
<1>3. IsInjective(r)
  <2> SUFFICES ASSUME NEW j \in 1 .. Len(q) - 1, NEW k \in 1 .. Len(q) - 1,
                      r[j] = r[k]
               PROVE  j = k
    BY <1>2 DEF IsInjective
  <2>1. j + 1 = k + 1
    BY <1>2, <1>a
  <2> QED
    BY <2>1
<1>4. ToSet(r) \subseteq ToSet(q) \ {Head(q)}
  <2>1. ASSUME NEW j \in 1 .. Len(q) - 1
        PROVE  r[j] \in ToSet(q) /\ r[j] # Head(q)
    BY <1>1, <1>2, <1>a DEF ToSet
  <2> QED
    BY <2>1, <1>2 DEF ToSet
<1>5. ASSUME NEW j \in 1 .. Len(q), q[j] # Head(q)  PROVE q[j] \in ToSet(r)
  <2>1. j - 1 \in 1 .. Len(r) /\ r[j-1] = q[j]
    BY <1>5, <1>1, <1>2
  <2> QED
    BY <2>1, <1>2 DEF ToSet
<1>6. ToSet(q) \ {Head(q)} \subseteq ToSet(r)
  BY <1>5 DEF ToSet
<1>7. Head(q) \in ToSet(q)
  BY <1>1 DEF ToSet
<1> QED
  BY <1>1, <1>2, <1>3, <1>4, <1>6, <1>7 DEF r

(* enqueue puts an entry behind the others.                                *)
LEMMA AppendJoins ==
  ASSUME NEW T, NEW q \in Seq(T), IsInjective(q), NEW p \in T, p \notin ToSet(q)
  PROVE  /\ Append(q, p) \in Seq(T)
         /\ IsInjective(Append(q, p))
         /\ ToSet(Append(q, p)) = ToSet(q) \cup {p}
<1> DEFINE r == Append(q, p)
<1>1. /\ r \in Seq(T) /\ Len(r) = Len(q) + 1 /\ r[Len(q) + 1] = p
      /\ \A j \in 1 .. Len(q) : r[j] = q[j]
  OBVIOUS
<1> HIDE DEF r
<1>2. IsInjective(r)
  BY <1>1 DEF IsInjective, ToSet
<1>3. ToSet(r) \subseteq ToSet(q) \cup {p}
  BY <1>1 DEF ToSet
<1>4. ToSet(q) \cup {p} \subseteq ToSet(r)
  BY <1>1 DEF ToSet
<1> QED
  BY <1>1, <1>2, <1>3, <1>4 DEF r

-----------------------------------------------------------------------------
(* Queues in descending order of f, which insert and unlinking keep.       *)
Descending(q, f) == \A i, j \in 1 .. Len(q) : i < j => f[q[j]] <= f[q[i]]

LEMMA InsertDescends ==
  ASSUME NEW T, NEW f \in [T -> Nat], NEW q \in Seq(T), Descending(q, f),
         NEW key, \A i \in 1 .. Len(q) : key[q[i]] = f[q[i]], NEW p \in T
  PROVE  Descending(insert(q, key, p, f[p]), f)
<1> DEFINE I  == {i \in 1 .. Len(q) : key[q[i]] < f[p]} \cup {Len(q) + 1}
           at == insert_place(q, key, f[p])
           r  == insert(q, key, p, f[p])
<1>1. f[p] \in Nat /\ \A i \in 1 .. Len(q) : f[q[i]] \in Nat
  OBVIOUS
<1>2. at \in I /\ \A i \in I : at <= i
  <2>1. I \in SUBSET Nat /\ I # {}
    OBVIOUS
  <2> QED
    BY <2>1, MinOfNaturals DEF insert_place
<1> HIDE DEF at
<1>3. at \in 1 .. Len(q) + 1 /\ \A i \in 1 .. Len(q) : i < at => f[p] <= f[q[i]]
  BY <1>1, <1>2
<1>4. \A i \in 1 .. Len(q) : i >= at => f[q[i]] <= f[p]
  <2> SUFFICES ASSUME NEW i \in 1 .. Len(q), i >= at PROVE f[q[i]] <= f[p]
    OBVIOUS
  <2>1. at \in 1 .. Len(q) /\ f[q[at]] < f[p]
    BY <1>2, <1>3
  <2>2. f[q[i]] <= f[q[at]]
    BY <1>1, <1>3, <2>1 DEF Descending
  <2> QED
    BY <1>1, <2>1, <2>2
<1>5. /\ Len(r) = Len(q) + 1
      /\ \A j \in 1 .. Len(q) + 1 :
           r[j] = IF j < at THEN q[j] ELSE IF j = at THEN p ELSE q[j-1]
  <2>1. r = InsertAt(q, at, p)
    BY DEF insert, at
  <2> HIDE DEF I, r
  <2>2. PICK x, i : x = InsertAt(q, i, p) /\ i = at /\ i \in 1 .. Len(q) + 1
    BY <1>3
  <2>3. /\ Len(x) = Len(q) + 1
        /\ \A j \in 1 .. Len(q) + 1 :
             x[j] = IF j < i THEN q[j] ELSE IF j = i THEN p ELSE q[j-1]
    <3>1. i \in 1 .. Len(q) + 1 /\ q \in Seq(T) /\ p \in T
      BY <2>2
    <3>2. LET y == InsertAt(q, i, p) IN
          /\ Len(y) = Len(q) + 1
          /\ \A j \in 1 .. Len(q) + 1 :
               y[j] = IF j < i THEN q[j] ELSE IF j = i THEN p ELSE q[j-1]
      <4> USE ONLY <3>1
      <4>1. Len(InsertAt(q, i, p)) = Len(q) + 1
        BY InsertAtPlaces, SMTT(30)
      <4>2. ASSUME NEW j \in 1 .. Len(q) + 1
            PROVE  InsertAt(q, i, p)[j] =
                     IF j < i THEN q[j] ELSE IF j = i THEN p ELSE q[j-1]
        BY InsertAtPlaces, SMTT(30)
      <4> QED
        BY <4>1, <4>2
    <3> QED
      BY <2>2, <3>2
  <2> QED
    BY <2>1, <2>2, <2>3
<1> HIDE DEF I, r
<1> SUFFICES ASSUME NEW i \in 1 .. Len(q) + 1, NEW j \in 1 .. Len(q) + 1, i < j
             PROVE  f[r[j]] <= f[r[i]]
  BY <1>5 DEF Descending, r
<1>6. CASE i < at /\ j < at
  <2>1. r[i] = q[i] /\ r[j] = q[j] /\ i \in 1 .. Len(q) /\ j \in 1 .. Len(q)
    BY <1>3, <1>5, <1>6
  <2> QED
    BY <2>1 DEF Descending
<1>7. CASE i < at /\ j = at
  <2>1. r[i] = q[i] /\ r[j] = p /\ i \in 1 .. Len(q)
    BY <1>3, <1>5, <1>7
  <2> QED
    BY <1>3, <1>7, <2>1
<1>8. CASE i < at /\ j > at
  <2>1. i \in 1 .. Len(q) /\ j - 1 \in 1 .. Len(q) /\ j - 1 >= at
    BY <1>3, <1>8
  <2>2. r[i] = q[i] /\ r[j] = q[j-1]
    BY <1>3, <1>5, <1>8
  <2>3. f[p] <= f[q[i]] /\ f[q[j-1]] <= f[p]
    BY <1>3, <1>4, <1>8, <2>1
  <2>4. f[q[i]] \in Nat /\ f[q[j-1]] \in Nat
    BY <1>1, <2>1
  <2> QED
    BY <1>1, <2>2, <2>3, <2>4
<1>9. CASE i = at
  <2>1. r[i] = p /\ r[j] = q[j-1] /\ j - 1 >= at /\ j - 1 \in 1 .. Len(q)
    BY <1>3, <1>5, <1>9
  <2> QED
    BY <1>4, <2>1
<1>10. CASE i > at
  <2>1. /\ r[i] = q[i-1] /\ r[j] = q[j-1] /\ i - 1 < j - 1
        /\ i - 1 \in 1 .. Len(q) /\ j - 1 \in 1 .. Len(q)
    BY <1>3, <1>5, <1>10
  <2> QED
    BY <2>1 DEF Descending
<1> QED
  BY <1>3, <1>6, <1>7, <1>8, <1>9, <1>10

LEMMA TailDescends ==
  ASSUME NEW T, NEW f, NEW q \in Seq(T), q # << >>, Descending(q, f)
  PROVE  Descending(Tail(q), f)
<1> DEFINE r == Tail(q)
<1>1. /\ Len(r) = Len(q) - 1
      /\ \A j \in 1 .. Len(q) - 1 : j + 1 \in 1 .. Len(q) /\ r[j] = q[j+1]
  BY HeadTailProperties
<1> HIDE DEF r
<1>2. Descending(r, f)
  BY <1>1 DEF Descending
<1> QED
  BY <1>2 DEF r

LEMMA GetitemDescends ==
  ASSUME NEW T, NEW f, NEW q \in Seq(T), NEW p \in ToSet(q), Descending(q, f)
  PROVE  Descending(getitem(q, p), f)
<1> DEFINE r == getitem(q, p)
<1>1. PICK i \in 1 .. Len(q) :
        /\ Len(r) = Len(q) - 1
        /\ \A j \in 1 .. Len(q) - 1 : r[j] = IF j < i THEN q[j] ELSE q[j+1]
  BY GetitemPlaces
<1> HIDE DEF r
<1> DEFINE at(j) == IF j < i THEN j ELSE j + 1
<1>2. \A j \in 1 .. Len(q) - 1 : at(j) \in 1 .. Len(q) /\ r[j] = q[at(j)]
  BY <1>1
<1>3. \A j, k \in 1 .. Len(q) - 1 : j < k => at(j) < at(k)
  OBVIOUS
<1> HIDE DEF at
<1>4. ASSUME NEW j \in 1 .. Len(r), NEW k \in 1 .. Len(r), j < k
      PROVE  f[r[k]] <= f[r[j]]
  <2>1. at(j) \in 1 .. Len(q) /\ at(k) \in 1 .. Len(q) /\ at(j) < at(k)
    BY <1>1, <1>2, <1>3, <1>4
  <2>2. f[q[at(k)]] <= f[q[at(j)]]
    BY <2>1 DEF Descending
  <2> QED
    BY <1>1, <1>2, <2>2
<1> QED
  BY <1>4 DEF r, Descending
=============================================================================

--------------------------- MODULE XinuDeviceProofs ---------------------------
(***************************************************************************)
(* What is proved of the tty and the Ethernet drivers, for rings of every  *)
(* size, any number of readers and writers, and every text.                *)
(***************************************************************************)
EXTENDS XinuTty, XinuEth, XinuServiceProofs

-----------------------------------------------------------------------------
(***************************************************************************)
(* Rings: a text that is held in a circle of cells, from a head on.        *)
(***************************************************************************)

(* A place once around.                                                    *)
LEMMA OnceAround ==
  ASSUME NEW N \in Nat \ {0}, NEW x \in N .. 2 * N - 1
  PROVE  x % N = x - N
OBVIOUS

(* The place j further on in a ring.                                       *)
LEMMA RingPlace ==
  ASSUME NEW N \in Nat \ {0}, NEW h \in 0 .. N - 1, NEW j \in 0 .. N
  PROVE  (h + j) % N = (IF h + j < N THEN h + j ELSE h + j - N) /\ (h + j) % N \in 0 .. N - 1
<1>1. CASE h + j < N
  <2>1. h + j \in 0 .. N - 1
    BY <1>1
  <2>2. PICK a : a = h + j /\ a \in 0 .. N - 1
    BY <2>1
  <2>3. a % N = a
    BY <2>2
  <2> QED
    BY <2>2, <2>3
<1>2. CASE h + j >= N
  <2>1. PICK a : a = h + j /\ a \in N .. 2 * N - 1
    BY <1>2
  <2>2. a % N = a - N
    BY <2>1
  <2> QED
    BY <2>1, <2>2
<1> QED
  BY <1>1, <1>2

(* A ring of N cells of buff holds the text.                               *)
IsRing(buff, head, tail, text, N) ==
  /\ head \in 0 .. N - 1 /\ Len(text) <= N
  /\ tail = (head + Len(text)) % N
  /\ \A k \in 1 .. Len(text) : buff[(head + k - 1) % N] = text[k]

(* A ring that is empty.                                                   *)
LEMMA RingEmpty ==
  ASSUME NEW N \in Nat \ {0}, NEW buff
  PROVE  IsRing(buff, 0, 0, << >>, N)
<1>1. 0 % N = 0
  OBVIOUS
<1>2. Len(<< >>) = 0
  OBVIOUS
<1> QED
  BY <1>1, <1>2 DEF IsRing

(* A character is stored behind the last.                                  *)
LEMMA RingStored ==
  ASSUME NEW C, NEW N \in Nat \ {0}, NEW D, 0 .. N - 1 \subseteq D, NEW buff \in [D -> C],
         NEW head, NEW tail, NEW text \in Seq(C), IsRing(buff, head, tail, text, N),
         Len(text) < N, NEW c \in C
  PROVE  /\ tail \in 0 .. N - 1
         /\ IsRing([buff EXCEPT ![tail] = c], head, wrapped(tail + 1, N), Append(text, c), N)
<1>1. PICK l, t : l = Len(text) /\ t = Append(text, c)
  OBVIOUS
<1>2. /\ l \in Nat /\ l < N /\ Len(t) = l + 1 /\ t[l + 1] = c
      /\ \A k \in 1 .. l : t[k] = text[k]
  BY <1>1, AppendProperties
<1>3. head \in 0 .. N - 1 /\ tail = (head + l) % N /\ \A k \in 1 .. l : buff[(head + k - 1) % N] = text[k]
  BY <1>1 DEF IsRing
<1>4. ASSUME NEW j \in 0 .. N
      PROVE  (head + j) % N = (IF head + j < N THEN head + j ELSE head + j - N) /\ (head + j) % N \in 0 .. N - 1
  BY <1>3, RingPlace
<1>5. tail = (IF head + l < N THEN head + l ELSE head + l - N) /\ tail \in 0 .. N - 1
  <2>1. l \in 0 .. N
    BY <1>2
  <2> QED
    BY <1>3, <1>4, <2>1
<1>6. wrapped(tail + 1, N) = (head + (l + 1)) % N
  <2>1. l + 1 \in 0 .. N
    BY <1>2
  <2>2. (head + (l + 1)) % N = IF head + (l + 1) < N THEN head + (l + 1) ELSE head + (l + 1) - N
    BY <1>4, <2>1
  <2>3. head \in Nat /\ head < N
    BY <1>3
  <2> QED
    BY <1>2, <1>5, <2>2, <2>3 DEF wrapped
<1>7. ASSUME NEW k \in 1 .. l + 1 PROVE [buff EXCEPT ![tail] = c][(head + k - 1) % N] = t[k]
  <2>1. k - 1 \in 0 .. N /\ head + (k - 1) = head + k - 1
    BY <1>2, <1>3
  <2>2. PICK a : a = (head + k - 1) % N
    OBVIOUS
  <2>3. a = (IF head + (k - 1) < N THEN head + (k - 1) ELSE head + (k - 1) - N) /\ a \in 0 .. N - 1
    BY <1>4, <2>1, <2>2
  <2>4. CASE k = l + 1
    <3>0. k - 1 = l
      BY <1>2, <2>4
    <3>1. a = tail
      BY <1>5, <2>3, <3>0
    <3>2. tail \in D
      BY <1>5
    <3> QED
      BY <1>2, <2>2, <2>4, <3>1, <3>2
  <2>5. CASE k \in 1 .. l
    <3>1. a # tail
      BY <1>2, <1>3, <1>5, <2>3, <2>5
    <3>2. [buff EXCEPT ![tail] = c][a] = buff[a]
      BY <2>3, <3>1
    <3>3. buff[a] = text[k]
      BY <1>3, <2>2, <2>5
    <3> QED
      BY <1>2, <2>2, <2>5, <3>2, <3>3
  <2> QED
    BY <1>2, <2>4, <2>5
<1>8. (head + (l + 1)) % N = (head + Len(t)) % N /\ Len(t) <= N /\ 1 .. Len(t) = 1 .. l + 1
  BY <1>2
<1>9. IsRing([buff EXCEPT ![tail] = c], head, wrapped(tail + 1, N), t, N)
  <2>1. \A k \in 1 .. Len(t) : [buff EXCEPT ![tail] = c][(head + k - 1) % N] = t[k]
    BY <1>7, <1>8
  <2> QED
    BY <1>3, <1>6, <1>8, <2>1 DEF IsRing
<1> QED
  BY <1>1, <1>5, <1>9

(* The first character is taken, and its cell cleared.                     *)
LEMMA RingTaken ==
  ASSUME NEW C, NEW N \in Nat \ {0}, NEW D, 0 .. N - 1 \subseteq D, NEW buff \in [D -> C],
         NEW head, NEW tail, NEW text \in Seq(C), IsRing(buff, head, tail, text, N),
         text # << >>, NEW c \in C
  PROVE  IsRing([buff EXCEPT ![head] = c], wrapped(head + 1, N), tail, Tail(text), N)
<1>1. PICK l, t, h : l = Len(text) /\ t = Tail(text) /\ h = wrapped(head + 1, N)
  OBVIOUS
<1>2. l \in Nat \ {0} /\ l <= N /\ Len(t) = l - 1 /\ \A k \in 1 .. l - 1 : t[k] = text[k + 1]
  BY <1>1, HeadTailProperties DEF IsRing
<1>3. head \in 0 .. N - 1 /\ tail = (head + l) % N /\ \A k \in 1 .. l : buff[(head + k - 1) % N] = text[k]
  BY <1>1 DEF IsRing
<1>4. h \in 0 .. N - 1 /\ h = IF head + 1 < N THEN head + 1 ELSE head + 1 - N
  BY <1>1, <1>3 DEF wrapped
<1>5. ASSUME NEW j \in 1 .. N PROVE (h + (j - 1)) % N = (head + j) % N /\ (j < N => (head + j) % N # head)
  <2>1. PICK a, b : a = (head + j) % N /\ b = (h + (j - 1)) % N
    OBVIOUS
  <2>2. a = IF head + j < N THEN head + j ELSE head + j - N
    <3>1. j \in 0 .. N
      OBVIOUS
    <3> QED
      BY <1>3, <2>1, <3>1, RingPlace
  <2>3. j - 1 \in 0 .. N
    OBVIOUS
  <2>4. b = IF h + (j - 1) < N THEN h + (j - 1) ELSE h + (j - 1) - N
    BY <1>4, <2>1, <2>3, RingPlace
  <2>5. a = b /\ (j < N => a # head)
    BY <1>3, <1>4, <2>2, <2>4
  <2> QED
    BY <2>1, <2>5
<1>6. tail = (h + Len(t)) % N
  BY <1>2, <1>3, <1>5
<1>7. ASSUME NEW k \in 1 .. l - 1 PROVE [buff EXCEPT ![head] = c][(h + k - 1) % N] = t[k]
  <2>1. k \in 1 .. N /\ k < N /\ h + k - 1 = h + (k - 1) /\ k + 1 \in 1 .. l /\ head + (k + 1) - 1 = head + k /\ k \in 0 .. N
    BY <1>2, <1>3, <1>4
  <2>2. PICK a : a = (h + k - 1) % N
    OBVIOUS
  <2>3. a = (head + k) % N /\ a # head
    BY <1>5, <2>1, <2>2
  <2>4. buff[a] = text[k + 1]
    BY <1>3, <2>1, <2>3
  <2>5. a \in 0 .. N - 1
    BY <1>3, <2>1, <2>3, RingPlace
  <2> QED
    BY <1>2, <2>2, <2>3, <2>4, <2>5
<1>8. IsRing([buff EXCEPT ![head] = c], h, tail, t, N)
  <2>1. Len(t) <= N /\ 1 .. Len(t) = 1 .. l - 1
    BY <1>2
  <2>2. \A k \in 1 .. Len(t) : [buff EXCEPT ![head] = c][(h + k - 1) % N] = t[k]
    BY <1>7, <2>1
  <2> QED
    BY <1>4, <1>6, <2>1, <2>2 DEF IsRing
<1> QED
  BY <1>1, <1>8

(* A ring from which the first n are sent, their cells cleared.            *)
LEMMA RingSent ==
  ASSUME NEW C, NEW N \in Nat \ {0}, NEW buff \in [0 .. N - 1 -> C], NEW other \in [0 .. N - 1 -> C],
         NEW head, NEW tail, NEW text \in Seq(C), IsRing(buff, head, tail, text, N),
         NEW n \in 0 .. Len(text),
         \A c \in 0 .. N - 1 : (c - head + N) % N >= n => other[c] = buff[c]
  PROVE  IsRing(other, (head + n) % N, tail, SubSeq(text, n + 1, Len(text)), N)
<1>1. PICK l, t, h : l = Len(text) /\ t = SubSeq(text, n + 1, Len(text)) /\ h = (head + n) % N
  OBVIOUS
<1>2. l \in Nat /\ l <= N /\ n \in 0 .. l /\ Len(t) = l - n /\ \A k \in 1 .. l - n : t[k] = text[n + k]
  <2>1. l \in Nat /\ l <= N /\ n \in 0 .. l
    BY <1>1 DEF IsRing
  <2>2. PICK f : f = n + 1 /\ f \in 1 .. Len(text) + 1
    BY <1>1, <2>1
  <2>3. t = SubSeq(text, f, Len(text))
    BY <1>1, <2>2
  <2>4. /\ Len(t) = IF f <= Len(text) THEN Len(text) - f + 1 ELSE 0
        /\ \A k \in 1 .. Len(text) - f + 1 : t[k] = text[f + k - 1]
    BY <2>2, <2>3, SubSeqProperties
  <2>5. Len(text) - f + 1 = l - n /\ (f <= Len(text) <=> n < l)
    BY <1>1, <2>1, <2>2
  <2>6. \A k \in 1 .. l - n : f + k - 1 = n + k
    BY <2>1, <2>2
  <2>7. Len(t) = l - n
    BY <2>1, <2>4, <2>5
  <2>8. \A k \in 1 .. l - n : t[k] = text[n + k]
    BY <2>4, <2>5, <2>6
  <2> QED
    BY <2>1, <2>7, <2>8
<1>3. head \in 0 .. N - 1 /\ tail = (head + l) % N /\ \A k \in 1 .. l : buff[(head + k - 1) % N] = text[k]
  BY <1>1 DEF IsRing
<1>4. h = (IF head + n < N THEN head + n ELSE head + n - N) /\ h \in 0 .. N - 1
  <2>1. n \in 0 .. N
    BY <1>2
  <2> QED
    BY <1>1, <1>3, <2>1, RingPlace
<1>5. ASSUME NEW j \in 0 .. N - n PROVE (h + j) % N = (head + (n + j)) % N
  <2>1. n + j \in 0 .. N /\ j \in 0 .. N
    BY <1>2
  <2>2. PICK a, b : a = (h + j) % N /\ b = (head + (n + j)) % N
    OBVIOUS
  <2>3. a = IF h + j < N THEN h + j ELSE h + j - N
    BY <1>4, <2>1, <2>2, RingPlace
  <2>4. b = IF head + (n + j) < N THEN head + (n + j) ELSE head + (n + j) - N
    BY <1>3, <2>1, <2>2, RingPlace
  <2>5. a = b
    BY <1>2, <1>3, <1>4, <2>3, <2>4
  <2> QED
    BY <2>2, <2>5
<1>6. tail = (h + Len(t)) % N
  <2>1. l - n \in 0 .. N - n /\ n + (l - n) = l
    BY <1>2
  <2> QED
    BY <1>2, <1>3, <1>5, <2>1
<1>7. ASSUME NEW k \in 1 .. l - n PROVE other[(h + k - 1) % N] = t[k]
  <2>1. /\ k - 1 \in 0 .. N - n /\ h + k - 1 = h + (k - 1) /\ n + k \in 1 .. l
        /\ head + (n + k) - 1 = head + (n + (k - 1)) /\ n + (k - 1) \in 0 .. N - 1
        /\ n + (k - 1) \in 0 .. N /\ n + (k - 1) >= n
    <3>1. l \in Nat /\ l <= N /\ n \in 0 .. l /\ head \in Nat /\ h \in Nat
      BY <1>2, <1>3, <1>4
    <3> QED
      BY <3>1
  <2>2. PICK a, j : a = (h + k - 1) % N /\ j = n + (k - 1)
    OBVIOUS
  <2>3. a = (head + j) % N
    BY <1>5, <2>1, <2>2
  <2>4. a \in 0 .. N - 1 /\ a = IF head + j < N THEN head + j ELSE head + j - N
    <3>1. j \in 0 .. N /\ head \in 0 .. N - 1
      BY <1>3, <2>1, <2>2
    <3> QED
      BY <2>3, <3>1, RingPlace
  <2>5. buff[a] = text[n + k]
    BY <1>3, <2>1, <2>2, <2>3
  <2>6. (a - head + N) % N = j
    <3>1. head \in 0 .. N - 1 /\ j \in 0 .. N - 1
      BY <1>3, <2>1, <2>2
    <3>2. CASE head + j < N
      <4>1. PICK x : x = N + j
        OBVIOUS
      <4>2. x \in N .. 2 * N - 1
        BY <3>1, <4>1
      <4>3. x % N = x - N
        BY <4>2, OnceAround
      <4>4. x - N = j
        BY <3>1, <4>1
      <4>5. a = head + j
        BY <2>4, <3>2
      <4>6. a - head + N = x
        BY <3>1, <4>1, <4>5
      <4> QED
        BY <4>3, <4>4, <4>6
    <3>3. CASE ~(head + j < N)
      <4>1. a = head + j - N
        BY <2>4, <3>3
      <4>2. a - head + N = j
        BY <3>1, <4>1
      <4>3. j % N = j
        BY <3>1
      <4> QED
        BY <4>2, <4>3
    <3> QED
      BY <3>2, <3>3
  <2>7. other[a] = buff[a]
    BY <2>1, <2>2, <2>4, <2>6
  <2> QED
    BY <1>2, <2>2, <2>5, <2>7
<1>8. IsRing(other, h, tail, t, N)
  <2>1. Len(t) <= N /\ 1 .. Len(t) = 1 .. l - n
    BY <1>2
  <2>2. \A k \in 1 .. Len(t) : other[(h + k - 1) % N] = t[k]
    BY <1>7, <2>1
  <2> QED
    BY <1>4, <1>6, <2>1, <2>2 DEF IsRing
<1> QED
  BY <1>1, <1>8

(* The last n of a ring are given up.                                      *)
LEMMA RingCut ==
  ASSUME NEW C, NEW N \in Nat \ {0}, NEW buff, NEW head, NEW tail, NEW text \in Seq(C),
         IsRing(buff, head, tail, text, N), NEW n \in Nat, NEW t \in Seq(C), Len(text) = Len(t) + n,
         \A k \in 1 .. Len(t) : t[k] = text[k]
  PROVE  IsRing(buff, head, IF tail - n < 0 THEN tail - n + N ELSE tail - n, t, N)
<1>1. PICK l, m : l = Len(text) /\ m = Len(t)
  OBVIOUS
<1>2. /\ l \in Nat /\ m \in Nat /\ l = m + n /\ l <= N /\ head \in 0 .. N - 1
      /\ tail = (head + l) % N /\ \A k \in 1 .. l : buff[(head + k - 1) % N] = text[k]
  <2>1. l \in Nat /\ m \in Nat /\ l = m + n
    BY <1>1
  <2>2. /\ Len(text) <= N /\ head \in 0 .. N - 1 /\ tail = (head + Len(text)) % N
        /\ \A k \in 1 .. Len(text) : buff[(head + k - 1) % N] = text[k]
    BY DEF IsRing
  <2>3. /\ l <= N /\ head \in 0 .. N - 1 /\ tail = (head + l) % N
        /\ \A k \in 1 .. l : buff[(head + k - 1) % N] = text[k]
    BY <2>2, <1>1, Zenon
  <2> QED
    BY <2>1, <2>3
<1>3. l \in 0 .. N /\ m \in 0 .. N
  BY <1>2
<1>4. tail = IF head + l < N THEN head + l ELSE head + l - N
  BY <1>2, <1>3, RingPlace
<1>5. (head + m) % N = IF head + m < N THEN head + m ELSE head + m - N
  BY <1>2, <1>3, RingPlace
<1>6. PICK e : e = (head + m) % N
  OBVIOUS
<1>7. e = IF tail - n < 0 THEN tail - n + N ELSE tail - n
  <2>1. e = IF head + m < N THEN head + m ELSE head + m - N
    BY <1>5, <1>6
  <2>2. l \in Nat /\ m \in Nat /\ l = m + n /\ head \in 0 .. N - 1
    BY <1>2
  <2> QED
    BY <1>4, <2>1, <2>2
<1>8. \A k \in 1 .. m : buff[(head + k - 1) % N] = t[k]
  BY <1>1, <1>2
<1> QED
  BY <1>1, <1>2, <1>6, <1>7, <1>8 DEF IsRing
-----------------------------------------------------------------------------
(***************************************************************************)
(* The tty driver keeps its text. Each ring holds a text, its history;     *)
(* each semaphore counts what is there, less what was promised to the      *)
(* processes that were let through and have not run. These promises are    *)
(* why the rings are right whoever runs when. Reading takes what was       *)
(* counted or promised, so the text is never empty then; writing takes a   *)
(* cell that was counted or promised, so the ring is never full then.      *)
(***************************************************************************)

(* Where a process is in ttygetc or ttyputc.                               *)
TtyPoints == {"idle", "put", "wait", "go_on"}

(* A semaphore's queue is the users that say they wait.                    *)
Waiters(sem, U, at) == IsSem(sem, U) /\ ToSet(sem.squeue) = {q \in U : at[q] = "wait"}

(* Those of the users that were let through and have not run.              *)
going(U, at) == {q \in U : at[q] = "go_on"}

(* They are finitely many.                                                 *)
LEMMA GoingFinite ==
  ASSUME NEW U, IsFiniteSet(U), NEW at
  PROVE  IsFiniteSet(going(U, at)) /\ Cardinality(going(U, at)) \in Nat
<1>1. going(U, at) \in SUBSET U
  BY DEF going
<1> QED
  BY <1>1, FS_Subset, FS_CardinalityType

(* A process that waits joins the queue, and nobody is let through.        *)
LEMMA QueueJoined ==
  ASSUME NEW U, NEW sem, NEW at, Waiters(sem, U, at), NEW p \in U, at[p] \notin {"wait", "go_on"},
         blocks(sem), NEW a, a[p] = "wait", \A q \in U \ {p} : a[q] = at[q]
  PROVE  /\ Waiters(waited(sem, p), U, a) /\ counted(waited(sem, p)) = counted(sem)
         /\ Cardinality(going(U, a)) = Cardinality(going(U, at))
<1>1. PICK s : s = waited(sem, p)
  OBVIOUS
<1>2. p \notin ToSet(sem.squeue) /\ IsSem(sem, U)
  BY DEF Waiters
<1>3. IsSem(s, U) /\ ToSet(s.squeue) = ToSet(sem.squeue) \cup {p} /\ counted(s) = counted(sem)
  BY <1>1, <1>2, SemWaited
<1>4. Waiters(s, U, a)
  BY <1>3 DEF Waiters
<1>5. going(U, a) = going(U, at)
  BY DEF going
<1>6. Cardinality(going(U, a)) = Cardinality(going(U, at))
  BY <1>5, Zenon
<1> QED
  BY <1>1, <1>3, <1>4, <1>6

(* A process that need not wait takes one of what is counted.              *)
LEMMA QueuePassed ==
  ASSUME NEW U, NEW sem, NEW at, Waiters(sem, U, at), NEW p \in U, at[p] \notin {"wait", "go_on"},
         ~blocks(sem), NEW a, a[p] \notin {"wait", "go_on"}, \A q \in U \ {p} : a[q] = at[q]
  PROVE  /\ Waiters(waited(sem, p), U, a) /\ counted(sem) \in Nat \ {0}
         /\ counted(waited(sem, p)) = counted(sem) - 1
         /\ Cardinality(going(U, a)) = Cardinality(going(U, at))
<1>1. PICK s : s = waited(sem, p)
  OBVIOUS
<1>2. p \notin ToSet(sem.squeue) /\ IsSem(sem, U)
  BY DEF Waiters
<1>3. /\ IsSem(s, U) /\ ToSet(s.squeue) = ToSet(sem.squeue)
      /\ counted(s) = counted(sem) - 1 /\ counted(sem) \in Nat \ {0}
  BY <1>1, <1>2, SemWaited, CountedNat
<1>4. Waiters(s, U, a)
  BY <1>3 DEF Waiters
<1>5. going(U, a) = going(U, at)
  BY DEF going
<1>6. Cardinality(going(U, a)) = Cardinality(going(U, at))
  BY <1>5, Zenon
<1> QED
  BY <1>1, <1>3, <1>4, <1>6

(* One that was let through runs.                                          *)
LEMMA QueueWent ==
  ASSUME NEW U, IsFiniteSet(U), NEW sem, NEW at, Waiters(sem, U, at), NEW p \in U, at[p] = "go_on",
         NEW a, a[p] \notin {"wait", "go_on"}, \A q \in U \ {p} : a[q] = at[q]
  PROVE  /\ Waiters(sem, U, a)
         /\ Cardinality(going(U, at)) \in Nat \ {0}
         /\ Cardinality(going(U, a)) = Cardinality(going(U, at)) - 1
<1>1. Waiters(sem, U, a)
  BY DEF Waiters
<1>2. p \in going(U, at) /\ going(U, a) = going(U, at) \ {p}
  BY DEF going
<1>3. IsFiniteSet(going(U, at))
  BY GoingFinite
<1>4. Cardinality(going(U, at)) \in Nat \ {0} /\ Cardinality(going(U, at) \ {p}) = Cardinality(going(U, at)) - 1
  BY <1>2, <1>3, OneLeaves
<1>5. Cardinality(going(U, a)) = Cardinality(going(U, at)) - 1
  BY <1>2, <1>4, Zenon
<1> QED
  BY <1>1, <1>4, <1>5

(* n signals let the first n through, and what they do not let through is  *)
(* counted.                                                                *)
LEMMA QueueSignalled ==
  ASSUME NEW U, IsFiniteSet(U), NEW sem, NEW at, Waiters(sem, U, at), NEW n \in Nat, NEW a,
         \A q \in U : a[q] = IF q \in wokenn(sem, n) THEN "go_on" ELSE at[q]
  PROVE  LET s == signalledn(sem, n)
         IN  /\ Waiters(s, U, a)
             /\ wokenn(sem, n) \subseteq {q \in U : at[q] = "wait"}
             /\ counted(s) + Cardinality(going(U, a)) = counted(sem) + Cardinality(going(U, at)) + n
<1>1. PICK s, k, W : /\ s = signalledn(sem, n)
                     /\ k = least(n, Len(sem.squeue)) /\ W = wokenn(sem, n)
  OBVIOUS
<1>2. \A q \in U : a[q] = IF q \in W THEN "go_on" ELSE at[q]
  BY <1>1
<1>3. IsSem(sem, U) /\ ToSet(sem.squeue) = {q \in U : at[q] = "wait"}
  BY DEF Waiters
<1>4. /\ IsSem(s, U) /\ W \subseteq ToSet(sem.squeue) /\ ToSet(s.squeue) = ToSet(sem.squeue) \ W
      /\ IsFiniteSet(W) /\ Cardinality(W) = k /\ k \in Nat
      /\ counted(s) = counted(sem) + n - k
  <2>1. LET j == least(n, Len(sem.squeue))
            V == wokenn(sem, n)
        IN  /\ IsSem(signalledn(sem, n), U)
            /\ V \subseteq ToSet(sem.squeue)
            /\ ToSet(signalledn(sem, n).squeue) = ToSet(sem.squeue) \ V
            /\ IsFiniteSet(V) /\ Cardinality(V) = j /\ j \in Nat
            /\ counted(signalledn(sem, n)) = counted(sem) + n - j
    BY <1>3, SemSignalledN
  <2> QED
    BY <1>1, <2>1
<1>5. Waiters(s, U, a)
  <2>1. \A q \in U : a[q] = "wait" <=> at[q] = "wait" /\ q \notin W
    BY <1>2
  <2> QED
    BY <1>3, <1>4, <2>1 DEF Waiters
<1>6. going(U, a) = going(U, at) \cup W
  BY <1>2, <1>3, <1>4 DEF going
<1>7. Cardinality(going(U, at) \cap W) = 0
  <2>1. going(U, at) \cap W = {}
    BY <1>3, <1>4 DEF going
  <2>2. Cardinality({}) = 0
    BY FS_EmptySet
  <2> QED
    BY <2>1, <2>2, Zenon
<1>8. /\ Cardinality(going(U, at) \cup W) = Cardinality(going(U, at)) + Cardinality(W)
      /\ Cardinality(going(U, at)) \in Nat
  BY <1>4, <1>7, GoingFinite, DisjointSize
<1>9. Cardinality(going(U, a)) = Cardinality(going(U, at)) + k
  BY <1>4, <1>6, <1>8, Zenon
<1>10. counted(s) + Cardinality(going(U, a)) = counted(sem) + Cardinality(going(U, at)) + n
  <2>1. PICK x, g : x = counted(sem) /\ g = Cardinality(going(U, at)) /\ x \in Nat /\ g \in Nat
    BY <1>3, <1>8, CountedNat
  <2>2. (x + n - k) + (g + k) = x + g + n
    BY <1>4, <2>1
  <2> QED
    BY <1>4, <1>9, <2>1, <2>2
<1>11. W \subseteq {q \in U : at[q] = "wait"}
  BY <1>3, <1>4
<1> QED
  BY <1>1, <1>5, <1>10, <1>11

(* The same of what a process of the tty is at.                            *)
LEMMA TtySignalled ==
  ASSUME NEW U \in SUBSET TtyUsers, IsFiniteSet(U), NEW sem, tty.at \in [TtyUsers -> TtyPoints],
         Waiters(sem, U, tty.at), NEW n \in Nat
  PROVE  LET a == at_after(sem, n)
             s == signalledn(sem, n)
         IN  /\ Waiters(s, U, a)
             /\ a \in [TtyUsers -> TtyPoints]
             /\ \A q \in TtyUsers \ U : a[q] = tty.at[q]
             /\ \A q \in U : a[q] = tty.at[q] \/ (tty.at[q] = "wait" /\ a[q] = "go_on")
             /\ counted(s) + Cardinality(going(U, a)) = counted(sem) + Cardinality(going(U, tty.at)) + n
<1>1. PICK a, s, W : a = at_after(sem, n) /\ s = signalledn(sem, n) /\ W = wokenn(sem, n)
  OBVIOUS
<1>2. a = [q \in TtyUsers |-> IF q \in W THEN "go_on" ELSE tty.at[q]]
  BY <1>1 DEF at_after
<1>3. \A q \in U : a[q] = IF q \in wokenn(sem, n) THEN "go_on" ELSE tty.at[q]
  BY <1>1, <1>2
<1>4. /\ Waiters(s, U, a) /\ W \subseteq {q \in U : tty.at[q] = "wait"}
      /\ counted(s) + Cardinality(going(U, a)) = counted(sem) + Cardinality(going(U, tty.at)) + n
  <2>1. LET r == signalledn(sem, n)
        IN  /\ Waiters(r, U, a) /\ wokenn(sem, n) \subseteq {q \in U : tty.at[q] = "wait"}
            /\ counted(r) + Cardinality(going(U, a)) = counted(sem) + Cardinality(going(U, tty.at)) + n
    BY <1>3, QueueSignalled
  <2> QED
    BY <1>1, <2>1
<1>5. /\ a \in [TtyUsers -> TtyPoints]
      /\ \A q \in TtyUsers \ U : a[q] = tty.at[q]
      /\ \A q \in U : a[q] = tty.at[q] \/ (tty.at[q] = "wait" /\ a[q] = "go_on")
  BY <1>2, <1>4 DEF TtyPoints
<1> QED
  BY <1>1, <1>4, <1>5

(* What the input ring holds.                                              *)
TtyTyped == {"letter", "newline", "eof"}

(* What the output ring holds: what is written, a return before a          *)
(* newline, and what its cells begin with.                                 *)
TtyWritten == TtyOutput \cup {"letter", "return", "newline"}

(* The fields of the driver.                                               *)
TtyFields ==
  [ibuff |-> tty.ibuff, ihead |-> tty.ihead, itail |-> tty.itail,
   icursor |-> tty.icursor, isem |-> tty.isem,
   obuff |-> tty.obuff, ohead |-> tty.ohead, otail |-> tty.otail,
   osem |-> tty.osem, oheld |-> tty.oheld, echo |-> tty.echo, thre |-> tty.thre,
   at |-> tty.at, put |-> tty.put,
   line |-> tty.line, typed |-> tty.typed, unsent |-> tty.unsent]

(* The fields of the driver, and what some of them are.                    *)
TtyTypeOK ==
  /\ tty = TtyFields
  /\ tty.at \in [TtyUsers -> TtyPoints]
  /\ tty.oheld \in BOOLEAN /\ tty.thre \in BOOLEAN /\ tty.echo \in Nat

(* The input ring holds what was typed and the line being typed.           *)
InputHeld ==
  /\ tty.ibuff \in [0 .. TY_IBUFLEN -> TtyTyped]
  /\ tty.typed \in Seq(TtyTyped) /\ tty.line \in Seq(TtyTyped)
  /\ IsRing(tty.ibuff, tty.ihead, tty.itail, tty.typed \o tty.line, TY_IBUFLEN)
  /\ tty.icursor = Len(tty.line)

(* Its semaphore counts whole lines, or readers were promised them.        *)
InputCounted ==
  /\ Waiters(tty.isem, TtyReaders, tty.at)
  /\ \A p \in TtyReaders : tty.at[p] # "put"
  /\ counted(tty.isem) + Cardinality(going(TtyReaders, tty.at)) = Len(tty.typed)

(* All that is known of the input.                                         *)
InputIInv == InputHeld /\ InputCounted

(* The output ring holds what was written and not sent.                    *)
OutputHeld ==
  /\ tty.obuff \in [0 .. TY_OBUFLEN - 1 -> TtyWritten]
  /\ tty.unsent \in Seq(TtyWritten) /\ tty.put \in [TtyWriters -> Seq(TtyWritten)]
  /\ IsRing(tty.obuff, tty.ohead, tty.otail, tty.unsent, TY_OBUFLEN)
  /\ \A p \in TtyWriters : tty.at[p] # "idle" => tty.put[p] # << >>

(* Its semaphore counts the cells that are left, or writers were promised  *)
(* them.                                                                   *)
OutputCounted ==
  /\ Waiters(tty.osem, TtyWriters, tty.at)
  /\ counted(tty.osem) + Len(tty.unsent) + Cardinality(going(TtyWriters, tty.at)) = TY_OBUFLEN

(* All that is known of the output.                                        *)
OutputIInv == OutputHeld /\ OutputCounted

(* The inductive invariant.                                                *)
TtyIInv == TtyTypeOK /\ InputIInv /\ OutputIInv

(* What the sizes and the users are.                                       *)
LEMMA TtySizes ==
  /\ TY_IBUFLEN \in Nat \ {0} /\ TY_OBUFLEN \in Nat \ {0}
  /\ TY_EBUFLEN \in Nat \ {0} /\ UART_FIFO_SIZE \in Nat \ {0}
  /\ TtyReaders \in SUBSET TtyUsers /\ TtyWriters \in SUBSET TtyUsers
  /\ IsFiniteSet(TtyReaders) /\ IsFiniteSet(TtyWriters) /\ TtyReaders \cap TtyWriters = {}
BY TtyAssumption DEF TtyUsers

(* Nobody waits and nobody was let through, when all are elsewhere.        *)
LEMMA NobodyGoing ==
  ASSUME NEW U, NEW at, \A q \in U : at[q] \notin {"wait", "go_on"}
  PROVE  {q \in U : at[q] = "wait"} = {} /\ Cardinality(going(U, at)) = 0
<1>1. going(U, at) = {}
  BY DEF going
<1> QED
  BY <1>1, FS_EmptySet

(* ttyinit leaves two empty rings that are counted right.                  *)
LEMMA TtyInitSound ==
  ASSUME TtyInit
  PROVE  TtyTypeOK /\ InputIInv /\ OutputIInv /\ NoOutputStalls
<1>1. TtyTypeOK
  BY DEF TtyInit, TtyTypeOK, TtyFields, TtyPoints
<1>2. \A q \in TtyUsers : tty.at[q] = "idle"
  BY DEF TtyInit
<1>3. /\ {q \in TtyReaders : tty.at[q] = "wait"} = {} /\ Cardinality(going(TtyReaders, tty.at)) = 0
      /\ {q \in TtyWriters : tty.at[q] = "wait"} = {} /\ Cardinality(going(TtyWriters, tty.at)) = 0
  BY <1>2, NobodyGoing DEF TtyUsers
<1>4. InputIInv
  <2>1. tty.isem = semcreate(0) /\ tty.typed = << >> /\ tty.line = << >> /\ tty.icursor = 0
        /\ tty.ihead = 0 /\ tty.itail = 0
    BY DEF TtyInit
  <2>2. InputCounted
    <3>1. Waiters(tty.isem, TtyReaders, tty.at) /\ counted(tty.isem) = 0
      BY <1>3, <2>1, SemCreated DEF Waiters
    <3>2. \A p \in TtyReaders : tty.at[p] # "put"
      BY <1>2 DEF TtyUsers
    <3> QED
      BY <1>3, <2>1, <3>1, <3>2 DEF InputCounted
  <2>3. InputHeld
    <3>1. tty.ibuff \in [0 .. TY_IBUFLEN -> TtyTyped]
      BY DEF TtyInit, TtyTyped
    <3>2. tty.typed \o tty.line = << >>
      BY <2>1
    <3>3. IsRing(tty.ibuff, tty.ihead, tty.itail, tty.typed \o tty.line, TY_IBUFLEN)
      BY <2>1, <3>2, TtySizes, RingEmpty
    <3> QED
      BY <2>1, <3>1, <3>3 DEF InputHeld
  <2> QED
    BY <2>2, <2>3 DEF InputIInv
<1>5. OutputIInv
  <2>1. tty.osem = semcreate(TY_OBUFLEN) /\ tty.unsent = << >> /\ tty.ohead = 0 /\ tty.otail = 0
    BY DEF TtyInit
  <2>2. OutputCounted
    <3>0. TY_OBUFLEN \in Nat
      BY TtySizes
    <3>1. Waiters(tty.osem, TtyWriters, tty.at) /\ counted(tty.osem) = TY_OBUFLEN
      BY <1>3, <2>1, <3>0, SemCreated DEF Waiters
    <3>2. Len(tty.unsent) = 0
      BY <2>1
    <3> QED
      BY <1>3, <3>1, <3>2, TtySizes DEF OutputCounted
  <2>3. OutputHeld
    <3>1. tty.obuff \in [0 .. TY_OBUFLEN - 1 -> TtyWritten] /\ tty.put \in [TtyWriters -> Seq(TtyWritten)]
      BY DEF TtyInit, TtyWritten
    <3>2. IsRing(tty.obuff, tty.ohead, tty.otail, tty.unsent, TY_OBUFLEN)
      BY <2>1, TtySizes, RingEmpty
    <3> QED
      BY <1>2, <2>1, <3>1, <3>2 DEF OutputHeld, TtyUsers
  <2> QED
    BY <2>2, <2>3 DEF OutputIInv
<1>6. NoOutputStalls
  BY DEF NoOutputStalls, TtyInit
<1> QED
  BY <1>1, <1>4, <1>5, <1>6

(* A step that leaves a ring and its users alone.                          *)
LEMMA InputSame ==
  ASSUME InputIInv, tty'.ibuff = tty.ibuff, tty'.ihead = tty.ihead, tty'.itail = tty.itail,
         tty'.icursor = tty.icursor, tty'.isem = tty.isem, tty'.line = tty.line,
         tty'.typed = tty.typed, \A q \in TtyReaders : tty'.at[q] = tty.at[q]
  PROVE  InputIInv'
<1>1. going(TtyReaders, tty.at)' = going(TtyReaders, tty.at)
  BY DEF going
<1>2. InputHeld'
  BY DEF InputHeld, InputIInv
<1>3. InputCounted'
  <2>1. Waiters(tty.isem, TtyReaders, tty.at)'
    BY DEF Waiters, InputIInv, InputCounted
  <2>2. Cardinality(going(TtyReaders, tty.at)') = Cardinality(going(TtyReaders, tty.at))
    BY <1>1, Zenon
  <2> QED
    BY <2>1, <2>2 DEF InputIInv, InputCounted
<1> QED
  BY <1>2, <1>3 DEF InputIInv

(* What leaves the output alone keeps what is known of it.                 *)
LEMMA OutputSame ==
  ASSUME OutputIInv, tty'.obuff = tty.obuff, tty'.ohead = tty.ohead, tty'.otail = tty.otail,
         tty'.osem = tty.osem, tty'.put = tty.put,
         tty'.unsent = tty.unsent, \A q \in TtyWriters : tty'.at[q] = tty.at[q]
  PROVE  OutputIInv'
<1>1. going(TtyWriters, tty.at)' = going(TtyWriters, tty.at)
  BY DEF going
<1>2. OutputHeld'
  BY DEF OutputHeld, OutputIInv
<1>3. OutputCounted'
  <2>1. Waiters(tty.osem, TtyWriters, tty.at)'
    BY DEF Waiters, OutputIInv, OutputCounted
  <2>2. Cardinality(going(TtyWriters, tty.at)') = Cardinality(going(TtyWriters, tty.at))
    BY <1>1, Zenon
  <2> QED
    BY <2>1, <2>2 DEF OutputIInv, OutputCounted
<1> QED
  BY <1>2, <1>3 DEF OutputIInv

(* The tail of two sequences joined.                                       *)
LEMMA ConcatTail ==
  ASSUME NEW C, NEW s \in Seq(C), NEW t \in Seq(C), s # << >>
  PROVE  Tail(s \o t) = Tail(s) \o t /\ s \o t # << >> /\ s \o t \in Seq(C)
<1>1. PICK m, n, u, v : /\ m = Len(s) /\ n = Len(t) /\ u = s \o t /\ v = Tail(s)
  OBVIOUS
<1>2. /\ m \in Nat \ {0} /\ n \in Nat /\ u \in Seq(C) /\ Len(u) = m + n
      /\ \A k \in 1 .. m + n : u[k] = IF k <= m THEN s[k] ELSE t[k - m]
  BY <1>1, ConcatProperties
<1>3. v \in Seq(C) /\ Len(v) = m - 1 /\ \A k \in 1 .. m - 1 : v[k] = s[k + 1]
  BY <1>1, <1>2, HeadTailProperties
<1>4. u # << >>
  BY <1>2
<1>5. Tail(u) \in Seq(C) /\ Len(Tail(u)) = m + n - 1 /\ \A k \in 1 .. m + n - 1 : Tail(u)[k] = u[k + 1]
  BY <1>2, <1>4, HeadTailProperties
<1>6. /\ v \o t \in Seq(C) /\ Len(v \o t) = m + n - 1
      /\ \A k \in 1 .. m + n - 1 : (v \o t)[k] = IF k <= m - 1 THEN v[k] ELSE t[k - (m - 1)]
  BY <1>1, <1>2, <1>3, ConcatProperties
<1>7. ASSUME NEW k \in 1 .. m + n - 1 PROVE Tail(u)[k] = (v \o t)[k]
  <2>1. k + 1 \in 1 .. m + n /\ k - (m - 1) = (k + 1) - m
    BY <1>2
  <2>2. CASE k <= m - 1
    <3>1. k \in 1 .. m - 1 /\ k + 1 <= m
      BY <1>2, <2>2
    <3> QED
      BY <1>2, <1>3, <1>5, <1>6, <2>1, <2>2, <3>1
  <2>3. CASE ~(k <= m - 1)
    <3>1. ~(k + 1 <= m)
      BY <1>2, <2>3
    <3> QED
      BY <1>2, <1>5, <1>6, <2>1, <2>3, <3>1
  <2> QED
    BY <2>2, <2>3
<1>8. Tail(u) = v \o t
  <2>1. PICK x, y : x = Tail(u) /\ y = v \o t
    OBVIOUS
  <2>2. x \in Seq(C) /\ y \in Seq(C) /\ Len(x) = Len(y) /\ \A k \in 1 .. Len(x) : x[k] = y[k]
    BY <1>5, <1>6, <1>7, <2>1
  <2>3. x = y
    BY <2>2
  <2> QED
    BY <2>1, <2>3
<1> QED
  BY <1>1, <1>2, <1>4, <1>8

(* ttygetc waits for a character.                                          *)
LEMMA GetWaits ==
  ASSUME TtyTypeOK, NEW p \in TtyReaders, ttygetc_wait(p)
  PROVE  /\ TtyTypeOK'
         /\ InputIInv => InputIInv'
         /\ OutputIInv => OutputIInv'
         /\ NoOutputStalls => NoOutputStalls'
<1>1. PICK d, a : d = waited(tty.isem, p) /\ a = [tty.at EXCEPT ![p] = "wait"]
  OBVIOUS
<1>2. /\ tty' = [ibuff |-> tty.ibuff, ihead |-> tty.ihead, itail |-> tty.itail,
                 icursor |-> tty.icursor, isem |-> d,
                 obuff |-> tty.obuff, ohead |-> tty.ohead, otail |-> tty.otail,
                 osem |-> tty.osem, oheld |-> tty.oheld, echo |-> tty.echo, thre |-> tty.thre,
                 at |-> a, put |-> tty.put,
                 line |-> tty.line, typed |-> tty.typed, unsent |-> tty.unsent]
      /\ tty.at[p] = "idle" /\ blocks(tty.isem)
  BY <1>1 DEF ttygetc_wait, TtyTypeOK, TtyFields
<1>3. tty.at \in [TtyUsers -> TtyPoints] /\ p \in TtyUsers /\ p \notin TtyWriters
  BY TtySizes DEF TtyTypeOK, TtyFields
<1>4. a \in [TtyUsers -> TtyPoints] /\ \A q \in TtyUsers \ {p} : a[q] = tty.at[q]
  BY <1>1, <1>3 DEF TtyPoints
<1>5. TtyTypeOK'
  BY <1>2, <1>4 DEF TtyTypeOK, TtyFields
<1>6. ASSUME InputIInv PROVE InputIInv'
  <2>1. /\ Waiters(d, TtyReaders, a) /\ counted(d) = counted(tty.isem)
        /\ Cardinality(going(TtyReaders, a)) = Cardinality(going(TtyReaders, tty.at))
    <3>1. Waiters(tty.isem, TtyReaders, tty.at)
      BY <1>6 DEF InputIInv, InputCounted
    <3>2. tty.at[p] \notin {"wait", "go_on"} /\ blocks(tty.isem)
      BY <1>2
    <3>3. a[p] = "wait" /\ \A q \in TtyReaders \ {p} : a[q] = tty.at[q]
      BY <1>1, <1>3, TtySizes
    <3>4. d = waited(tty.isem, p)
      BY <1>1
    <3>5. /\ Waiters(waited(tty.isem, p), TtyReaders, a) /\ counted(waited(tty.isem, p)) = counted(tty.isem)
          /\ Cardinality(going(TtyReaders, a)) = Cardinality(going(TtyReaders, tty.at))
      BY <3>1, <3>2, <3>3, QueueJoined
    <3> QED
      BY <3>4, <3>5
  <2>2. InputHeld'
    BY <1>2, <1>6 DEF InputHeld, InputIInv
  <2>4. \A q \in TtyReaders : a[q] # "put"
    BY <1>1, <1>3, <1>6, TtySizes DEF InputIInv, InputCounted
  <2>5. tty'.isem = d /\ tty'.at = a /\ tty'.typed = tty.typed
    BY <1>2
  <2>6. InputCounted'
    BY <1>6, <2>1, <2>4, <2>5 DEF InputIInv, InputCounted
  <2> QED
    BY <2>2, <2>6 DEF InputIInv
<1>7. ASSUME OutputIInv PROVE OutputIInv'
  BY <1>2, <1>3, <1>4, <1>7, OutputSame, TtySizes
<1>8. ASSUME NoOutputStalls PROVE NoOutputStalls'
  BY <1>2, <1>8 DEF NoOutputStalls
<1> QED
  BY <1>5, <1>6, <1>7, <1>8

(* ttygetc takes the character at the head: it is the first of what was    *)
(* typed, since one is counted or was promised.                            *)
LEMMA GetTakes ==
  ASSUME TtyTypeOK, NEW p \in TtyReaders, ttygetc(p)
  PROVE  /\ TtyTypeOK'
         /\ InputIInv => InputIInv'
         /\ OutputIInv => OutputIInv'
         /\ NoOutputStalls => NoOutputStalls'
<1>1. PICK d, a, b, h, t : /\ d = (IF tty.at[p] = "idle" THEN waited(tty.isem, p) ELSE tty.isem)
                     /\ a = [tty.at EXCEPT ![p] = "idle"]
                     /\ b = [tty.ibuff EXCEPT ![tty.ihead] = "letter"]
                     /\ h = wrapped(tty.ihead + 1, TY_IBUFLEN) /\ t = Tail(tty.typed)
  OBVIOUS
<1>2. /\ tty' = [ibuff |-> b, ihead |-> h, itail |-> tty.itail,
                 icursor |-> tty.icursor, isem |-> d,
                 obuff |-> tty.obuff, ohead |-> tty.ohead, otail |-> tty.otail,
                 osem |-> tty.osem, oheld |-> tty.oheld, echo |-> tty.echo, thre |-> tty.thre,
                 at |-> a, put |-> tty.put,
                 line |-> tty.line, typed |-> t, unsent |-> tty.unsent]
      /\ tty.at[p] = "go_on" \/ (tty.at[p] = "idle" /\ ~blocks(tty.isem))
  BY <1>1 DEF ttygetc, TtyTypeOK, TtyFields
<1>3. tty.at \in [TtyUsers -> TtyPoints] /\ p \in TtyUsers /\ p \notin TtyWriters
  BY TtySizes DEF TtyTypeOK, TtyFields
<1>4. a \in [TtyUsers -> TtyPoints] /\ a[p] = "idle" /\ \A q \in TtyUsers \ {p} : a[q] = tty.at[q]
  BY <1>1, <1>3 DEF TtyPoints
<1>5. TtyTypeOK'
  BY <1>2, <1>4 DEF TtyTypeOK, TtyFields
<1>6. ASSUME InputIInv PROVE InputIInv'
  <2>1. /\ Waiters(tty.isem, TtyReaders, tty.at) /\ tty.typed \in Seq(TtyTyped) /\ tty.line \in Seq(TtyTyped)
        /\ counted(tty.isem) + Cardinality(going(TtyReaders, tty.at)) = Len(tty.typed)
        /\ counted(tty.isem) \in Nat /\ Cardinality(going(TtyReaders, tty.at)) \in Nat
    BY <1>6, GoingFinite, CountedNat, TtySizes DEF InputIInv, InputCounted, InputHeld, Waiters
  <2>2. PICK c, g, n : /\ c = counted(tty.isem) /\ g = Cardinality(going(TtyReaders, tty.at))
                       /\ n = Len(tty.typed)
    OBVIOUS
  <2>a. Waiters(tty.isem, TtyReaders, tty.at)
    BY <2>1
  <2>b. c \in Nat /\ g \in Nat /\ c + g = n
    BY <2>1, <2>2
  <2>3. /\ Waiters(d, TtyReaders, a) /\ Len(tty.typed) > 0
        /\ counted(d) + Cardinality(going(TtyReaders, a)) = Len(tty.typed) - 1
    <3>1. CASE tty.at[p] = "go_on"
      <4>1. /\ Waiters(tty.isem, TtyReaders, a) /\ g > 0
            /\ Cardinality(going(TtyReaders, a)) = g - 1 /\ d = tty.isem
        <5>1. a[p] \notin {"wait", "go_on"} /\ \A q \in TtyReaders \ {p} : a[q] = tty.at[q]
          BY <1>4, TtySizes
        <5>2. /\ Waiters(tty.isem, TtyReaders, a)
              /\ Cardinality(going(TtyReaders, tty.at)) \in Nat \ {0}
              /\ Cardinality(going(TtyReaders, a)) = Cardinality(going(TtyReaders, tty.at)) - 1
          BY <2>a, <3>1, <5>1, QueueWent, TtySizes
        <5>3. d = tty.isem
          BY <1>1, <3>1
        <5> QED
          BY <2>2, <5>2, <5>3
      <4>2. c + (g - 1) = n - 1 /\ n > 0
        BY <2>b, <4>1
      <4> QED
        BY <2>2, <4>1, <4>2
    <3>2. CASE tty.at[p] = "idle" /\ ~blocks(tty.isem)
      <4>1. /\ Waiters(d, TtyReaders, a) /\ c > 0 /\ counted(d) = c - 1
            /\ Cardinality(going(TtyReaders, a)) = g
        <5>1. d = waited(tty.isem, p) /\ a[p] \notin {"wait", "go_on"} /\ \A q \in TtyReaders \ {p} : a[q] = tty.at[q]
          BY <1>1, <1>4, <3>2, TtySizes
        <5>2. tty.at[p] \notin {"wait", "go_on"} /\ ~blocks(tty.isem)
          BY <3>2
        <5>3. /\ Waiters(waited(tty.isem, p), TtyReaders, a) /\ counted(tty.isem) \in Nat \ {0}
              /\ counted(waited(tty.isem, p)) = counted(tty.isem) - 1
              /\ Cardinality(going(TtyReaders, a)) = Cardinality(going(TtyReaders, tty.at))
          BY <2>a, <5>1, <5>2, QueuePassed
        <5> QED
          BY <2>2, <5>1, <5>3
      <4>3. (c - 1) + g = n - 1 /\ n > 0
        BY <2>b, <4>1
      <4> QED
        BY <2>2, <4>1, <4>3
    <3> QED
      BY <1>2, <3>1, <3>2
  <2>4. tty.typed # << >>
    BY <2>1, <2>3
  <2>5. t \in Seq(TtyTyped) /\ Len(t) = Len(tty.typed) - 1
    BY <1>1, <2>1, <2>4
  <2>6. /\ Tail(tty.typed \o tty.line) = t \o tty.line /\ tty.typed \o tty.line # << >>
        /\ tty.typed \o tty.line \in Seq(TtyTyped)
    BY <1>1, <2>1, <2>4, ConcatTail
  <2>7. IsRing(b, h, tty.itail, t \o tty.line, TY_IBUFLEN)
    <3>1. /\ tty.ibuff \in [0 .. TY_IBUFLEN -> TtyTyped] /\ "letter" \in TtyTyped
          /\ IsRing(tty.ibuff, tty.ihead, tty.itail, tty.typed \o tty.line, TY_IBUFLEN)
          /\ 0 .. TY_IBUFLEN - 1 \subseteq 0 .. TY_IBUFLEN
      BY <1>6, TtySizes DEF InputIInv, InputHeld, TtyTyped
    <3>2. IsRing([tty.ibuff EXCEPT ![tty.ihead] = "letter"], wrapped(tty.ihead + 1, TY_IBUFLEN), tty.itail,
                 Tail(tty.typed \o tty.line), TY_IBUFLEN)
      BY <2>6, <3>1, RingTaken, TtySizes
    <3> QED
      BY <1>1, <2>6, <3>2
  <2>8. b \in [0 .. TY_IBUFLEN -> TtyTyped]
    BY <1>1, <1>6 DEF InputIInv, InputHeld, TtyTyped
  <2>9. InputHeld'
    BY <1>2, <1>6, <2>1, <2>5, <2>7, <2>8 DEF InputIInv, InputHeld
  <2>10. InputCounted'
    <3>1. \A q \in TtyReaders : a[q] # "put"
      BY <1>4, <1>6, TtySizes DEF InputIInv, InputCounted
    <3>2. tty'.isem = d /\ tty'.at = a /\ tty'.typed = t
      BY <1>2
    <3> QED
      BY <2>3, <2>5, <3>1, <3>2 DEF InputCounted
  <2> QED
    BY <2>9, <2>10 DEF InputIInv
<1>7. ASSUME OutputIInv PROVE OutputIInv'
  BY <1>2, <1>3, <1>4, <1>7, OutputSame, TtySizes
<1>8. ASSUME NoOutputStalls PROVE NoOutputStalls'
  BY <1>2, <1>8 DEF NoOutputStalls
<1> QED
  BY <1>5, <1>6, <1>7, <1>8

(* ttyputc begins.                                                         *)
LEMMA PutBegins ==
  ASSUME TtyTypeOK, NEW p \in TtyWriters, NEW ch \in TtyOutput, ttyputc(p, ch)
  PROVE  /\ TtyTypeOK'
         /\ InputIInv => InputIInv'
         /\ OutputIInv => OutputIInv'
         /\ NoOutputStalls => NoOutputStalls'
<1>1. PICK a, w, c : /\ a = [tty.at EXCEPT ![p] = "put"] /\ w = [tty.put EXCEPT ![p] = c]
                     /\ c = IF ch = "newline" THEN << "return", ch >> ELSE << ch >>
  OBVIOUS
<1>2. /\ tty' = [ibuff |-> tty.ibuff, ihead |-> tty.ihead, itail |-> tty.itail,
                 icursor |-> tty.icursor, isem |-> tty.isem,
                 obuff |-> tty.obuff, ohead |-> tty.ohead, otail |-> tty.otail,
                 osem |-> tty.osem, oheld |-> tty.oheld, echo |-> tty.echo, thre |-> tty.thre,
                 at |-> a, put |-> w,
                 line |-> tty.line, typed |-> tty.typed, unsent |-> tty.unsent]
      /\ tty.at[p] = "idle"
  BY <1>1 DEF ttyputc, TtyTypeOK, TtyFields
<1>3. tty.at \in [TtyUsers -> TtyPoints] /\ p \in TtyUsers /\ p \notin TtyReaders
  BY TtySizes DEF TtyTypeOK, TtyFields
<1>4. a \in [TtyUsers -> TtyPoints] /\ a[p] = "put" /\ \A q \in TtyUsers \ {p} : a[q] = tty.at[q]
  BY <1>1, <1>3 DEF TtyPoints
<1>5. TtyTypeOK'
  BY <1>2, <1>4 DEF TtyTypeOK, TtyFields
<1>6. ASSUME InputIInv PROVE InputIInv'
  BY <1>2, <1>3, <1>4, <1>6, InputSame, TtySizes
<1>7. ASSUME OutputIInv PROVE OutputIInv'
  <2>1. c \in Seq(TtyWritten) /\ c # << >>
    <3>1. ch \in TtyWritten /\ "return" \in TtyWritten
      BY DEF TtyWritten
    <3>2. << ch >> \in Seq(TtyWritten) /\ << "return", ch >> \in Seq(TtyWritten)
      BY <3>1
    <3>3. << ch >> # << >> /\ << "return", ch >> # << >>
      OBVIOUS
    <3> QED
      BY <1>1, <3>2, <3>3
  <2>2. tty.put \in [TtyWriters -> Seq(TtyWritten)]
    BY <1>7 DEF OutputIInv, OutputHeld
  <2>3. w \in [TtyWriters -> Seq(TtyWritten)] /\ w[p] # << >> /\ \A q \in TtyWriters \ {p} : w[q] = tty.put[q]
    BY <1>1, <2>1, <2>2
  <2>4. OutputHeld'
    <3>1. \A q \in TtyWriters : a[q] # "idle" => w[q] # << >>
      BY <1>4, <1>7, <2>3, TtySizes DEF OutputIInv, OutputHeld
    <3> QED
      BY <1>2, <1>7, <2>3, <3>1 DEF OutputIInv, OutputHeld
  <2>5. going(TtyWriters, a) = going(TtyWriters, tty.at)
    BY <1>2, <1>4, TtySizes DEF going
  <2>6. Cardinality(going(TtyWriters, a)) = Cardinality(going(TtyWriters, tty.at))
    BY <2>5, Zenon
  <2>7. Waiters(tty.osem, TtyWriters, a)
    BY <1>2, <1>4, <1>7, TtySizes DEF OutputIInv, OutputCounted, Waiters
  <2>8. tty'.osem = tty.osem /\ tty'.at = a /\ tty'.unsent = tty.unsent
    BY <1>2
  <2>9. OutputCounted'
    BY <1>7, <2>6, <2>7, <2>8 DEF OutputIInv, OutputCounted
  <2> QED
    BY <2>4, <2>9 DEF OutputIInv
<1>8. ASSUME NoOutputStalls PROVE NoOutputStalls'
  BY <1>2, <1>8 DEF NoOutputStalls
<1> QED
  BY <1>5, <1>6, <1>7, <1>8

(* ttyputc waits for a cell.                                               *)
LEMMA PutWaits ==
  ASSUME TtyTypeOK, NEW p \in TtyWriters, ttyputc_wait(p)
  PROVE  /\ TtyTypeOK'
         /\ InputIInv => InputIInv'
         /\ OutputIInv => OutputIInv'
         /\ NoOutputStalls => NoOutputStalls'
<1>1. PICK d, a : d = waited(tty.osem, p) /\ a = [tty.at EXCEPT ![p] = "wait"]
  OBVIOUS
<1>2. /\ tty' = [ibuff |-> tty.ibuff, ihead |-> tty.ihead, itail |-> tty.itail,
                 icursor |-> tty.icursor, isem |-> tty.isem,
                 obuff |-> tty.obuff, ohead |-> tty.ohead, otail |-> tty.otail,
                 osem |-> d, oheld |-> tty.oheld, echo |-> tty.echo, thre |-> tty.thre,
                 at |-> a, put |-> tty.put,
                 line |-> tty.line, typed |-> tty.typed, unsent |-> tty.unsent]
      /\ tty.at[p] = "put" /\ blocks(tty.osem)
  BY <1>1 DEF ttyputc_wait, TtyTypeOK, TtyFields
<1>3. tty.at \in [TtyUsers -> TtyPoints] /\ p \in TtyUsers /\ p \notin TtyReaders
  BY TtySizes DEF TtyTypeOK, TtyFields
<1>4. a \in [TtyUsers -> TtyPoints] /\ \A q \in TtyUsers \ {p} : a[q] = tty.at[q]
  BY <1>1, <1>3 DEF TtyPoints
<1>5. TtyTypeOK'
  BY <1>2, <1>4 DEF TtyTypeOK, TtyFields
<1>6. ASSUME InputIInv PROVE InputIInv'
  BY <1>2, <1>3, <1>4, <1>6, InputSame, TtySizes
<1>7. ASSUME OutputIInv PROVE OutputIInv'
  <2>1. /\ Waiters(d, TtyWriters, a) /\ counted(d) = counted(tty.osem)
        /\ Cardinality(going(TtyWriters, a)) = Cardinality(going(TtyWriters, tty.at))
    <3>1. Waiters(tty.osem, TtyWriters, tty.at)
      BY <1>7 DEF OutputIInv, OutputCounted
    <3>2. tty.at[p] \notin {"wait", "go_on"} /\ blocks(tty.osem)
      BY <1>2
    <3>3. a[p] = "wait" /\ \A q \in TtyWriters \ {p} : a[q] = tty.at[q]
      BY <1>1, <1>3, TtySizes
    <3>4. d = waited(tty.osem, p)
      BY <1>1
    <3>5. /\ Waiters(waited(tty.osem, p), TtyWriters, a) /\ counted(waited(tty.osem, p)) = counted(tty.osem)
          /\ Cardinality(going(TtyWriters, a)) = Cardinality(going(TtyWriters, tty.at))
      BY <3>1, <3>2, <3>3, QueueJoined
    <3> QED
      BY <3>4, <3>5
  <2>2. OutputHeld'
    <3>1. \A q \in TtyWriters : a[q] # "idle" => tty.put[q] # << >>
      BY <1>2, <1>4, <1>7, TtySizes DEF OutputIInv, OutputHeld
    <3> QED
      BY <1>2, <1>7, <3>1 DEF OutputIInv, OutputHeld
  <2>3. tty'.osem = d /\ tty'.at = a /\ tty'.unsent = tty.unsent
    BY <1>2
  <2>4. OutputCounted'
    BY <1>7, <2>1, <2>3 DEF OutputIInv, OutputCounted
  <2> QED
    BY <2>2, <2>4 DEF OutputIInv
<1>8. ASSUME NoOutputStalls PROVE NoOutputStalls'
  BY <1>2, <1>8 DEF NoOutputStalls
<1> QED
  BY <1>5, <1>6, <1>7, <1>8

(* ttyputc stores a character: there is a cell, since one is counted or    *)
(* was promised.                                                           *)
LEMMA PutStores ==
  ASSUME TtyTypeOK, NEW p \in TtyWriters, ttyputc_store(p)
  PROVE  /\ TtyTypeOK'
         /\ InputIInv => InputIInv'
         /\ OutputIInv => OutputIInv'
         /\ NoOutputStalls'
<1>1. PICK ch, d, a, b, w, v : /\ ch = Head(tty.put[p])
                    /\ d = (IF tty.at[p] = "put" THEN waited(tty.osem, p) ELSE tty.osem)
                    /\ v = (IF Len(tty.put[p]) = 1 THEN "idle" ELSE "put")
                    /\ a = [tty.at EXCEPT ![p] = v] /\ w = [tty.put EXCEPT ![p] = Tail(@)]
                    /\ b = [tty.obuff EXCEPT ![tty.otail] = ch]
  OBVIOUS
<1>2. /\ tty' = [ibuff |-> tty.ibuff, ihead |-> tty.ihead, itail |-> tty.itail,
                 icursor |-> tty.icursor, isem |-> tty.isem,
                 obuff |-> b, ohead |-> tty.ohead, otail |-> wrapped(tty.otail + 1, TY_OBUFLEN),
                 osem |-> d, oheld |-> tty.oheld, echo |-> tty.echo, thre |-> TRUE,
                 at |-> a, put |-> w,
                 line |-> tty.line, typed |-> tty.typed, unsent |-> Append(tty.unsent, ch)]
      /\ tty.at[p] = "go_on" \/ (tty.at[p] = "put" /\ ~blocks(tty.osem))
  <2>1. tty = TtyFields
    BY DEF TtyTypeOK
  <2> QED
    BY <1>1, <2>1, ZenonT(60) DEF ttyputc_store, TtyFields
<1>3. /\ tty.at \in [TtyUsers -> TtyPoints] /\ p \in TtyUsers /\ p \notin TtyReaders
      /\ v \in TtyPoints \ {"wait", "go_on"}
  BY <1>1, TtySizes DEF TtyTypeOK, TtyFields, TtyPoints
<1>4. a \in [TtyUsers -> TtyPoints] /\ a[p] = v /\ \A q \in TtyUsers \ {p} : a[q] = tty.at[q]
  BY <1>1, <1>3
<1>5. TtyTypeOK'
  BY <1>2, <1>4 DEF TtyTypeOK, TtyFields
<1>6. ASSUME InputIInv PROVE InputIInv'
  BY <1>2, <1>3, <1>4, <1>6, InputSame, TtySizes
<1>7. ASSUME OutputIInv PROVE OutputIInv'
  <2>1. /\ tty.put \in [TtyWriters -> Seq(TtyWritten)] /\ tty.put[p] # << >>
        /\ tty.unsent \in Seq(TtyWritten) /\ tty.obuff \in [0 .. TY_OBUFLEN - 1 -> TtyWritten]
        /\ IsRing(tty.obuff, tty.ohead, tty.otail, tty.unsent, TY_OBUFLEN)
    BY <1>2, <1>7 DEF OutputIInv, OutputHeld
  <2>2. PICK c, g, n : /\ c = counted(tty.osem) /\ g = Cardinality(going(TtyWriters, tty.at))
                       /\ n = Len(tty.unsent)
    OBVIOUS
  <2>a. Waiters(tty.osem, TtyWriters, tty.at)
    BY <1>7 DEF OutputIInv, OutputCounted
  <2>b. c \in Nat /\ g \in Nat /\ n \in Nat /\ c + n + g = TY_OBUFLEN
    <3>1. c \in Nat /\ g \in Nat
      BY <2>2, <2>a, GoingFinite, CountedNat, TtySizes DEF Waiters
    <3>2. n \in Nat
      BY <2>1, <2>2
    <3> QED
      BY <1>7, <2>2, <3>1, <3>2 DEF OutputIInv, OutputCounted
  <2>3. /\ Waiters(d, TtyWriters, a) /\ n < TY_OBUFLEN
        /\ counted(d) + (n + 1) + Cardinality(going(TtyWriters, a)) = TY_OBUFLEN
    <3>1. CASE tty.at[p] = "go_on"
      <4>1. /\ Waiters(tty.osem, TtyWriters, a) /\ g > 0
            /\ Cardinality(going(TtyWriters, a)) = g - 1 /\ d = tty.osem
        <5>1. a[p] \notin {"wait", "go_on"} /\ \A q \in TtyWriters \ {p} : a[q] = tty.at[q]
          BY <1>3, <1>4, TtySizes
        <5>2. /\ Waiters(tty.osem, TtyWriters, a)
              /\ Cardinality(going(TtyWriters, tty.at)) \in Nat \ {0}
              /\ Cardinality(going(TtyWriters, a)) = Cardinality(going(TtyWriters, tty.at)) - 1
          BY <2>a, <3>1, <5>1, QueueWent, TtySizes
        <5>3. d = tty.osem
          BY <1>1, <3>1
        <5> QED
          BY <2>2, <5>2, <5>3
      <4>2. c + (n + 1) + (g - 1) = TY_OBUFLEN /\ n < TY_OBUFLEN
        BY <2>b, <4>1
      <4> QED
        BY <2>2, <4>1, <4>2
    <3>2. CASE tty.at[p] = "put" /\ ~blocks(tty.osem)
      <4>1. /\ Waiters(d, TtyWriters, a) /\ c > 0 /\ counted(d) = c - 1
            /\ Cardinality(going(TtyWriters, a)) = g
        <5>1. d = waited(tty.osem, p) /\ a[p] \notin {"wait", "go_on"} /\ \A q \in TtyWriters \ {p} : a[q] = tty.at[q]
          BY <1>1, <1>3, <1>4, <3>2, TtySizes
        <5>2. tty.at[p] \notin {"wait", "go_on"} /\ ~blocks(tty.osem)
          BY <3>2
        <5>3. /\ Waiters(waited(tty.osem, p), TtyWriters, a) /\ counted(tty.osem) \in Nat \ {0}
              /\ counted(waited(tty.osem, p)) = counted(tty.osem) - 1
              /\ Cardinality(going(TtyWriters, a)) = Cardinality(going(TtyWriters, tty.at))
          BY <2>a, <5>1, <5>2, QueuePassed
        <5> QED
          BY <2>2, <5>1, <5>3
      <4>2. (c - 1) + (n + 1) + g = TY_OBUFLEN /\ n < TY_OBUFLEN
        BY <2>b, <4>1
      <4> QED
        BY <2>2, <4>1, <4>2
    <3> QED
      BY <1>2, <3>1, <3>2
  <2>4. ch \in TtyWritten /\ Tail(tty.put[p]) \in Seq(TtyWritten) /\ (v = "put" => Tail(tty.put[p]) # << >>)
    <3>1. PICK s : s = tty.put[p] /\ s \in Seq(TtyWritten) /\ s # << >>
      BY <2>1
    <3>a. Head(s) \in TtyWritten /\ Tail(s) \in Seq(TtyWritten) /\ Len(Tail(s)) = Len(s) - 1 /\ Len(s) \in Nat
      BY <3>1, HeadTailProperties
    <3>b. Len(<< >>) = 0
      OBVIOUS
    <3>2. Head(s) \in TtyWritten /\ Tail(s) \in Seq(TtyWritten) /\ (Len(s) # 1 => Tail(s) # << >>)
      <4>1. Tail(s) = << >> => Len(s) = 1
        <5>1. Tail(s) = << >> => Len(Tail(s)) = 0
          BY <3>b, Zenon
        <5> QED
          BY <3>a, <5>1
      <4> QED
        BY <3>a, <4>1
    <3> QED
      BY <1>1, <3>1, <3>2
  <2>5. /\ w \in [TtyWriters -> Seq(TtyWritten)] /\ w[p] = Tail(tty.put[p])
        /\ \A q \in TtyWriters \ {p} : w[q] = tty.put[q]
    BY <1>1, <2>1, <2>4
  <2>6. IsRing(b, tty.ohead, wrapped(tty.otail + 1, TY_OBUFLEN), Append(tty.unsent, ch), TY_OBUFLEN)
    <3>1. 0 .. TY_OBUFLEN - 1 \subseteq 0 .. TY_OBUFLEN - 1 /\ Len(tty.unsent) < TY_OBUFLEN
      BY <2>2, <2>3
    <3> QED
      BY <1>1, <2>1, <2>4, <3>1, RingStored, TtySizes
  <2>7. OutputHeld'
    <3>1. \A q \in TtyWriters : a[q] # "idle" => w[q] # << >>
      BY <1>1, <1>4, <1>7, <2>4, <2>5, TtySizes DEF OutputIInv, OutputHeld
    <3>2. b \in [0 .. TY_OBUFLEN - 1 -> TtyWritten] /\ Append(tty.unsent, ch) \in Seq(TtyWritten)
      <4>1. b \in [0 .. TY_OBUFLEN - 1 -> TtyWritten]
        BY <1>1, <2>1, <2>4
      <4>2. Append(tty.unsent, ch) \in Seq(TtyWritten)
        BY <2>1, <2>4
      <4> QED
        BY <4>1, <4>2
    <3>3. /\ tty'.obuff = b /\ tty'.ohead = tty.ohead /\ tty'.otail = wrapped(tty.otail + 1, TY_OBUFLEN)
          /\ tty'.unsent = Append(tty.unsent, ch) /\ tty'.put = w /\ tty'.at = a
      BY <1>2
    <3> QED
      BY <2>5, <2>6, <3>1, <3>2, <3>3 DEF OutputHeld
  <2>8. OutputCounted'
    <3>1. tty'.osem = d /\ tty'.at = a /\ tty'.unsent = Append(tty.unsent, ch)
      BY <1>2
    <3>2. Len(Append(tty.unsent, ch)) = n + 1
      BY <2>1, <2>2, <2>4
    <3> QED
      BY <2>3, <3>1, <3>2 DEF OutputCounted
  <2> QED
    BY <2>7, <2>8 DEF OutputIInv
<1>8. NoOutputStalls'
  BY <1>2 DEF NoOutputStalls
<1> QED
  BY <1>5, <1>6, <1>7, <1>8

(* The lesser of two numbers.                                              *)
LEMMA Least ==
  ASSUME NEW m \in Nat, NEW n \in Nat
  PROVE  least(m, n) \in Nat /\ least(m, n) <= m /\ least(m, n) <= n
BY DEF least

(* The UART's interrupt sends from the ring what it takes from the count.  *)
LEMMA OutSound ==
  ASSUME TtyTypeOK, OutputIInv, ttyhandle_out, "oversend" \notin Unhandled
  PROVE  /\ TtyTypeOK'
         /\ InputIInv => InputIInv'
         /\ OutputIInv'
         /\ NoOutputStalls => NoOutputStalls'
<1>1. PICK e, n, o, s, a, u :
        /\ e = least(tty.echo, UART_FIFO_SIZE)
        /\ n = least(UART_FIFO_SIZE - e, TY_OBUFLEN - tty.osem.scount)
        /\ o = sent(tty.obuff, n) /\ s = signalledn(tty.osem, n)
        /\ a = at_after(tty.osem, n) /\ u = SubSeq(tty.unsent, n + 1, Len(tty.unsent))
  OBVIOUS
<1>2. /\ Waiters(tty.osem, TtyWriters, tty.at) /\ tty.unsent \in Seq(TtyWritten)
      /\ tty.obuff \in [0 .. TY_OBUFLEN - 1 -> TtyWritten]
      /\ IsRing(tty.obuff, tty.ohead, tty.otail, tty.unsent, TY_OBUFLEN)
      /\ counted(tty.osem) + Len(tty.unsent) + Cardinality(going(TtyWriters, tty.at)) = TY_OBUFLEN
      /\ tty.at \in [TtyUsers -> TtyPoints]
  BY DEF TtyTypeOK, TtyFields, OutputIInv, OutputCounted, OutputHeld
<1>3. PICK c, g, l : /\ c = counted(tty.osem) /\ g = Cardinality(going(TtyWriters, tty.at))
                     /\ l = Len(tty.unsent)
  OBVIOUS
<1>4. c \in Nat /\ g \in Nat /\ l \in Nat /\ c + l + g = TY_OBUFLEN /\ TY_OBUFLEN \in Nat
  <2>1. c \in Nat /\ g \in Nat
    BY <1>2, <1>3, GoingFinite, CountedNat, TtySizes DEF Waiters
  <2>2. l \in Nat
    BY <1>2, <1>3
  <2> QED
    BY <1>2, <1>3, <2>1, <2>2, TtySizes
<1>5. tty.osem.scount \in Int /\ tty.osem.scount <= c
  BY <1>2, <1>3 DEF Waiters, IsSem, SemEntries, counted
<1>6. CASE tty.oheld \/ (tty.echo = 0 /\ tty.osem.scount >= TY_OBUFLEN)
  <2>1. /\ tty' = [ibuff |-> tty.ibuff, ihead |-> tty.ihead, itail |-> tty.itail,
                   icursor |-> tty.icursor, isem |-> tty.isem,
                   obuff |-> tty.obuff, ohead |-> tty.ohead, otail |-> tty.otail,
                   osem |-> tty.osem, oheld |-> tty.oheld, echo |-> tty.echo, thre |-> FALSE,
                   at |-> tty.at, put |-> tty.put,
                   line |-> tty.line, typed |-> tty.typed, unsent |-> tty.unsent]
    BY <1>6 DEF ttyhandle_out, TtyTypeOK, TtyFields
  <2>2. TtyTypeOK' /\ OutputIInv'
    BY <1>2, <2>1, OutputSame DEF TtyTypeOK, TtyFields
  <2>3. InputIInv => InputIInv'
    BY <2>1, InputSame
  <2>4. ~tty.oheld => tty.unsent = << >>
    <3>1. ~tty.oheld => l = 0
      BY <1>4, <1>5, <1>6
    <3> QED
      BY <1>2, <1>3, <3>1
  <2>5. NoOutputStalls'
    <3>1. tty'.oheld = tty.oheld /\ tty'.echo = tty.echo /\ tty'.unsent = tty.unsent
      BY <2>1
    <3>2. tty.oheld \/ (tty.echo = 0 /\ tty.unsent = << >>)
      BY <1>6, <2>4
    <3> QED
      BY <3>1, <3>2 DEF NoOutputStalls, TtyTypeOK, TtyFields
  <2> QED
    BY <2>2, <2>3, <2>5
<1>7. CASE ~tty.oheld /\ ~(tty.echo = 0 /\ tty.osem.scount >= TY_OBUFLEN)
  <2>1. /\ tty' = [ibuff |-> tty.ibuff, ihead |-> tty.ihead, itail |-> tty.itail,
                   icursor |-> tty.icursor, isem |-> tty.isem,
                   obuff |-> o, ohead |-> (tty.ohead + n) % TY_OBUFLEN, otail |-> tty.otail,
                   osem |-> s, oheld |-> tty.oheld, echo |-> tty.echo - e, thre |-> tty.thre,
                   at |-> a, put |-> tty.put,
                   line |-> tty.line, typed |-> tty.typed, unsent |-> u]
        /\ n <= l /\ tty.thre
    <3>1. tty = TtyFields
      BY DEF TtyTypeOK
    <3> QED
      BY <1>1, <1>3, <1>7, <3>1, ZenonT(60) DEF ttyhandle_out, TtyFields
  <2>2. e \in Nat /\ e <= tty.echo /\ e <= UART_FIFO_SIZE /\ tty.echo - e \in Nat /\ tty.echo \in Nat
    <3>1. tty.echo \in Nat
      BY DEF TtyTypeOK, TtyFields
    <3>2. e \in Nat /\ e <= tty.echo /\ e <= UART_FIFO_SIZE
      BY <1>1, <3>1, TtySizes, Least
    <3> QED
      BY <3>1, <3>2
  <2>3. n \in Nat /\ n \in 0 .. l
    <3>1. UART_FIFO_SIZE - e \in Nat /\ TY_OBUFLEN - tty.osem.scount \in Nat
      BY <1>4, <1>5, <2>2, TtySizes
    <3>2. n \in Nat
      BY <1>1, <3>1, Least
    <3> QED
      BY <1>4, <2>1, <3>2
  <2>4. /\ Waiters(s, TtyWriters, a)
        /\ a \in [TtyUsers -> TtyPoints]
        /\ \A q \in TtyUsers \ TtyWriters : a[q] = tty.at[q]
        /\ \A q \in TtyWriters : a[q] = tty.at[q] \/ (tty.at[q] = "wait" /\ a[q] = "go_on")
        /\ counted(s) + Cardinality(going(TtyWriters, a)) = counted(tty.osem) + Cardinality(going(TtyWriters, tty.at)) + n
    BY <1>1, <1>2, <2>3, TtySignalled, TtySizes
  <2>5. TtyTypeOK'
    BY <2>1, <2>2, <2>4 DEF TtyTypeOK, TtyFields
  <2>6. InputIInv => InputIInv'
    BY <2>1, <2>4, InputSame, TtySizes
  <2>7. u \in Seq(TtyWritten) /\ Len(u) = l - n
    <3>1. n + 1 \in 1 .. Len(tty.unsent) + 1
      BY <1>3, <1>4, <2>3
    <3>2. /\ u \in Seq(TtyWritten)
          /\ Len(u) = IF n + 1 <= Len(tty.unsent) THEN Len(tty.unsent) - (n + 1) + 1 ELSE 0
      BY <1>1, <1>2, <3>1, SubSeqProperties
    <3> QED
      BY <1>3, <1>4, <2>3, <3>2
  <2>8. /\ o \in [0 .. TY_OBUFLEN - 1 -> TtyWritten]
        /\ \A k \in 0 .. TY_OBUFLEN - 1 : (k - tty.ohead + TY_OBUFLEN) % TY_OBUFLEN >= n => o[k] = tty.obuff[k]
    <3>1. o = [k \in 0 .. TY_OBUFLEN - 1 |-> IF (k - tty.ohead + TY_OBUFLEN) % TY_OBUFLEN < n THEN "letter" ELSE tty.obuff[k]]
      BY <1>1, <1>2 DEF sent
    <3>2. tty.ohead \in 0 .. TY_OBUFLEN - 1 /\ n \in Nat
      BY <1>2, <2>3 DEF IsRing
    <3>3. o \in [0 .. TY_OBUFLEN - 1 -> TtyWritten]
      BY <1>2, <3>1 DEF TtyWritten
    <3>4. ASSUME NEW k \in 0 .. TY_OBUFLEN - 1, (k - tty.ohead + TY_OBUFLEN) % TY_OBUFLEN >= n
          PROVE  o[k] = tty.obuff[k]
      <4>1. PICK x : x = (k - tty.ohead + TY_OBUFLEN) % TY_OBUFLEN
        OBVIOUS
      <4>2. x \in Int
        <5>1. k - tty.ohead + TY_OBUFLEN \in Int
          BY <3>2, TtySizes
        <5> QED
          BY <4>1, <5>1, TtySizes
      <4>3. ~(x < n)
        BY <3>2, <3>4, <4>1, <4>2
      <4> QED
        BY <3>1, <4>1, <4>3
    <3> QED
      BY <3>3, <3>4
  <2>9. IsRing(o, (tty.ohead + n) % TY_OBUFLEN, tty.otail, u, TY_OBUFLEN)
    <3>1. n \in 0 .. Len(tty.unsent)
      BY <1>3, <2>3
    <3>2. /\ tty.obuff \in [0 .. TY_OBUFLEN - 1 -> TtyWritten] /\ tty.unsent \in Seq(TtyWritten)
          /\ IsRing(tty.obuff, tty.ohead, tty.otail, tty.unsent, TY_OBUFLEN)
      BY <1>2
    <3>3. TY_OBUFLEN \in Nat \ {0}
      BY TtySizes
    <3>4. IsRing(o, (tty.ohead + n) % TY_OBUFLEN, tty.otail, SubSeq(tty.unsent, n + 1, Len(tty.unsent)), TY_OBUFLEN)
      BY <2>8, <3>1, <3>2, <3>3, RingSent
    <3> QED
      BY <1>1, <3>4
  <2>10. OutputHeld'
    <3>1. \A q \in TtyWriters : a[q] # "idle" => tty.put[q] # << >>
      <4> SUFFICES ASSUME NEW q \in TtyWriters, a[q] # "idle" PROVE tty.at[q] # "idle"
        BY DEF OutputIInv, OutputHeld
      <4>1. CASE a[q] = tty.at[q]
        BY <4>1
      <4>2. CASE a[q] # tty.at[q]
        <5>1. tty.at[q] = "wait"
          BY <2>4, <4>2
        <5> QED
          BY <5>1
      <4> QED
        BY <4>1, <4>2
    <3> QED
      BY <2>1, <2>7, <2>8, <2>9, <3>1 DEF OutputIInv, OutputHeld
  <2>11. OutputCounted'
    <3>1. tty'.osem = s /\ tty'.at = a /\ tty'.unsent = u
      BY <2>1
    <3>2. PICK x, y : x = counted(s) /\ y = Cardinality(going(TtyWriters, a))
      OBVIOUS
    <3>3. x \in Nat /\ y \in Nat /\ x + y = c + g + n
      BY <1>3, <2>4, <3>2, GoingFinite, CountedNat, TtySizes DEF Waiters
    <3>4. x + (l - n) + y = TY_OBUFLEN
      BY <1>4, <2>3, <3>3
    <3> QED
      BY <2>4, <2>7, <3>1, <3>2, <3>4 DEF OutputCounted
  <2>12. NoOutputStalls'
    BY <2>1 DEF NoOutputStalls
  <2> QED
    BY <2>5, <2>6, <2>10, <2>11, <2>12 DEF OutputIInv
<1> QED
  BY <1>6, <1>7

(* A character that changes no ring, or nothing but the flags.             *)
LEMMA FlagsSound ==
  ASSUME TtyTypeOK, NEW held \in BOOLEAN, NEW n \in Nat, NEW t \in BOOLEAN,
         tty' = [ibuff |-> tty.ibuff, ihead |-> tty.ihead, itail |-> tty.itail,
                 icursor |-> tty.icursor, isem |-> tty.isem, obuff |-> tty.obuff,
                 ohead |-> tty.ohead, otail |-> tty.otail, osem |-> tty.osem,
                 oheld |-> held, echo |-> n, thre |-> t, at |-> tty.at,
                 put |-> tty.put, line |-> tty.line, typed |-> tty.typed,
                 unsent |-> tty.unsent]
  PROVE  /\ TtyTypeOK'
         /\ InputIInv => InputIInv'
         /\ OutputIInv => OutputIInv'
<1>1. TtyTypeOK'
  BY DEF TtyTypeOK, TtyFields
<1>2. ASSUME InputIInv PROVE InputIInv'
  BY <1>2, InputSame
<1>3. ASSUME OutputIInv PROVE OutputIInv'
  BY <1>3, OutputSame
<1> QED
  BY <1>1, <1>2, <1>3

(* What an echo changes, field by field.                                   *)
LEMMA WithEcho ==
  ASSUME TtyTypeOK
  PROVE  /\ with_echo = [ibuff |-> tty.ibuff, ihead |-> tty.ihead,
                         itail |-> tty.itail, icursor |-> tty.icursor,
                         isem |-> tty.isem, obuff |-> tty.obuff, ohead |-> tty.ohead,
                         otail |-> tty.otail, osem |-> tty.osem, oheld |-> FALSE,
                         echo |-> tty.echo + 1, thre |-> TRUE, at |-> tty.at,
                         put |-> tty.put, line |-> tty.line, typed |-> tty.typed,
                         unsent |-> tty.unsent]
         /\ tty.echo + 1 \in Nat
<1>1. tty.echo + 1 \in Nat
  BY DEF TtyTypeOK, TtyFields
<1>2. PICK r, e : r = with_echo /\ e = tty.echo + 1
  OBVIOUS
<1>3. r = [ibuff |-> tty.ibuff, ihead |-> tty.ihead, itail |-> tty.itail,
           icursor |-> tty.icursor, isem |-> tty.isem, obuff |-> tty.obuff,
           ohead |-> tty.ohead, otail |-> tty.otail, osem |-> tty.osem,
           oheld |-> FALSE, echo |-> e, thre |-> TRUE, at |-> tty.at,
           put |-> tty.put, line |-> tty.line, typed |-> tty.typed,
           unsent |-> tty.unsent]
  BY <1>2 DEF with_echo, TtyTypeOK, TtyFields
<1> QED
  BY <1>1, <1>2, <1>3

(* The characters that change neither ring keep the invariant.             *)
LEMMA CharactersKept ==
  ASSUME TtyTypeOK, ttyhandle_start \/ ttyhandle_stop \/ ttyhandle_erase_nothing \/ ttyhandle_full
                    \/ (ttyhandle_eof /\ tty.icursor # 0)
  PROVE  /\ TtyTypeOK'
         /\ InputIInv => InputIInv'
         /\ OutputIInv => OutputIInv'
         /\ "silent_start" \notin Unhandled /\ NoOutputStalls => NoOutputStalls'
<1>1. PICK held \in BOOLEAN, n \in Nat, t \in BOOLEAN :
        /\ tty' = [ibuff |-> tty.ibuff, ihead |-> tty.ihead, itail |-> tty.itail,
                   icursor |-> tty.icursor, isem |-> tty.isem, obuff |-> tty.obuff,
                   ohead |-> tty.ohead, otail |-> tty.otail, osem |-> tty.osem,
                   oheld |-> held, echo |-> n, thre |-> t, at |-> tty.at,
                   put |-> tty.put, line |-> tty.line, typed |-> tty.typed,
                   unsent |-> tty.unsent]
        /\ \/ t = TRUE \/ held = TRUE
           \/ t = tty.thre /\ held = FALSE /\ n = tty.echo /\ (~tty.oheld \/ "silent_start" \in Unhandled)
  <2>1. CASE ttyhandle_start
    <3>1. tty' = [ibuff |-> tty.ibuff, ihead |-> tty.ihead, itail |-> tty.itail,
                  icursor |-> tty.icursor, isem |-> tty.isem, obuff |-> tty.obuff,
                  ohead |-> tty.ohead, otail |-> tty.otail, osem |-> tty.osem,
                  oheld |-> FALSE, echo |-> tty.echo, thre |-> TRUE, at |-> tty.at,
                  put |-> tty.put, line |-> tty.line, typed |-> tty.typed,
                  unsent |-> tty.unsent]
      BY <2>1 DEF ttyhandle_start, TtyTypeOK, TtyFields
    <3> QED
      BY <3>1 DEF TtyTypeOK, TtyFields
  <2>2. CASE ttyhandle_stop
    <3>1. tty' = [ibuff |-> tty.ibuff, ihead |-> tty.ihead, itail |-> tty.itail,
                  icursor |-> tty.icursor, isem |-> tty.isem, obuff |-> tty.obuff,
                  ohead |-> tty.ohead, otail |-> tty.otail, osem |-> tty.osem,
                  oheld |-> TRUE, echo |-> tty.echo, thre |-> tty.thre,
                  at |-> tty.at, put |-> tty.put, line |-> tty.line,
                  typed |-> tty.typed, unsent |-> tty.unsent]
      BY <2>2 DEF ttyhandle_stop, TtyTypeOK, TtyFields
    <3> QED
      BY <3>1 DEF TtyTypeOK, TtyFields
  <2>3. CASE ttyhandle_erase_nothing
    <3>1. tty' = [ibuff |-> tty.ibuff, ihead |-> tty.ihead, itail |-> tty.itail,
                  icursor |-> tty.icursor, isem |-> tty.isem, obuff |-> tty.obuff,
                  ohead |-> tty.ohead, otail |-> tty.otail, osem |-> tty.osem,
                  oheld |-> FALSE, echo |-> tty.echo, thre |-> tty.thre,
                  at |-> tty.at, put |-> tty.put, line |-> tty.line,
                  typed |-> tty.typed, unsent |-> tty.unsent]
      BY <2>3 DEF ttyhandle_erase_nothing, TtyTypeOK, TtyFields
    <3> QED
      BY <2>3, <3>1 DEF TtyTypeOK, TtyFields, ttyhandle_erase_nothing
  <2>4. CASE ttyhandle_full \/ (ttyhandle_eof /\ tty.icursor # 0)
    <3>1. tty' = [ibuff |-> tty.ibuff, ihead |-> tty.ihead, itail |-> tty.itail,
                  icursor |-> tty.icursor, isem |-> tty.isem, obuff |-> tty.obuff,
                  ohead |-> tty.ohead, otail |-> tty.otail, osem |-> tty.osem,
                  oheld |-> FALSE, echo |-> tty.echo + 1, thre |-> TRUE,
                  at |-> tty.at, put |-> tty.put, line |-> tty.line,
                  typed |-> tty.typed, unsent |-> tty.unsent]
      BY <2>4, WithEcho DEF ttyhandle_full, ttyhandle_eof
    <3> QED
      BY <3>1, WithEcho DEF TtyTypeOK, TtyFields
  <2> QED
    BY <2>1, <2>2, <2>3, <2>4
<1>2. /\ TtyTypeOK'
      /\ InputIInv => InputIInv'
      /\ OutputIInv => OutputIInv'
  BY <1>1, FlagsSound
<1>3. ASSUME "silent_start" \notin Unhandled, NoOutputStalls PROVE NoOutputStalls'
  BY <1>1, <1>3 DEF NoOutputStalls
<1> QED
  BY <1>2, <1>3

(* Erase and kill take characters off the line being typed.                *)
LEMMA LineCut ==
  ASSUME TtyTypeOK, ttyhandle_erase \/ ttyhandle_kill
  PROVE  /\ TtyTypeOK'
         /\ InputIInv => InputIInv'
         /\ OutputIInv => OutputIInv'
         /\ NoOutputStalls'
<1>1. PICK n, i, l : /\ tty' = [ibuff |-> tty.ibuff, ihead |-> tty.ihead,
                               itail |-> moved_back(n), icursor |-> i,
                               isem |-> tty.isem, obuff |-> tty.obuff,
                               ohead |-> tty.ohead, otail |-> tty.otail,
                               osem |-> tty.osem, oheld |-> FALSE,
                               echo |-> tty.echo + 1, thre |-> TRUE, at |-> tty.at,
                               put |-> tty.put, line |-> l, typed |-> tty.typed,
                               unsent |-> tty.unsent]
                     /\ \/ n = 1 /\ tty.icursor > 0 /\ i = tty.icursor - 1 /\ l = Front(tty.line)
                        \/ n = tty.icursor /\ i = 0 /\ l = << >>
  <2>1. CASE ttyhandle_erase
    <3>0. PICK e, b, c, f : /\ e = tty.echo + 1 /\ b = moved_back(1)
                            /\ c = tty.icursor - 1 /\ f = Front(tty.line)
      OBVIOUS
    <3>1. tty' = [ibuff |-> tty.ibuff, ihead |-> tty.ihead, itail |-> b,
                  icursor |-> c, isem |-> tty.isem, obuff |-> tty.obuff,
                  ohead |-> tty.ohead, otail |-> tty.otail, osem |-> tty.osem,
                  oheld |-> FALSE, echo |-> e, thre |-> TRUE, at |-> tty.at,
                  put |-> tty.put, line |-> f, typed |-> tty.typed,
                  unsent |-> tty.unsent]
      BY <2>1, <3>0 DEF ttyhandle_erase, with_echo, TtyTypeOK, TtyFields
    <3> QED
      BY <2>1, <3>0, <3>1 DEF ttyhandle_erase
  <2>2. CASE ttyhandle_kill
    <3>0. PICK e, b, c, f : /\ e = tty.echo + 1 /\ b = moved_back(tty.icursor)
                            /\ c = 0 /\ f = << >>
      OBVIOUS
    <3>1. tty' = [ibuff |-> tty.ibuff, ihead |-> tty.ihead, itail |-> b,
                  icursor |-> c, isem |-> tty.isem, obuff |-> tty.obuff,
                  ohead |-> tty.ohead, otail |-> tty.otail, osem |-> tty.osem,
                  oheld |-> FALSE, echo |-> e, thre |-> TRUE, at |-> tty.at,
                  put |-> tty.put, line |-> f, typed |-> tty.typed,
                  unsent |-> tty.unsent]
      BY <2>2, <3>0 DEF ttyhandle_kill, with_echo, TtyTypeOK, TtyFields
    <3> QED
      BY <3>0, <3>1
  <2> QED
    BY <2>1, <2>2
<1>2. TtyTypeOK' /\ NoOutputStalls'
  BY <1>1, WithEcho DEF TtyTypeOK, TtyFields, NoOutputStalls
<1>3. ASSUME OutputIInv PROVE OutputIInv'
  BY <1>1, <1>3, OutputSame
<1>4. ASSUME InputIInv PROVE InputIInv'
  <2>1. /\ tty.typed \in Seq(TtyTyped) /\ tty.line \in Seq(TtyTyped) /\ tty.icursor = Len(tty.line)
        /\ IsRing(tty.ibuff, tty.ihead, tty.itail, tty.typed \o tty.line, TY_IBUFLEN)
    BY <1>4 DEF InputIInv, InputHeld
  <2>2. /\ n \in Nat /\ l \in Seq(TtyTyped) /\ Len(tty.line) = Len(l) + n /\ i = Len(l)
        /\ \A k \in 1 .. Len(l) : l[k] = tty.line[k]
    <3>1. CASE n = 1 /\ tty.icursor > 0 /\ i = tty.icursor - 1 /\ l = Front(tty.line)
      <4>1. tty.line # << >>
        BY <2>1, <3>1
      <4>2. PICK q, m : q = tty.line /\ m = Len(q) - 1 /\ q \in Seq(TtyTyped) /\ m \in Nat
        BY <2>1, <4>1
      <4>3. l = SubSeq(q, 1, m)
        BY <3>1, <4>2 DEF Front
      <4>4. /\ l \in Seq(TtyTyped) /\ Len(l) = m /\ \A k \in 1 .. m : l[k] = q[k]
        BY <4>2, <4>3, SubSeqProperties
      <4>5. i = m /\ Len(tty.line) = m + 1
        BY <2>1, <3>1, <4>2
      <4> QED
        BY <3>1, <4>2, <4>4, <4>5
    <3>2. CASE n = tty.icursor /\ i = 0 /\ l = << >>
      BY <2>1, <3>2
    <3> QED
      BY <1>1, <3>1, <3>2
  <2>3. PICK s, t : s = tty.typed \o tty.line /\ t = tty.typed \o l
    OBVIOUS
  <2>4. /\ s \in Seq(TtyTyped) /\ t \in Seq(TtyTyped) /\ Len(s) = Len(t) + n
        /\ \A k \in 1 .. Len(t) : t[k] = s[k]
    <3>1. PICK m : m = Len(tty.typed) /\ m \in Nat
      BY <2>1
    <3>2. /\ s \in Seq(TtyTyped) /\ Len(s) = m + Len(tty.line)
          /\ \A k \in 1 .. m + Len(tty.line) : s[k] = IF k <= m THEN tty.typed[k] ELSE tty.line[k - m]
      BY <2>1, <2>3, <3>1, ConcatProperties
    <3>3. /\ t \in Seq(TtyTyped) /\ Len(t) = m + i
          /\ \A k \in 1 .. m + i : t[k] = IF k <= m THEN tty.typed[k] ELSE l[k - m]
      BY <2>1, <2>2, <2>3, <3>1, ConcatProperties
    <3>4. i \in Nat /\ n \in Nat /\ Len(tty.line) = i + n
      BY <2>2
    <3>0. m \in Nat /\ i \in Nat /\ n \in Nat
      BY <3>1, <3>4
    <3>5. ASSUME NEW k \in 1 .. m + i PROVE t[k] = s[k]
      <4>1. k \in 1 .. m + Len(tty.line)
        <5>1. k \in 1 .. m + (i + n)
          BY <3>0
        <5> QED
          BY <3>4, <5>1
      <4>2. ~(k <= m) => k - m \in 1 .. Len(l)
        BY <2>2, <3>1, <3>4
      <4> QED
        BY <2>2, <3>2, <3>3, <4>1, <4>2
    <3>6. Len(s) = Len(t) + n
      <4>1. m + (i + n) = (m + i) + n
        BY <3>0
      <4>2. Len(s) = m + (i + n) /\ Len(t) = m + i
        BY <3>2, <3>3, <3>4
      <4> QED
        BY <4>1, <4>2
    <3> QED
      BY <3>2, <3>3, <3>5, <3>6
  <2>5. IsRing(tty.ibuff, tty.ihead, moved_back(n), t, TY_IBUFLEN)
    <3>1. IsRing(tty.ibuff, tty.ihead, IF tty.itail - n < 0 THEN tty.itail - n + TY_IBUFLEN ELSE tty.itail - n, t, TY_IBUFLEN)
      <4>1. IsRing(tty.ibuff, tty.ihead, tty.itail, s, TY_IBUFLEN)
        BY <2>1, <2>3
      <4>2. n \in Nat
        BY <2>2
      <4>3. TY_IBUFLEN \in Nat \ {0}
        BY TtySizes
      <4> QED
        BY <2>4, <4>1, <4>2, <4>3, RingCut
    <3> QED
      BY <3>1 DEF moved_back
  <2>6. InputHeld'
    BY <1>1, <1>4, <2>2, <2>3, <2>5 DEF InputIInv, InputHeld
  <2>7. InputCounted'
    BY <1>1, <1>4 DEF InputIInv, InputCounted, Waiters, going
  <2> QED
    BY <2>6, <2>7 DEF InputIInv
<1> QED
  BY <1>2, <1>3, <1>4

(* What is typed and the line, as a sequence that the ring holds.          *)
LEMMA InputText ==
  ASSUME InputIInv
  PROVE  /\ tty.typed \in Seq(TtyTyped) /\ tty.line \in Seq(TtyTyped) /\ tty.icursor = Len(tty.line)
         /\ Len(tty.typed) \in Nat /\ Len(tty.line) \in Nat
         /\ tty.typed \o tty.line \in Seq(TtyTyped)
         /\ Len(tty.typed \o tty.line) = Len(tty.typed) + Len(tty.line)
         /\ tty.ibuff \in [0 .. TY_IBUFLEN -> TtyTyped]
         /\ IsRing(tty.ibuff, tty.ihead, tty.itail, tty.typed \o tty.line, TY_IBUFLEN)
<1>1. /\ tty.typed \in Seq(TtyTyped) /\ tty.line \in Seq(TtyTyped) /\ tty.icursor = Len(tty.line)
      /\ tty.ibuff \in [0 .. TY_IBUFLEN -> TtyTyped]
      /\ IsRing(tty.ibuff, tty.ihead, tty.itail, tty.typed \o tty.line, TY_IBUFLEN)
  BY DEF InputIInv, InputHeld
<1>2. Len(tty.typed) \in Nat /\ Len(tty.line) \in Nat
  BY <1>1
<1>3. /\ tty.typed \o tty.line \in Seq(TtyTyped)
      /\ Len(tty.typed \o tty.line) = Len(tty.typed) + Len(tty.line)
  BY <1>1, ConcatProperties
<1> QED
  BY <1>1, <1>2, <1>3

(* A character that ends the line is stored, the whole line becomes        *)
(* counted, and readers are let through for it.                            *)
LEMMA LineEnded ==
  ASSUME TtyTypeOK, InputIInv, OutputIInv, NEW ch \in TtyTyped,
         Len(tty.typed) + tty.icursor < TY_IBUFLEN,
         NEW b, NEW i, NEW s, NEW a, NEW y,
         b = [tty.ibuff EXCEPT ![tty.itail] = ch], i = wrapped(tty.itail + 1, TY_IBUFLEN),
         s = signalledn(tty.isem, Len(tty.line) + 1), a = at_after(tty.isem, Len(tty.line) + 1),
         y = Append(tty.typed \o tty.line, ch),
         tty' = [ibuff |-> b, ihead |-> tty.ihead, itail |-> i, icursor |-> 0,
                 isem |-> s, obuff |-> tty.obuff, ohead |-> tty.ohead,
                 otail |-> tty.otail, osem |-> tty.osem, oheld |-> FALSE,
                 echo |-> tty.echo + 1, thre |-> TRUE, at |-> a, put |-> tty.put,
                 line |-> << >>, typed |-> y, unsent |-> tty.unsent]
  PROVE  TtyTypeOK' /\ InputIInv' /\ OutputIInv' /\ NoOutputStalls'
<1>1. PICK x : x = tty.typed \o tty.line
  OBVIOUS
<1>2. PICK n, l : n = Len(tty.typed) /\ l = Len(tty.line)
  OBVIOUS
<1>3. n \in Nat /\ l \in Nat /\ n + l < TY_IBUFLEN
  BY <1>2, InputText
<1>4. x \in Seq(TtyTyped) /\ Len(x) = n + l
  BY <1>1, <1>2, InputText
<1>5. Len(x) < TY_IBUFLEN
  BY <1>3, <1>4
<1>6. y \in Seq(TtyTyped) /\ Len(y) = n + l + 1
  <2>1. y = Append(x, ch)
    BY <1>1
  <2>2. y \in Seq(TtyTyped) /\ Len(y) = Len(x) + 1
    BY <1>4, <2>1, AppendProperties
  <2> QED
    BY <1>3, <1>4, <2>2
<1>7. Waiters(tty.isem, TtyReaders, tty.at) /\ tty.at \in [TtyUsers -> TtyPoints]
  BY DEF InputIInv, InputCounted, TtyTypeOK, TtyFields
<1>8. PICK m : m = Len(tty.line) + 1 /\ m \in Nat /\ m = l + 1
  BY <1>2, <1>3
<1>9. /\ Waiters(s, TtyReaders, a)
      /\ a \in [TtyUsers -> TtyPoints]
      /\ \A q \in TtyUsers \ TtyReaders : a[q] = tty.at[q]
      /\ \A q \in TtyReaders : a[q] = tty.at[q] \/ (tty.at[q] = "wait" /\ a[q] = "go_on")
      /\ counted(s) + Cardinality(going(TtyReaders, a))
           = counted(tty.isem) + Cardinality(going(TtyReaders, tty.at)) + m
  <2>1. s = signalledn(tty.isem, m) /\ a = at_after(tty.isem, m)
    BY <1>8
  <2>2. LET d == at_after(tty.isem, m)
            e == signalledn(tty.isem, m)
        IN  /\ Waiters(e, TtyReaders, d)
            /\ d \in [TtyUsers -> TtyPoints]
            /\ \A q \in TtyUsers \ TtyReaders : d[q] = tty.at[q]
            /\ \A q \in TtyReaders : d[q] = tty.at[q] \/ (tty.at[q] = "wait" /\ d[q] = "go_on")
            /\ counted(e) + Cardinality(going(TtyReaders, d)) = counted(tty.isem) + Cardinality(going(TtyReaders, tty.at)) + m
    <3>1. TtyReaders \in SUBSET TtyUsers /\ IsFiniteSet(TtyReaders)
      BY TtySizes
    <3> QED
      BY <1>7, <1>8, <3>1, TtySignalled
  <2> QED
    BY <2>1, <2>2
<1>10. TtyTypeOK' /\ NoOutputStalls'
  <2>1. tty.echo + 1 \in Nat
    BY DEF TtyTypeOK, TtyFields
  <2>2. TtyTypeOK'
    BY <1>9, <2>1 DEF TtyTypeOK, TtyFields
  <2>3. tty'.thre = TRUE
    OBVIOUS
  <2> QED
    BY <2>2, <2>3 DEF NoOutputStalls
<1>11. OutputIInv'
  BY <1>9, OutputSame, TtySizes
<1>12. InputHeld'
  <2>1. IsRing(b, tty.ihead, i, y, TY_IBUFLEN)
    <3>1. 0 .. TY_IBUFLEN - 1 \subseteq 0 .. TY_IBUFLEN /\ TY_IBUFLEN \in Nat \ {0}
      BY TtySizes
    <3>2. tty.ibuff \in [0 .. TY_IBUFLEN -> TtyTyped]
      BY InputText
    <3>3. IsRing(tty.ibuff, tty.ihead, tty.itail, x, TY_IBUFLEN)
      BY <1>1, InputText
    <3>4. IsRing([tty.ibuff EXCEPT ![tty.itail] = ch], tty.ihead, wrapped(tty.itail + 1, TY_IBUFLEN), Append(x, ch), TY_IBUFLEN)
      BY <1>4, <1>5, <3>1, <3>2, <3>3, RingStored
    <3> QED
      BY <1>1, <3>4
  <2>2. b \in [0 .. TY_IBUFLEN -> TtyTyped]
    BY InputText
  <2>3. /\ tty'.ibuff = b /\ tty'.ihead = tty.ihead /\ tty'.itail = i /\ tty'.typed = y
        /\ tty'.line = << >> /\ tty'.icursor = 0
    OBVIOUS
  <2>4. Len(<< >>) = 0 /\ << >> \in Seq(TtyTyped)
    OBVIOUS
  <2>5. y \o << >> = y
    BY <1>6
  <2> QED
    BY <1>6, <2>1, <2>2, <2>3, <2>4, <2>5 DEF InputHeld
<1>13. InputCounted'
  <2>1. tty'.isem = s /\ tty'.at = a /\ tty'.typed = y
    OBVIOUS
  <2>2. \A q \in TtyReaders : a[q] # "put"
    BY <1>9 DEF InputIInv, InputCounted
  <2>3. counted(s) + Cardinality(going(TtyReaders, a)) = Len(y)
    <3>1. counted(tty.isem) + Cardinality(going(TtyReaders, tty.at)) = n
      BY <1>2 DEF InputIInv, InputCounted
    <3>2. counted(s) + Cardinality(going(TtyReaders, a)) = n + m
      BY <1>9, <3>1
    <3>3. n + m = n + l + 1
      BY <1>3, <1>8
    <3> QED
      BY <1>6, <3>2, <3>3
  <2> QED
    BY <1>9, <2>1, <2>2, <2>3 DEF InputCounted
<1> QED
  BY <1>10, <1>11, <1>12, <1>13 DEF InputIInv

(* Newline does that.                                                      *)
LEMMA NewlineEnds ==
  ASSUME TtyTypeOK, InputIInv, OutputIInv, "overrun" \notin Unhandled, ttyhandle_newline
  PROVE  TtyTypeOK' /\ InputIInv' /\ OutputIInv' /\ NoOutputStalls'
<1>1. tty.typed \in Seq(TtyTyped) /\ tty.line \in Seq(TtyTyped) /\ tty.icursor = Len(tty.line)
  BY InputText
<1>2. Len(tty.typed) + tty.icursor < TY_IBUFLEN
  BY DEF ttyhandle_newline, room
<1>3. "newline" \in TtyTyped
  BY DEF TtyTyped
<1>4. PICK e, m, s, a, b, i, y :
        /\ e = tty.echo + 1 /\ m = tty.icursor + 1
        /\ s = signalledn(tty.isem, m) /\ a = at_after(tty.isem, m)
        /\ b = [tty.ibuff EXCEPT ![tty.itail] = "newline"] /\ i = wrapped(tty.itail + 1, TY_IBUFLEN)
        /\ y = tty.typed \o tty.line \o << "newline" >>
  OBVIOUS
<1>5. tty' = [ibuff |-> b, ihead |-> tty.ihead, itail |-> i, icursor |-> 0,
              isem |-> s, obuff |-> tty.obuff, ohead |-> tty.ohead,
              otail |-> tty.otail, osem |-> tty.osem, oheld |-> FALSE,
              echo |-> e, thre |-> TRUE, at |-> a, put |-> tty.put,
              line |-> << >>, typed |-> y, unsent |-> tty.unsent]
  BY <1>4 DEF ttyhandle_newline, with_echo, TtyTypeOK, TtyFields
<1>6. y = Append(tty.typed \o tty.line, "newline")
  <2>1. PICK x : x = tty.typed \o tty.line /\ x \in Seq(TtyTyped)
    BY InputText
  <2>2. x \o << "newline" >> = Append(x, "newline")
    BY <1>3, <2>1, AppendIsConcat
  <2> QED
    BY <1>4, <2>1, <2>2
<1>7. /\ s = signalledn(tty.isem, Len(tty.line) + 1) /\ a = at_after(tty.isem, Len(tty.line) + 1)
  BY <1>1, <1>4
<1>8. tty' = [ibuff |-> b, ihead |-> tty.ihead, itail |-> i, icursor |-> 0,
              isem |-> s, obuff |-> tty.obuff, ohead |-> tty.ohead,
              otail |-> tty.otail, osem |-> tty.osem, oheld |-> FALSE,
              echo |-> tty.echo + 1, thre |-> TRUE, at |-> a, put |-> tty.put,
              line |-> << >>, typed |-> y, unsent |-> tty.unsent]
  BY <1>4, <1>5
<1>9. b = [tty.ibuff EXCEPT ![tty.itail] = "newline"] /\ i = wrapped(tty.itail + 1, TY_IBUFLEN)
  BY <1>4
<1> QED
  BY <1>2, <1>3, <1>6, <1>7, <1>8, <1>9, LineEnded

(* So does end of file at the beginning of a line.                         *)
LEMMA FileEnds ==
  ASSUME TtyTypeOK, InputIInv, OutputIInv, "overrun" \notin Unhandled, ttyhandle_eof, tty.icursor = 0
  PROVE  TtyTypeOK' /\ InputIInv' /\ OutputIInv' /\ NoOutputStalls'
<1>1. tty.typed \in Seq(TtyTyped) /\ tty.line \in Seq(TtyTyped) /\ Len(tty.line) = 0
  BY InputText
<1>2. tty.line = << >>
  BY <1>1
<1>3. tty.typed \o tty.line = tty.typed
  BY <1>1, <1>2
<1>4. room /\ tty.itail < TY_IBUFLEN - 1
  BY DEF ttyhandle_eof
<1>5. tty' = [with_echo EXCEPT
                !.ibuff[tty.itail] = "eof", !.itail = @ + 1, !.isem = signalledn(@, 1),
                !.at = at_after(tty.isem, 1), !.typed = Append(@, "eof")]
  BY DEF ttyhandle_eof
<1>6. Len(tty.typed) + tty.icursor < TY_IBUFLEN
  BY <1>4 DEF room
<1>7. "eof" \in TtyTyped
  BY DEF TtyTyped
<1>8. PICK e, s, a, b, i, y :
        /\ e = tty.echo + 1
        /\ s = signalledn(tty.isem, 1) /\ a = at_after(tty.isem, 1)
        /\ b = [tty.ibuff EXCEPT ![tty.itail] = "eof"] /\ i = tty.itail + 1
        /\ y = Append(tty.typed, "eof")
  OBVIOUS
<1>9. tty' = [ibuff |-> b, ihead |-> tty.ihead, itail |-> i,
              icursor |-> tty.icursor, isem |-> s, obuff |-> tty.obuff,
              ohead |-> tty.ohead, otail |-> tty.otail, osem |-> tty.osem,
              oheld |-> FALSE, echo |-> e, thre |-> TRUE, at |-> a,
              put |-> tty.put, line |-> tty.line, typed |-> y,
              unsent |-> tty.unsent]
  <2>1. tty = TtyFields
    BY DEF TtyTypeOK
  <2> QED
    BY <1>5, <1>8, <2>1, ZenonT(60) DEF with_echo, TtyFields
<1>10. i = wrapped(tty.itail + 1, TY_IBUFLEN)
  <2>1. tty.itail \in 0 .. TY_IBUFLEN - 1
    <3>1. PICK n : n = tty.ihead + Len(tty.typed) /\ tty.itail = n % TY_IBUFLEN /\ n \in Nat
      <4>1. IsRing(tty.ibuff, tty.ihead, tty.itail, tty.typed, TY_IBUFLEN) /\ Len(tty.typed) \in Nat
        BY <1>3, InputText
      <4>2. tty.ihead \in 0 .. TY_IBUFLEN - 1 /\ tty.itail = (tty.ihead + Len(tty.typed)) % TY_IBUFLEN
        BY <4>1 DEF IsRing
      <4>3. tty.ihead + Len(tty.typed) \in Nat
        BY <4>1, <4>2, TtySizes
      <4> QED
        BY <4>2, <4>3
    <3> QED
      BY <3>1, TtySizes
  <2>2. ~(tty.itail + 1 >= TY_IBUFLEN)
    BY <1>4, <2>1, TtySizes
  <2> QED
    BY <1>8, <2>2 DEF wrapped
<1>11. s = signalledn(tty.isem, Len(tty.line) + 1) /\ a = at_after(tty.isem, Len(tty.line) + 1)
  <2>1. Len(tty.line) + 1 = 1
    BY <1>1
  <2> QED
    BY <1>8, <2>1
<1>12. y = Append(tty.typed \o tty.line, "eof") /\ b = [tty.ibuff EXCEPT ![tty.itail] = "eof"]
  BY <1>3, <1>8
<1>13. tty' = [ibuff |-> b, ihead |-> tty.ihead, itail |-> i, icursor |-> 0,
              isem |-> s, obuff |-> tty.obuff, ohead |-> tty.ohead,
              otail |-> tty.otail, osem |-> tty.osem, oheld |-> FALSE,
              echo |-> tty.echo + 1, thre |-> TRUE, at |-> a, put |-> tty.put,
              line |-> << >>, typed |-> y, unsent |-> tty.unsent]
  BY <1>2, <1>8, <1>9
<1> QED
  BY <1>6, <1>7, <1>10, <1>11, <1>12, <1>13, LineEnded

(* A letter goes to the line, and is not counted yet.                      *)
LEMMA LetterTyped ==
  ASSUME TtyTypeOK, InputIInv, OutputIInv, "overrun" \notin Unhandled, ttyhandle_letter
  PROVE  TtyTypeOK' /\ InputIInv' /\ OutputIInv' /\ NoOutputStalls'
<1>1. /\ tty.typed \in Seq(TtyTyped) /\ tty.line \in Seq(TtyTyped) /\ tty.icursor = Len(tty.line)
      /\ tty.ibuff \in [0 .. TY_IBUFLEN -> TtyTyped] /\ "letter" \in TtyTyped
      /\ IsRing(tty.ibuff, tty.ihead, tty.itail, tty.typed \o tty.line, TY_IBUFLEN)
  BY DEF InputIInv, InputHeld, TtyTyped
<1>2. PICK e, b, i, c, l : /\ e = tty.echo + 1
                           /\ b = [tty.ibuff EXCEPT ![tty.itail] = "letter"]
                           /\ i = wrapped(tty.itail + 1, TY_IBUFLEN)
                           /\ c = tty.icursor + 1 /\ l = Append(tty.line, "letter")
  OBVIOUS
<1>3. tty' = [ibuff |-> b, ihead |-> tty.ihead, itail |-> i, icursor |-> c,
              isem |-> tty.isem, obuff |-> tty.obuff, ohead |-> tty.ohead,
              otail |-> tty.otail, osem |-> tty.osem, oheld |-> FALSE, echo |-> e,
              thre |-> TRUE, at |-> tty.at, put |-> tty.put, line |-> l,
              typed |-> tty.typed, unsent |-> tty.unsent]
  BY <1>2 DEF ttyhandle_letter, with_echo, TtyTypeOK, TtyFields
<1>4. PICK x : x = tty.typed \o tty.line
  OBVIOUS
<1>5. /\ x \in Seq(TtyTyped) /\ Len(x) = Len(tty.typed) + Len(tty.line)
      /\ Append(x, "letter") = tty.typed \o l
  <2>1. PICK c1, s, t : c1 = "letter" /\ s = tty.typed /\ t = tty.line
    OBVIOUS
  <2>2. x = s \o t /\ l = Append(t, c1)
    BY <1>2, <1>4, <2>1
  <2>3. c1 \in TtyTyped /\ s \in Seq(TtyTyped) /\ t \in Seq(TtyTyped)
    BY <1>1, <2>1
  <2>4. PICK m, n : m = Len(s) /\ n = Len(t)
    OBVIOUS
  <2>5. m \in Nat /\ n \in Nat
    BY <2>3, <2>4
  <2>6. /\ x \in Seq(TtyTyped) /\ Len(x) = m + n
        /\ \A k \in 1 .. m + n : x[k] = IF k <= m THEN s[k] ELSE t[k - m]
    BY <2>2, <2>3, <2>4, ConcatProperties
  <2>7. l \in Seq(TtyTyped) /\ Len(l) = n + 1 /\ l[n + 1] = c1 /\ \A k \in 1 .. n : l[k] = t[k]
    BY <2>2, <2>3, <2>4, <2>5, AppendProperties
  <2>8. PICK y, z : y = Append(x, c1) /\ z = s \o l
    OBVIOUS
  <2>9. /\ y \in Seq(TtyTyped) /\ Len(y) = m + n + 1 /\ y[m + n + 1] = c1
        /\ \A k \in 1 .. m + n : y[k] = x[k]
    <3>1. x \in Seq(TtyTyped) /\ c1 \in TtyTyped /\ Len(x) = m + n
      BY <2>3, <2>6
    <3>2. /\ y \in Seq(TtyTyped) /\ Len(y) = Len(x) + 1 /\ y[Len(x) + 1] = c1
          /\ \A k \in 1 .. Len(x) : y[k] = x[k]
      BY <2>8, <3>1, AppendProperties
    <3> QED
      BY <2>5, <3>1, <3>2
  <2>10. /\ z \in Seq(TtyTyped) /\ Len(z) = m + (n + 1)
         /\ \A k \in 1 .. m + (n + 1) : z[k] = IF k <= m THEN s[k] ELSE l[k - m]
    <3>1. s \in Seq(TtyTyped) /\ l \in Seq(TtyTyped)
      BY <2>3, <2>7
    <3>2. /\ z \in Seq(TtyTyped) /\ Len(z) = Len(s) + Len(l)
          /\ \A k \in 1 .. Len(s) + Len(l) : z[k] = IF k <= Len(s) THEN s[k] ELSE l[k - Len(s)]
      BY <2>8, <3>1, ConcatProperties
    <3>3. Len(s) = m /\ Len(l) = n + 1
      BY <2>4, <2>7
    <3> QED
      BY <3>2, <3>3
  <2>11. ASSUME NEW k \in 1 .. m + n + 1 PROVE y[k] = z[k]
    <3>1. CASE k = m + n + 1
      <4>1. k \in 1 .. m + (n + 1) /\ ~(k <= m) /\ k - m = n + 1
        BY <2>5, <3>1
      <4> QED
        BY <2>7, <2>9, <2>10, <3>1, <4>1
    <3>2. CASE k \in 1 .. m
      <4>1. k \in 1 .. m + (n + 1) /\ k \in 1 .. m + n /\ k <= m
        BY <2>5, <3>2
      <4> QED
        BY <2>6, <2>9, <2>10, <4>1
    <3>3. CASE k \in m + 1 .. m + n
      <4>1. k - m \in 1 .. n /\ k \in 1 .. m + n /\ k \in 1 .. m + (n + 1) /\ ~(k <= m)
        BY <2>5, <3>3
      <4> QED
        BY <2>6, <2>7, <2>9, <2>10, <4>1
    <3>4. k = m + n + 1 \/ k \in 1 .. m \/ k \in m + 1 .. m + n
      BY <2>5
    <3> QED
      BY <3>1, <3>2, <3>3, <3>4
  <2>12. y = z
    <3>1. m + (n + 1) = m + n + 1
      BY <2>5
    <3>2. y \in Seq(TtyTyped) /\ z \in Seq(TtyTyped) /\ Len(y) = Len(z) /\ \A k \in 1 .. Len(y) : y[k] = z[k]
      BY <2>9, <2>10, <2>11, <3>1
    <3> QED
      BY <3>2
  <2> QED
    BY <2>1, <2>4, <2>6, <2>8, <2>12
<1>6. Len(x) < TY_IBUFLEN
  <2>1. Len(tty.typed) + tty.icursor < TY_IBUFLEN
    BY DEF ttyhandle_letter, room
  <2>2. Len(x) = Len(tty.typed) + tty.icursor
    BY <1>1, <1>5
  <2> QED
    BY <2>1, <2>2
<1>7. l \in Seq(TtyTyped) /\ Len(l) = c
  BY <1>1, <1>2
<1>8. TtyTypeOK' /\ NoOutputStalls'
  BY <1>2, <1>3, WithEcho DEF TtyTypeOK, TtyFields, NoOutputStalls
<1>9. OutputIInv'
  BY <1>3, OutputSame
<1>10. InputHeld'
  <2>1. 0 .. TY_IBUFLEN - 1 \subseteq 0 .. TY_IBUFLEN
    BY TtySizes
  <2>2. IsRing(tty.ibuff, tty.ihead, tty.itail, x, TY_IBUFLEN)
    BY <1>1, <1>4
  <2>3. IsRing([tty.ibuff EXCEPT ![tty.itail] = "letter"], tty.ihead, wrapped(tty.itail + 1, TY_IBUFLEN), Append(x, "letter"), TY_IBUFLEN)
    BY <1>1, <1>5, <1>6, <2>1, <2>2, RingStored, TtySizes
  <2>4. IsRing(b, tty.ihead, i, tty.typed \o l, TY_IBUFLEN)
    BY <1>2, <1>5, <2>3
  <2>5. b \in [0 .. TY_IBUFLEN -> TtyTyped]
    BY <1>1, <1>2
  <2>6. /\ tty'.ibuff = b /\ tty'.ihead = tty.ihead /\ tty'.itail = i /\ tty'.typed = tty.typed
        /\ tty'.line = l /\ tty'.icursor = c
    BY <1>3
  <2> QED
    BY <1>1, <1>7, <2>4, <2>5, <2>6 DEF InputHeld
<1>11. InputCounted'
  BY <1>3 DEF InputIInv, InputCounted, Waiters, going
<1> QED
  BY <1>8, <1>9, <1>10, <1>11 DEF InputIInv

(* Every step keeps the invariant, and no step lets output stall.          *)
LEMMA TtyNextSound ==
  ASSUME TtyIInv, TtyNext, "overrun" \notin Unhandled, "oversend" \notin Unhandled
  PROVE  /\ TtyIInv'
         /\ "silent_start" \notin Unhandled /\ NoOutputStalls => NoOutputStalls'
<1>1. ASSUME NEW p \in TtyReaders, ttygetc_wait(p)
      PROVE  TtyIInv' /\ (NoOutputStalls => NoOutputStalls')
  BY <1>1, GetWaits DEF TtyIInv
<1>2. ASSUME NEW p \in TtyReaders, ttygetc(p)
      PROVE  TtyIInv' /\ (NoOutputStalls => NoOutputStalls')
  BY <1>2, GetTakes DEF TtyIInv
<1>3. ASSUME NEW p \in TtyWriters, NEW ch \in TtyOutput, ttyputc(p, ch)
      PROVE  TtyIInv' /\ (NoOutputStalls => NoOutputStalls')
  BY <1>3, PutBegins DEF TtyIInv
<1>4. ASSUME NEW p \in TtyWriters, ttyputc_wait(p)
      PROVE  TtyIInv' /\ (NoOutputStalls => NoOutputStalls')
  BY <1>4, PutWaits DEF TtyIInv
<1>5. ASSUME NEW p \in TtyWriters, ttyputc_store(p)
      PROVE  TtyIInv' /\ NoOutputStalls'
  BY <1>5, PutStores DEF TtyIInv
<1>6. ASSUME ttyhandle_out
      PROVE  TtyIInv' /\ (NoOutputStalls => NoOutputStalls')
  BY <1>6, OutSound DEF TtyIInv
<1>7. ASSUME ttyhandle_start \/ ttyhandle_stop \/ ttyhandle_erase_nothing \/ ttyhandle_full
             \/ (ttyhandle_eof /\ tty.icursor # 0)
      PROVE  TtyIInv' /\ ("silent_start" \notin Unhandled /\ NoOutputStalls => NoOutputStalls')
  BY <1>7, CharactersKept DEF TtyIInv
<1>8. ASSUME ttyhandle_erase \/ ttyhandle_kill
      PROVE  TtyIInv' /\ NoOutputStalls'
  BY <1>8, LineCut DEF TtyIInv
<1>9. ASSUME ttyhandle_newline \/ (ttyhandle_eof /\ tty.icursor = 0)
      PROVE  TtyIInv' /\ NoOutputStalls'
  BY <1>9, NewlineEnds, FileEnds DEF TtyIInv
<1>10. ASSUME ttyhandle_letter
       PROVE  TtyIInv' /\ NoOutputStalls'
  BY <1>10, LetterTyped DEF TtyIInv
<1> QED
  BY <1>1, <1>2, <1>3, <1>4, <1>5, <1>6, <1>7, <1>8, <1>9, <1>10 DEF TtyNext, ttyhandle_in

(* The property that the run checks follows.                               *)
LEMMA TtyIInvHolds ==
  ASSUME TtyIInv
  PROVE  RingsHoldTheText
<1>1. /\ tty.typed \in Seq(TtyTyped) /\ tty.line \in Seq(TtyTyped) /\ tty.icursor = Len(tty.line)
      /\ IsRing(tty.ibuff, tty.ihead, tty.itail, tty.typed \o tty.line, TY_IBUFLEN)
      /\ Waiters(tty.isem, TtyReaders, tty.at)
      /\ counted(tty.isem) + Cardinality(going(TtyReaders, tty.at)) = Len(tty.typed)
      /\ IsRing(tty.obuff, tty.ohead, tty.otail, tty.unsent, TY_OBUFLEN) /\ tty.unsent \in Seq(TtyWritten)
      /\ Waiters(tty.osem, TtyWriters, tty.at)
      /\ counted(tty.osem) + Len(tty.unsent) + Cardinality(going(TtyWriters, tty.at)) = TY_OBUFLEN
  BY DEF TtyIInv, InputIInv, InputHeld, InputCounted, OutputIInv, OutputHeld, OutputCounted
<1>2. PICK x : x = tty.typed \o tty.line
  OBVIOUS
<1>3. x \in Seq(TtyTyped) /\ Len(x) = Len(tty.typed) + tty.icursor
  BY <1>1, <1>2, ConcatProperties
<1>4. ring(tty.ibuff, tty.ihead, Len(tty.typed) + tty.icursor, TY_IBUFLEN) = x
  <2>1. x = [k \in 1 .. Len(x) |-> x[k]]
    BY <1>3
  <2>2. \A k \in 1 .. Len(x) : tty.ibuff[(tty.ihead + k - 1) % TY_IBUFLEN] = x[k]
    BY <1>1, <1>2 DEF IsRing
  <2> QED
    BY <1>3, <2>1, <2>2 DEF ring
<1>5. ring(tty.obuff, tty.ohead, Len(tty.unsent), TY_OBUFLEN) = tty.unsent
  <2>1. tty.unsent = [k \in 1 .. Len(tty.unsent) |-> tty.unsent[k]]
    BY <1>1
  <2>2. \A k \in 1 .. Len(tty.unsent) : tty.obuff[(tty.ohead + k - 1) % TY_OBUFLEN] = tty.unsent[k]
    BY <1>1 DEF IsRing
  <2> QED
    BY <2>1, <2>2 DEF ring
<1>6. tty.itail = (tty.ihead + Len(tty.typed) + tty.icursor) % TY_IBUFLEN
  <2>1. /\ tty.ihead \in 0 .. TY_IBUFLEN - 1 /\ tty.itail = (tty.ihead + Len(x)) % TY_IBUFLEN
    BY <1>1, <1>2 DEF IsRing
  <2>2. PICK h, n, c : h = tty.ihead /\ n = Len(tty.typed) /\ c = tty.icursor
    OBVIOUS
  <2>3. h \in Nat /\ n \in Nat /\ c \in Nat /\ Len(x) = n + c
    <3>1. c \in Nat /\ n \in Nat
      BY <1>1, <2>2
    <3> QED
      BY <1>3, <2>1, <2>2, <3>1, TtySizes
  <2>4. h + Len(x) = h + n + c
    BY <2>3
  <2> QED
    BY <2>1, <2>2, <2>4
<1>7. /\ let_go_on(TtyReaders) = Cardinality(going(TtyReaders, tty.at))
      /\ let_go_on(TtyWriters) = Cardinality(going(TtyWriters, tty.at))
  BY DEF let_go_on, going
<1>8. /\ counted(tty.isem) \in Nat /\ Cardinality(going(TtyReaders, tty.at)) \in Nat
      /\ counted(tty.osem) \in Nat /\ Cardinality(going(TtyWriters, tty.at)) \in Nat
      /\ Len(tty.unsent) \in Nat /\ Len(tty.typed) \in Nat
  BY <1>1, CountedNat, GoingFinite, TtySizes DEF Waiters
<1>9. /\ counted(tty.isem) = Len(tty.typed) - let_go_on(TtyReaders)
      /\ counted(tty.osem) = TY_OBUFLEN - Len(tty.unsent) - let_go_on(TtyWriters)
  <2>1. PICK c, g, n, d, h, m :
          /\ c = counted(tty.isem) /\ g = Cardinality(going(TtyReaders, tty.at)) /\ n = Len(tty.typed)
          /\ d = counted(tty.osem) /\ h = Cardinality(going(TtyWriters, tty.at)) /\ m = Len(tty.unsent)
    OBVIOUS
  <2>2. /\ c \in Nat /\ g \in Nat /\ n \in Nat /\ d \in Nat /\ h \in Nat /\ m \in Nat
        /\ c + g = n /\ d + m + h = TY_OBUFLEN
    BY <1>1, <1>8, <2>1
  <2>3. c = n - g /\ d = TY_OBUFLEN - m - h
    BY <2>2
  <2> QED
    BY <1>7, <2>1, <2>3
<1> QED
  BY <1>1, <1>2, <1>4, <1>5, <1>6, <1>9 DEF RingsHoldTheText

(* At every step of the tty driver, whoever of the processes that wait in  *)
(* ttygetc and ttyputc runs when: the input ring from its head on is what  *)
(* ttyhandle_in took, line by line as edited and not read yet, the output  *)
(* ring is what ttyputc wrote and ttyhandle_out has not sent, each         *)
(* character once and in order, and each semaphore counts what is there    *)
(* and not promised to a process that was let through. It rests on the     *)
(* bounds that name what the code does not guard against: no character     *)
(* comes when the ring is full of promised ones (overrun), and the UART    *)
(* is not given more than was stored (oversend).                           *)
THEOREM SpecRingsHoldTheText ==
  ASSUME "overrun" \notin Unhandled, "oversend" \notin Unhandled
  PROVE  TtySpec => []RingsHoldTheText
<1>1. TtyInit => TtyIInv
  BY TtyInitSound DEF TtyIInv
<1>2. TtyIInv /\ [TtyNext]_tty => TtyIInv'
  <2>1. TtyIInv /\ UNCHANGED tty => TtyIInv'
    BY InputSame, OutputSame DEF TtyIInv, TtyTypeOK, TtyFields
  <2> QED
    BY <2>1, TtyNextSound
<1>3. TtyIInv => RingsHoldTheText
  BY TtyIInvHolds
<1> QED
  BY <1>1, <1>2, <1>3, PTL DEF TtySpec

(* Output never stalls: while it is not held and there is an echo or a     *)
(* character to send, the UART is going to interrupt and ask for it,       *)
(* whatever ttyputc, ttyhandle_in and ttyhandle_out did in which order.    *)
(* Besides the two bounds above, erasing nothing does not start held       *)
(* output (silent_start).                                                  *)
THEOREM SpecNoOutputStalls ==
  ASSUME Unhandled \cap {"overrun", "oversend", "silent_start"} = {}
  PROVE  TtySpec => []NoOutputStalls
<1>1. TtyInit => TtyIInv /\ NoOutputStalls
  BY TtyInitSound DEF TtyIInv
<1>2. TtyIInv /\ NoOutputStalls /\ [TtyNext]_tty => (TtyIInv /\ NoOutputStalls)'
  <2>1. TtyIInv /\ NoOutputStalls /\ UNCHANGED tty => TtyIInv' /\ NoOutputStalls'
    BY InputSame, OutputSame DEF TtyIInv, TtyTypeOK, TtyFields, NoOutputStalls
  <2> QED
    BY <2>1, TtyNextSound
<1> QED
  BY <1>1, <1>2, PTL DEF TtySpec

-----------------------------------------------------------------------------
(***************************************************************************)
(* Arcs: n descriptors of a ring of N, from i on.                          *)
(***************************************************************************)

arc(i, n, N) == {(i + k) % N : k \in 0 .. n - 1}

(* Places one after another.                                               *)
LEMMA RingSum ==
  ASSUME NEW N \in Nat \ {0}, NEW i \in 0 .. N - 1, NEW a \in Nat, NEW b \in Nat, a + b <= N
  PROVE  (((i + a) % N) + b) % N = (i + (a + b)) % N
<1>1. PICK x, y, z : x = (i + a) % N /\ y = (x + b) % N /\ z = (i + (a + b)) % N
  OBVIOUS
<1>2. x = (IF i + a < N THEN i + a ELSE i + a - N) /\ x \in 0 .. N - 1
  <2>1. a \in 0 .. N
    OBVIOUS
  <2> QED
    BY <1>1, <2>1, RingPlace
<1>3. y = IF x + b < N THEN x + b ELSE x + b - N
  <2>1. b \in 0 .. N
    OBVIOUS
  <2> QED
    BY <1>1, <1>2, <2>1, RingPlace
<1>4. z = IF i + (a + b) < N THEN i + (a + b) ELSE i + (a + b) - N
  <2>1. a + b \in 0 .. N
    OBVIOUS
  <2> QED
    BY <1>1, <2>1, RingPlace
<1>5. y = z
  BY <1>2, <1>3, <1>4
<1> QED
  BY <1>1, <1>5

(* Places less than once around are different.                             *)
LEMMA RingApart ==
  ASSUME NEW N \in Nat \ {0}, NEW i \in 0 .. N - 1, NEW a \in 0 .. N - 1, NEW b \in 0 .. N - 1,
         (i + a) % N = (i + b) % N
  PROVE  a = b
<1>1. PICK x : x = (i + a) % N /\ x = (i + b) % N
  OBVIOUS
<1>2. x = IF i + a < N THEN i + a ELSE i + a - N
  <2>1. a \in 0 .. N
    OBVIOUS
  <2> QED
    BY <1>1, <2>1, RingPlace
<1>3. x = IF i + b < N THEN i + b ELSE i + b - N
  <2>1. b \in 0 .. N
    OBVIOUS
  <2> QED
    BY <1>1, <2>1, RingPlace
<1> QED
  BY <1>2, <1>3

(* How far it is from i to a place.                                        *)
LEMMA RingDistance ==
  ASSUME NEW N \in Nat \ {0}, NEW i \in 0 .. N - 1, NEW n \in 0 .. N - 1
  PROVE  (((i + n) % N) - i + N) % N = n
<1>1. PICK x, d : x = (i + n) % N /\ d = x - i + N
  OBVIOUS
<1>2. x = IF i + n < N THEN i + n ELSE i + n - N
  <2>1. n \in 0 .. N
    OBVIOUS
  <2> QED
    BY <1>1, <2>1, RingPlace
<1>3. d = n + N \/ d = n
  BY <1>1, <1>2
<1>4. d % N = n
  <2>1. n % N = n
    OBVIOUS
  <2>2. PICK m : m = n + N /\ m \in N .. 2 * N - 1
    OBVIOUS
  <2>3. m % N = m - N
    BY <2>2, OnceAround
  <2> QED
    BY <1>3, <2>1, <2>2, <2>3
<1> QED
  BY <1>1, <1>4

LEMMA ArcMember ==
  ASSUME NEW N \in Nat \ {0}, NEW i \in 0 .. N - 1, NEW n \in 0 .. N, NEW j \in 0 .. N - 1
  PROVE  (i + j) % N \in arc(i, n, N) <=> j < n
<1>1. ASSUME (i + j) % N \in arc(i, n, N) PROVE j < n
  <2>1. PICK k \in 0 .. n - 1 : (i + j) % N = (i + k) % N
    BY <1>1 DEF arc
  <2>2. k \in 0 .. N - 1
    OBVIOUS
  <2>3. j = k
    BY <2>1, <2>2, RingApart
  <2> QED
    BY <2>3
<1>2. ASSUME j < n PROVE (i + j) % N \in arc(i, n, N)
  <2>1. j \in 0 .. n - 1
    BY <1>2
  <2> QED
    BY <2>1 DEF arc
<1> QED
  BY <1>1, <1>2

(* There are n of them.                                                    *)
LEMMA ArcSize ==
  ASSUME NEW N \in Nat \ {0}, NEW i \in 0 .. N - 1, NEW n \in 0 .. N
  PROVE  IsFiniteSet(arc(i, n, N)) /\ Cardinality(arc(i, n, N)) = n
<1> DEFINE f == [k \in 0 .. n - 1 |-> (i + k) % N]
<1>1. \A a, b \in 0 .. n - 1 : f[a] = f[b] => a = b
  <2> TAKE a \in 0 .. n - 1, b \in 0 .. n - 1
  <2>1. a \in 0 .. N - 1 /\ b \in 0 .. N - 1
    OBVIOUS
  <2>2. f[a] = (i + a) % N /\ f[b] = (i + b) % N
    OBVIOUS
  <2> QED
    BY <2>1, <2>2, RingApart
<1>2. f \in [0 .. n - 1 -> arc(i, n, N)] /\ \A x \in arc(i, n, N) : \E a \in 0 .. n - 1 : f[a] = x
  BY DEF arc
<1> HIDE DEF f
<1>3. ExistsBijection(0 .. n - 1, arc(i, n, N))
  <2>1. f \in Bijection(0 .. n - 1, arc(i, n, N))
    BY <1>1, <1>2 DEF Bijection, Injection, Surjection, IsInjective
  <2> QED
    BY <2>1 DEF ExistsBijection
<1>4. IsFiniteSet(0 .. n - 1) /\ Cardinality(0 .. n - 1) = n
  BY FS_Interval
<1> QED
  BY <1>3, <1>4, FS_Bijection

(* One more at the end, and one less at the head.                          *)
LEMMA ArcGrows ==
  ASSUME NEW N \in Nat \ {0}, NEW i \in 0 .. N - 1, NEW n \in Nat
  PROVE  arc(i, n, N) \cup {(i + n) % N} = arc(i, n + 1, N)
<1>1. 0 .. (n + 1) - 1 = 0 .. n - 1 \cup {n}
  OBVIOUS
<1> QED
  BY <1>1 DEF arc

LEMMA ArcShrinks ==
  ASSUME NEW N \in Nat \ {0}, NEW i \in 0 .. N - 1, NEW n \in 1 .. N
  PROVE  arc(i, n, N) \ {i} = arc((i + 1) % N, n - 1, N)
<1>1. PICK h : h = (i + 1) % N
  OBVIOUS
<1>2. ASSUME NEW k \in 1 .. n - 1 PROVE (i + k) % N = (h + (k - 1)) % N /\ (i + k) % N # i
  <2>1. 1 \in Nat /\ k - 1 \in Nat /\ 1 + (k - 1) <= N /\ 1 + (k - 1) = k
    OBVIOUS
  <2>2. (((i + 1) % N) + (k - 1)) % N = (i + (1 + (k - 1))) % N
    BY <2>1, RingSum
  <2>3. (i + 0) % N = i
    <3>1. i + 0 = i /\ i % N = i
      OBVIOUS
    <3> QED
      BY <3>1
  <2>4. (i + k) % N # (i + 0) % N
    <3>1. k \in 0 .. N - 1 /\ 0 \in 0 .. N - 1 /\ k # 0
      OBVIOUS
    <3> QED
      BY <3>1, RingApart
  <2> QED
    BY <1>1, <2>1, <2>2, <2>3, <2>4
<1>3. (i + 0) % N = i
  <2>1. i + 0 = i /\ i % N = i
    OBVIOUS
  <2> QED
    BY <2>1
<1>4. arc(i, n, N) \ {i} = {(i + k) % N : k \in 1 .. n - 1}
  <2>1. 0 .. n - 1 = {0} \cup 1 .. n - 1
    OBVIOUS
  <2> QED
    BY <1>2, <1>3, <2>1 DEF arc
<1>5. {(i + k) % N : k \in 1 .. n - 1} = {(h + k) % N : k \in 0 .. (n - 1) - 1}
  <2>1. ASSUME NEW x, x \in {(i + k) % N : k \in 1 .. n - 1} PROVE x \in {(h + k) % N : k \in 0 .. (n - 1) - 1}
    <3>1. PICK k \in 1 .. n - 1 : x = (i + k) % N
      BY <2>1
    <3>2. x = (h + (k - 1)) % N /\ k - 1 \in 0 .. (n - 1) - 1
      BY <1>2, <3>1
    <3> QED
      BY <3>2
  <2>2. ASSUME NEW x, x \in {(h + k) % N : k \in 0 .. (n - 1) - 1} PROVE x \in {(i + k) % N : k \in 1 .. n - 1}
    <3>1. PICK k \in 0 .. (n - 1) - 1 : x = (h + k) % N
      BY <2>2
    <3>2. PICK m : m = k + 1
      OBVIOUS
    <3>3. m \in 1 .. n - 1 /\ m - 1 = k
      BY <3>2
    <3>4. (i + m) % N = (h + (m - 1)) % N
      BY <1>2, <3>3
    <3> QED
      BY <3>1, <3>3, <3>4
  <2> QED
    BY <2>1, <2>2
<1> QED
  BY <1>1, <1>4, <1>5 DEF arc

(* done_from counts what is left of an arc.                                *)
LEMMA DoneFrom ==
  ASSUME NEW N \in Nat \ {0}, NEW i \in 0 .. N - 1, NEW a \in Nat, NEW b \in Nat, a + b <= N,
         a + b < N \/ a = 0
  PROVE  done_from(arc(i, a + b, N), (i + a) % N, N) = b
<1>1. PICK D, x, M : /\ D = arc(i, a + b, N) /\ x = (i + a) % N
                     /\ M = {n \in 0 .. N : \A k \in 0 .. n - 1 : (x + k) % N \in D}
  OBVIOUS
<1>2. ASSUME NEW k \in 0 .. b PROVE (x + k) % N = (i + (a + k)) % N
  <2>1. k \in Nat /\ a + k <= N
    OBVIOUS
  <2> QED
    BY <1>1, <2>1, RingSum
<1>3. b \in M
  <2>1. ASSUME NEW k \in 0 .. b - 1 PROVE (x + k) % N \in D
    <3>1. PICK j : j = a + k
      OBVIOUS
    <3>2. k \in 0 .. b /\ j \in 0 .. N - 1 /\ j < a + b /\ a + b \in 0 .. N
      BY <3>1
    <3>3. (i + j) % N \in arc(i, a + b, N)
      BY <3>2, ArcMember
    <3> QED
      BY <1>1, <1>2, <3>1, <3>2, <3>3
  <2>2. b \in 0 .. N
    OBVIOUS
  <2> QED
    BY <1>1, <2>1, <2>2
<1>4. ASSUME NEW n \in M PROVE n <= b
  <2>1. n \in 0 .. N /\ \A k \in 0 .. n - 1 : (x + k) % N \in D
    BY <1>1
  <2>2. SUFFICES ASSUME n > b PROVE FALSE
    BY <2>1
  <2>3. PICK j : j = a + b
    OBVIOUS
  <2>4. b \in 0 .. n - 1 /\ b \in 0 .. b /\ j \in 0 .. N
    BY <2>1, <2>2, <2>3
  <2>5. j \in 0 .. N - 1
    BY <2>1, <2>2, <2>3
  <2>6. (x + b) % N \in D /\ (x + b) % N = (i + j) % N
    BY <1>2, <2>1, <2>3, <2>4
  <2>7. (i + j) % N \in arc(i, j, N)
    BY <1>1, <2>3, <2>6
  <2>8. j < j
    BY <2>4, <2>5, <2>7, ArcMember
  <2> QED
    BY <2>5, <2>8
<1>5. Max(M) = b
  <2>1. ASSUME NEW n \in M PROVE n \in Nat /\ b >= n
    <3>1. n \in 0 .. N
      BY <1>1
    <3>2. n <= b
      BY <1>4
    <3> QED
      BY <3>1, <3>2
  <2>2. PICK m : m = Max(M)
    OBVIOUS
  <2>3. m \in M /\ \A y \in M : m >= y
    BY <1>3, <2>1, <2>2 DEF Max
  <2>4. m \in Nat /\ b >= m /\ m >= b
    BY <1>3, <2>1, <2>3
  <2> QED
    BY <2>2, <2>4
<1> QED
  BY <1>1, <1>5 DEF done_from

-----------------------------------------------------------------------------
(***************************************************************************)
(* The rings of the Ethernet driver agree with the NIC's. From the head on *)
(* the receive ring holds r packets that were counted, u that were not,    *)
(* and o descriptors that the NIC owns; the transmit ring holds t that     *)
(* were sent and o that are to be sent.                                    *)
(***************************************************************************)

RxRing(head, tail, rdh, rdt, done, r, u, o) ==
  LET S == E1000_RX_RING_SIZE
  IN  /\ head \in 0 .. S - 1 /\ r \in Nat /\ u \in Nat /\ o \in Nat /\ r + u + o < S
      /\ tail = (head + r) % S /\ rdh = (head + (r + u)) % S
      /\ rdt = (head + (r + u + o)) % S
      /\ rdt = (IF head \in 1 .. E1000_RING_BOUNDARY THEN 0 ELSE E1000_RING_BOUNDARY)
      /\ done = arc(head, r + u, S)

TxRing(head, tdh, tdt, done, t, o) ==
  LET S == E1000_TX_RING_SIZE
  IN  /\ head \in 0 .. S - 1 /\ t \in Nat /\ o \in Nat /\ t + o <= S /\ o < S
      /\ tdh = (head + t) % S /\ tdt = (head + (t + o)) % S
      /\ done = arc(head, t, S)

(* What was counted and not read are what isem counts and the readers that *)
(* it let through.                                                         *)
RxKnown(e, r, u, o) ==
  /\ RxRing(e.rxHead, e.rxTail, e.rdh, e.rdt, e.rxdone, r, u, o)
  /\ e.rxt0 \/ u = 0
  /\ Waiters(e.isem, EthReaders, e.at)
  /\ counted(e.isem) + Cardinality(going(EthReaders, e.at)) = r

RxSound(e) == \E r, u, o \in 0 .. E1000_RX_RING_SIZE : RxKnown(e, r, u, o)

(* The rest of the transmit ring is what osem counts, and the writers that *)
(* it let through.                                                         *)
TxKnown(e, t, o) ==
  /\ TxRing(e.txHead, e.tdh, e.tdt, e.txdone, t, o)
  /\ e.txdw \/ t = 0
  /\ Waiters(e.osem, EthWriters, e.at)
  /\ counted(e.osem) + Cardinality(going(EthWriters, e.at)) + (t + o) = E1000_TX_RING_SIZE

TxSound(e) == \E t, o \in 0 .. E1000_TX_RING_SIZE : TxKnown(e, t, o)

(* Where a process is in ethread or ethwrite.                              *)
EthPoints == {"idle", "wait", "go_on"}

(* The fields of the driver, and what some of them are.                    *)
EthTyped(e) ==
  /\ e = [rdh |-> e.rdh, rdt |-> e.rdt, rxdone |-> e.rxdone,
          rxHead |-> e.rxHead, rxTail |-> e.rxTail, isem |-> e.isem,
          tdh |-> e.tdh, tdt |-> e.tdt, txdone |-> e.txdone, txHead |-> e.txHead,
          osem |-> e.osem, rxt0 |-> e.rxt0, txdw |-> e.txdw, at |-> e.at]
  /\ e.at \in [EthUsers -> EthPoints]
  /\ e.rxt0 \in BOOLEAN /\ e.txdw \in BOOLEAN

(* The inductive invariant.                                                *)
EthIInv == EthTyped(eth) /\ RxSound(eth) /\ TxSound(eth)

(* What the sizes and the users are.                                       *)
LEMMA EthSizes ==
  /\ E1000_RING_BOUNDARY \in Nat \ {0} /\ E1000_RX_RING_SIZE \in Nat \ {0}
  /\ E1000_RX_RING_SIZE = 2 * E1000_RING_BOUNDARY
  /\ E1000_TX_RING_SIZE \in Nat \ {0} /\ E1000_TX_RING_SIZE > 1
  /\ EthReaders \cap EthWriters = {} /\ IsFiniteSet(EthReaders) /\ IsFiniteSet(EthWriters)
BY EthAssumption

(* A packet arrives in the first descriptor that the NIC owns.             *)
LEMMA RxArrives ==
  ASSUME NEW head, NEW tail, NEW rdh, NEW rdt, NEW done, NEW r, NEW u, NEW o,
         RxRing(head, tail, rdh, rdt, done, r, u, o), rdh # rdt
  PROVE  /\ o > 0 /\ u + 1 \in Nat
         /\ RxRing(head, tail, rx_next(rdh, 1), rdt, done \cup {rdh}, r, u + 1, o - 1)
<1>1. PICK S : S = E1000_RX_RING_SIZE /\ S \in Nat \ {0}
  BY EthSizes
<1>range. head \in 0 .. S - 1 /\ r \in Nat /\ u \in Nat /\ o \in Nat /\ r + u + o < S
  BY <1>1 DEF RxRing
<1>2. /\ tail = (head + r) % S /\ rdh = (head + (r + u)) % S
      /\ rdt = (head + (r + u + o)) % S
      /\ rdt = (IF head \in 1 .. E1000_RING_BOUNDARY THEN 0 ELSE E1000_RING_BOUNDARY)
      /\ done = arc(head, r + u, S)
  BY <1>1 DEF RxRing
<1>3. o > 0
  <2>1. o = 0 => r + u + o = r + u
    BY <1>range
  <2>2. o = 0 => rdh = rdt
    BY <1>2, <2>1
  <2> QED
    BY <1>range, <2>2
<1>4. PICK n : n = r + u
  OBVIOUS
<1>5. n \in Nat /\ 1 \in Nat /\ n + 1 <= S /\ r + (u + 1) = n + 1 /\ r + u + o = r + (u + 1) + (o - 1)
  BY <1>1, <1>range, <1>3, <1>4
<1>6. (((head + n) % S) + 1) % S = (head + (n + 1)) % S
  BY <1>1, <1>range, <1>5, RingSum
<1>7. done \cup {rdh} = arc(head, n + 1, S)
  BY <1>1, <1>range, <1>2, <1>4, <1>5, ArcGrows
<1>8. /\ head \in 0 .. S - 1 /\ r \in Nat /\ u + 1 \in Nat /\ o - 1 \in Nat /\ r + (u + 1) + (o - 1) < S
      /\ tail = (head + r) % S /\ (rdh + 1) % S = (head + (r + (u + 1))) % S
      /\ rdt = (head + (r + (u + 1) + (o - 1))) % S
      /\ done \cup {rdh} = arc(head, r + (u + 1), S)
  <2>1. u + 1 \in Nat /\ o - 1 \in Nat /\ r + (u + 1) + (o - 1) < S
    BY <1>1, <1>range, <1>3
  <2> QED
    BY <1>range, <1>2, <1>4, <1>5, <1>6, <1>7, <2>1
<1>9. rx_next(rdh, 1) = (rdh + 1) % S
  BY <1>1 DEF rx_next
<1> QED
  BY <1>1, <1>2, <1>3, <1>8, <1>9 DEF RxRing

(* The packets that were not counted are counted.                          *)
LEMMA RxCounted ==
  ASSUME NEW head, NEW tail, NEW rdh, NEW rdt, NEW done, NEW r, NEW u, NEW o,
         RxRing(head, tail, rdh, rdt, done, r, u, o)
  PROVE  /\ done_from(done, tail, E1000_RX_RING_SIZE) = u
         /\ RxRing(head, rx_next(tail, u), rdh, rdt, done, r + u, 0, o)
<1>1. PICK S : S = E1000_RX_RING_SIZE /\ S \in Nat \ {0}
  BY EthSizes
<1>range. head \in 0 .. S - 1 /\ r \in Nat /\ u \in Nat /\ o \in Nat /\ r + u + o < S
  BY <1>1 DEF RxRing
<1>2. /\ tail = (head + r) % S /\ rdh = (head + (r + u)) % S
      /\ rdt = (head + (r + u + o)) % S
      /\ rdt = (IF head \in 1 .. E1000_RING_BOUNDARY THEN 0 ELSE E1000_RING_BOUNDARY)
      /\ done = arc(head, r + u, S)
  BY <1>1 DEF RxRing
<1>3. r + u <= S /\ r + u < S /\ r + u \in Nat /\ 0 \in Nat /\ r + u + 0 = r + u
  BY <1>1, <1>range
<1>4. done_from(arc(head, r + u, S), (head + r) % S, S) = u
  BY <1>1, <1>range, <1>3, DoneFrom
<1>5. (((head + r) % S) + u) % S = (head + (r + u)) % S
  BY <1>1, <1>range, <1>3, RingSum
<1>6. rx_next(tail, u) = (head + (r + u)) % S
  BY <1>1, <1>2, <1>5 DEF rx_next
<1> QED
  BY <1>1, <1>range, <1>2, <1>3, <1>4, <1>6 DEF RxRing

(* Whether the head's descriptor is the last of its half.                  *)
LEMMA GivenBack ==
  ASSUME NEW head \in 0 .. E1000_RX_RING_SIZE - 1
  PROVE  given_back(head) <=> head \in {0, E1000_RING_BOUNDARY}
<1>1. PICK B : B = E1000_RING_BOUNDARY /\ B \in Nat \ {0} /\ head \in 0 .. 2 * B - 1
  BY EthSizes
<1>2. CASE head < B
  <2>1. head % B = head
    BY <1>1, <1>2
  <2> QED
    BY <1>1, <1>2, <2>1 DEF given_back
<1>3. CASE head >= B
  <2>1. head \in B .. 2 * B - 1
    BY <1>1, <1>3
  <2>2. head % B = head - B
    BY <1>1, <2>1, OnceAround
  <2> QED
    BY <1>1, <1>3, <2>2 DEF given_back
<1> QED
  BY <1>1, <1>2, <1>3

(* The packet at the head is read: half a ring goes to the NIC when the    *)
(* last descriptor of the other half has been read, and is not the NIC's   *)
(* then.                                                                   *)
LEMMA RxRead ==
  ASSUME NEW head, NEW tail, NEW rdh, NEW rdt, NEW done, NEW r, NEW u, NEW o,
         RxRing(head, tail, rdh, rdt, done, r, u, o), r > 0
  PROVE  \E n \in Nat :
           RxRing(rx_next(head, 1), tail, rdh,
                  IF given_back(head) THEN rx_next(rdt, E1000_RING_BOUNDARY) ELSE rdt,
                  done \ {head}, r - 1, u, n)
<1>1. PICK S, B : /\ S = E1000_RX_RING_SIZE /\ S \in Nat \ {0}
                  /\ B = E1000_RING_BOUNDARY /\ B \in Nat \ {0} /\ S = 2 * B
  BY EthSizes
<1>range. head \in 0 .. S - 1 /\ r \in Nat /\ u \in Nat /\ o \in Nat /\ r + u + o < S
  BY <1>1 DEF RxRing
<1>2. /\ tail = (head + r) % S /\ rdh = (head + (r + u)) % S
      /\ rdt = (head + (r + u + o)) % S
      /\ rdt = (IF head \in 1 .. B THEN 0 ELSE B)
      /\ done = arc(head, r + u, S)
  BY <1>1 DEF RxRing
<1>3. PICK h : h = (head + 1) % S
  OBVIOUS
<1>4. h = (IF head + 1 < S THEN head + 1 ELSE 0) /\ h \in 0 .. S - 1
  <2>1. 1 \in 0 .. S
    BY <1>1
  <2>2. h = (IF head + 1 < S THEN head + 1 ELSE head + 1 - S) /\ h \in 0 .. S - 1
    BY <1>1, <1>range, <1>3, <2>1, RingPlace
  <2>3. head + 1 < S \/ head + 1 - S = 0
    BY <1>1, <1>range
  <2> QED
    BY <2>2, <2>3
<1>5. ASSUME NEW k \in 0 .. S - 1 PROVE (h + k) % S = (head + (1 + k)) % S
  <2>1. 1 \in Nat /\ k \in Nat /\ 1 + k <= S
    BY <1>1
  <2>2. (((head + 1) % S) + k) % S = (head + (1 + k)) % S
    BY <1>1, <1>range, <2>1, RingSum
  <2> QED
    BY <1>3, <2>2
<1>6. /\ r - 1 \in Nat /\ r - 1 \in 0 .. S - 1 /\ (r - 1) + u \in 0 .. S - 1
      /\ 1 + (r - 1) = r /\ 1 + ((r - 1) + u) = r + u /\ (r + u) - 1 = (r - 1) + u /\ r + u \in 1 .. S
  BY <1>1, <1>range
<1>7. tail = (h + (r - 1)) % S
  BY <1>2, <1>5, <1>6
<1>8. rdh = (h + ((r - 1) + u)) % S
  BY <1>2, <1>5, <1>6
<1>9. done \ {head} = arc(h, (r - 1) + u, S)
  <2>1. arc(head, r + u, S) \ {head} = arc((head + 1) % S, (r + u) - 1, S)
    BY <1>1, <1>range, <1>6, ArcShrinks
  <2> QED
    BY <1>2, <1>3, <1>6, <2>1
<1>10. PICK s : s = r + u + o
  OBVIOUS
<1>11. rdt = IF head + s < S THEN head + s ELSE head + s - S
  <2>1. s \in 0 .. S
    BY <1>1, <1>range, <1>10
  <2>2. rdt = (head + s) % S
    BY <1>2, <1>10
  <2> QED
    BY <1>1, <1>range, <2>1, <2>2, RingPlace
<1>half. rdt = (IF head \in 1 .. B THEN 0 ELSE B)
  BY <1>2
<1>12. given_back(head) <=> head \in {0, B}
  BY <1>1, <1>range, GivenBack
<1>13. CASE given_back(head)
  <2>1. s = B
    BY <1>1, <1>range, <1>10, <1>11, <1>12, <1>13, <1>half
  <2>2. PICK t : t = (rdt + B) % S
    OBVIOUS
  <2>3. t = IF head = 0 THEN 0 ELSE B
    <3>1. rdt \in 0 .. S - 1 /\ B \in 0 .. S
      BY <1>1, <1>half
    <3>2. t = IF rdt + B < S THEN rdt + B ELSE rdt + B - S
      BY <1>1, <2>2, <3>1, RingPlace
    <3> QED
      BY <1>1, <1>range, <1>half, <1>12, <1>13, <3>2
  <2>4. PICK n : n = S - 1 - ((r - 1) + u)
    OBVIOUS
  <2>5. n \in Nat /\ (r - 1) + u + n = S - 1 /\ S - 1 \in 0 .. S /\ S - 1 \in 0 .. S - 1
    BY <1>1, <1>6, <2>4
  <2>6. t = (IF h \in 1 .. B THEN 0 ELSE B)
    BY <1>1, <1>range, <1>4, <1>12, <1>13, <2>3
  <2>7. t = (h + (S - 1)) % S
    <3>1. PICK x : x = (h + (S - 1)) % S
      OBVIOUS
    <3>2. x = IF h + (S - 1) < S THEN h + (S - 1) ELSE h + (S - 1) - S
      BY <1>1, <1>4, <2>5, <3>1, RingPlace
    <3>3. x = t
      BY <1>1, <1>range, <1>4, <1>12, <1>13, <2>3, <3>2
    <3> QED
      BY <3>1, <3>3
  <2>8. RxRing(h, tail, rdh, t, done \ {head}, r - 1, u, n)
    <3>1. (r - 1) + u + n < S /\ t = (h + ((r - 1) + u + n)) % S
      BY <1>1, <2>5, <2>7
    <3> QED
      BY <1>1, <1>range, <1>4, <1>6, <1>7, <1>8, <1>9, <2>5, <2>6, <3>1 DEF RxRing
  <2>9. rx_next(head, 1) = h /\ rx_next(rdt, E1000_RING_BOUNDARY) = t
    BY <1>1, <1>3, <2>2 DEF rx_next
  <2> QED
    BY <1>13, <2>5, <2>8, <2>9
<1>14. CASE ~given_back(head)
  <2>1. (r - 1) + u + o \in 0 .. S - 1 /\ (r - 1) + u + o < S /\ 1 + ((r - 1) + u + o) = r + u + o
    BY <1>1, <1>range, <1>6
  <2>2. rdt = (h + ((r - 1) + u + o)) % S
    BY <1>2, <1>5, <2>1
  <2>3. rdt = (IF h \in 1 .. B THEN 0 ELSE B)
    BY <1>1, <1>range, <1>half, <1>4, <1>12, <1>14
  <2>4. RxRing(h, tail, rdh, rdt, done \ {head}, r - 1, u, o)
    BY <1>1, <1>range, <1>4, <1>6, <1>7, <1>8, <1>9, <2>1, <2>2, <2>3 DEF RxRing
  <2>5. rx_next(head, 1) = h
    BY <1>1, <1>3 DEF rx_next
  <2> QED
    BY <1>range, <1>14, <2>4, <2>5
<1> QED
  BY <1>13, <1>14

(* A packet is sent from the first descriptor that the NIC owns.           *)
LEMMA TxSent ==
  ASSUME NEW head, NEW tdh, NEW tdt, NEW done, NEW t, NEW o,
         TxRing(head, tdh, tdt, done, t, o), tdh # tdt
  PROVE  /\ o > 0 /\ TxRing(head, tx_next(tdh, 1), tdt, done \cup {tdh}, t + 1, o - 1)
<1>1. PICK S : S = E1000_TX_RING_SIZE /\ S \in Nat \ {0}
  BY EthSizes
<1>range. head \in 0 .. S - 1 /\ t \in Nat /\ o \in Nat /\ t + o <= S /\ o < S
  BY <1>1 DEF TxRing
<1>2. /\ tdh = (head + t) % S /\ tdt = (head + (t + o)) % S
      /\ done = arc(head, t, S)
  BY <1>1 DEF TxRing
<1>3. o > 0
  <2>1. o = 0 => t + o = t
    BY <1>range
  <2>2. o = 0 => tdh = tdt
    BY <1>2, <2>1
  <2> QED
    BY <1>range, <2>2
<1>4. /\ 1 \in Nat /\ t + 1 \in Nat /\ o - 1 \in Nat /\ t + 1 <= S /\ (t + 1) + (o - 1) = t + o
      /\ t + o <= S /\ o - 1 < S
  BY <1>1, <1>range, <1>3
<1>5. (((head + t) % S) + 1) % S = (head + (t + 1)) % S
  BY <1>1, <1>range, <1>4, RingSum
<1>6. done \cup {tdh} = arc(head, t + 1, S)
  BY <1>1, <1>range, <1>2, ArcGrows
<1>7. tx_next(tdh, 1) = (head + (t + 1)) % S
  BY <1>1, <1>2, <1>5 DEF tx_next
<1>8. tdt = (head + ((t + 1) + (o - 1))) % S
  BY <1>2, <1>4
<1>9. TxRing(head, tx_next(tdh, 1), tdt, done \cup {tdh}, t + 1, o - 1)
  BY <1>1, <1>range, <1>4, <1>6, <1>7, <1>8 DEF TxRing
<1> QED
  BY <1>3, <1>9

(* What was sent is reclaimed.                                             *)
LEMMA TxReclaimed ==
  ASSUME NEW head, NEW tdh, NEW tdt, NEW done, NEW t, NEW o,
         TxRing(head, tdh, tdt, done, t, o)
  PROVE  /\ done_from(done, head, E1000_TX_RING_SIZE) = t
         /\ TxRing(tx_next(head, t), tdh, tdt, done \ {tx_next(head, k) : k \in 0 .. t - 1}, 0, o)
<1>1. PICK S : S = E1000_TX_RING_SIZE /\ S \in Nat \ {0}
  BY EthSizes
<1>range. head \in 0 .. S - 1 /\ t \in Nat /\ o \in Nat /\ t + o <= S /\ o < S
  BY <1>1 DEF TxRing
<1>2. /\ tdh = (head + t) % S /\ tdt = (head + (t + o)) % S
      /\ done = arc(head, t, S)
  BY <1>1 DEF TxRing
<1>3. PICK h : h = tx_next(head, t)
  OBVIOUS
<1>4. h = tdh /\ h \in 0 .. S - 1
  <2>1. t \in 0 .. S
    BY <1>1, <1>range
  <2>2. (head + t) % S \in 0 .. S - 1
    BY <1>1, <1>range, <2>1, RingPlace
  <2> QED
    BY <1>1, <1>2, <1>3, <2>2 DEF tx_next
<1>5. done \ {tx_next(head, k) : k \in 0 .. t - 1} = arc(h, 0, S)
  <2>1. {tx_next(head, k) : k \in 0 .. t - 1} = arc(head, t, S)
    BY <1>1 DEF arc, tx_next
  <2>2. 0 .. 0 - 1 = {}
    OBVIOUS
  <2>3. arc(h, 0, S) = {}
    BY <2>2 DEF arc
  <2> QED
    BY <1>2, <2>1, <2>3
<1>6. (h + o) % S = (head + (t + o)) % S
  <2>1. (((head + t) % S) + o) % S = (head + (t + o)) % S
    BY <1>1, <1>range, RingSum
  <2> QED
    BY <1>2, <1>4, <2>1
<1>7. 0 + o = o /\ h + 0 = h /\ h % S = h /\ o <= S /\ 0 \in Nat
  BY <1>1, <1>range, <1>4
<1>8. TxRing(h, tdh, tdt, arc(h, 0, S), 0, o)
  BY <1>1, <1>range, <1>2, <1>4, <1>6, <1>7 DEF TxRing
<1>9. done_from(done, head, S) = t
  <2>1. 0 + t = t /\ head + 0 = head /\ head % S = head /\ 0 + t <= S /\ 0 \in Nat
    BY <1>1, <1>range
  <2>2. PICK z : z = 0
    OBVIOUS
  <2>3. z \in Nat /\ z + t <= S /\ z + t = t /\ (head + z) % S = head
    BY <2>1, <2>2
  <2>4. done_from(arc(head, z + t, S), (head + z) % S, S) = t
    BY <1>1, <1>range, <2>2, <2>3, DoneFrom
  <2> QED
    BY <1>2, <2>3, <2>4
<1> QED
  BY <1>1, <1>3, <1>5, <1>8, <1>9

(* A packet is put behind those to be sent, when the ring has room but     *)
(* for one: the descriptor is no longer one that was sent.                 *)
LEMMA TxPut ==
  ASSUME NEW head, NEW tdh, NEW tdt, NEW done, NEW t, NEW o,
         TxRing(head, tdh, tdt, done, t, o), t + o < E1000_TX_RING_SIZE, tx_next(tdt, 1) # tdh
  PROVE  TxRing(head, tdh, tx_next(tdt, 1), done \ {tdt}, t, o + 1)
<1>1. PICK S : S = E1000_TX_RING_SIZE /\ S \in Nat \ {0}
  BY EthSizes
<1>range. head \in 0 .. S - 1 /\ t \in Nat /\ o \in Nat /\ t + o <= S /\ o < S /\ t + o < S
  BY <1>1 DEF TxRing
<1>2. /\ tdh = (head + t) % S /\ tdt = (head + (t + o)) % S
      /\ done = arc(head, t, S)
  BY <1>1 DEF TxRing
<1>3. PICK n : n = t + o
  OBVIOUS
<1>4. n \in Nat /\ n \in 0 .. S - 1 /\ n + 1 <= S /\ n + 1 = t + (o + 1) /\ 1 \in Nat /\ t \in 0 .. S /\ ~(n < t)
  BY <1>1, <1>range, <1>3
<1>5. tx_next(tdt, 1) = (head + (t + (o + 1))) % S
  <2>1. (((head + n) % S) + 1) % S = (head + (n + 1)) % S
    BY <1>1, <1>range, <1>4, RingSum
  <2> QED
    BY <1>1, <1>2, <1>3, <1>4, <2>1 DEF tx_next
<1>6. o + 1 < S
  <2>1. SUFFICES ASSUME o = S - 1 PROVE FALSE
    BY <1>1, <1>range
  <2>2. t = 0 /\ t + (o + 1) = S
    BY <1>1, <1>range, <2>1
  <2>3. (head + S) % S = head
    <3>1. PICK x : x = head + S /\ x \in S .. 2 * S - 1
      BY <1>1, <1>range
    <3>2. x % S = x - S
      BY <1>1, <3>1, OnceAround
    <3>3. x - S = head
      BY <1>1, <1>range, <3>1
    <3> QED
      BY <3>1, <3>2, <3>3
  <2>4. (head + t) % S = head
    <3>1. head + t = head /\ head % S = head
      BY <1>1, <1>range, <2>2
    <3> QED
      BY <3>1
  <2> QED
    BY <1>2, <1>5, <2>2, <2>3, <2>4
<1>7. done \ {tdt} = arc(head, t, S)
  <2>1. (head + n) % S \in arc(head, t, S) <=> n < t
    BY <1>1, <1>range, <1>4, ArcMember
  <2> QED
    BY <1>2, <1>3, <1>4, <2>1
<1>8. o + 1 \in Nat /\ t + (o + 1) <= S
  BY <1>1, <1>range
<1> QED
  BY <1>1, <1>range, <1>2, <1>5, <1>6, <1>7, <1>8 DEF TxRing

-----------------------------------------------------------------------------
(***************************************************************************)
(* The steps of the driver and the NIC.                                    *)
(***************************************************************************)

(* It is enough to name the lengths.                                       *)
LEMMA RxNamed ==
  ASSUME NEW e, NEW r, NEW u, NEW o, RxKnown(e, r, u, o)
  PROVE  RxSound(e)
<1>1. r \in Nat /\ u \in Nat /\ o \in Nat /\ r + u + o < E1000_RX_RING_SIZE
  BY DEF RxKnown, RxRing
<1>2. {r, u, o} \subseteq 0 .. E1000_RX_RING_SIZE
  BY <1>1, EthSizes
<1> QED
  BY <1>2 DEF RxSound

LEMMA TxNamed ==
  ASSUME NEW e, NEW t, NEW o, TxKnown(e, t, o)
  PROVE  TxSound(e)
<1>1. t \in Nat /\ o \in Nat /\ t + o <= E1000_TX_RING_SIZE
  BY DEF TxKnown, TxRing
<1>2. {t, o} \subseteq 0 .. E1000_TX_RING_SIZE
  BY <1>1, EthSizes
<1> QED
  BY <1>2 DEF TxSound

(* A step that leaves a ring and its users alone.                          *)
LEMMA UsersSame ==
  ASSUME NEW U, NEW sem, NEW at, Waiters(sem, U, at), NEW a, \A q \in U : a[q] = at[q]
  PROVE  Waiters(sem, U, a) /\ Cardinality(going(U, a)) = Cardinality(going(U, at))
<1>1. going(U, a) = going(U, at)
  BY DEF going
<1>2. Waiters(sem, U, a)
  BY DEF Waiters
<1> QED
  BY <1>1, <1>2, Zenon

LEMMA RxSame ==
  ASSUME NEW e, NEW f, RxSound(e), f.rxHead = e.rxHead, f.rxTail = e.rxTail, f.rdh = e.rdh,
         f.rdt = e.rdt, f.rxdone = e.rxdone, f.rxt0 = e.rxt0, f.isem = e.isem,
         \A q \in EthReaders : f.at[q] = e.at[q]
  PROVE  RxSound(f)
<1>1. PICK r, u, o \in 0 .. E1000_RX_RING_SIZE : RxKnown(e, r, u, o)
  BY DEF RxSound
<1>2. /\ Waiters(e.isem, EthReaders, f.at)
      /\ Cardinality(going(EthReaders, f.at)) = Cardinality(going(EthReaders, e.at))
  BY <1>1, UsersSame DEF RxKnown
<1>3. RxKnown(f, r, u, o)
  BY <1>1, <1>2 DEF RxKnown
<1> QED
  BY <1>3, RxNamed

LEMMA TxSame ==
  ASSUME NEW e, NEW f, TxSound(e), f.txHead = e.txHead, f.tdh = e.tdh, f.tdt = e.tdt,
         f.txdone = e.txdone, f.txdw = e.txdw, f.osem = e.osem,
         \A q \in EthWriters : f.at[q] = e.at[q]
  PROVE  TxSound(f)
<1>1. PICK t, o \in 0 .. E1000_TX_RING_SIZE : TxKnown(e, t, o)
  BY DEF TxSound
<1>2. /\ Waiters(e.osem, EthWriters, f.at)
      /\ Cardinality(going(EthWriters, f.at)) = Cardinality(going(EthWriters, e.at))
  BY <1>1, UsersSame DEF TxKnown
<1>3. TxKnown(f, t, o)
  BY <1>1, <1>2 DEF TxKnown
<1> QED
  BY <1>3, TxNamed

(* A process that waits leaves its ring as it is.                          *)
LEMMA RxWaits ==
  ASSUME NEW e, NEW f, RxSound(e), NEW p \in EthReaders, e.at[p] = "idle", blocks(e.isem),
         f.rxHead = e.rxHead, f.rxTail = e.rxTail, f.rdh = e.rdh,
         f.rdt = e.rdt, f.rxdone = e.rxdone, f.rxt0 = e.rxt0, f.isem = waited(e.isem, p),
         f.at[p] = "wait", \A q \in EthReaders \ {p} : f.at[q] = e.at[q]
  PROVE  RxSound(f)
<1>1. PICK r, u, o \in 0 .. E1000_RX_RING_SIZE : RxKnown(e, r, u, o)
  BY DEF RxSound
<1>2. e.at[p] \notin {"wait", "go_on"} /\ Waiters(e.isem, EthReaders, e.at)
  BY <1>1 DEF RxKnown
<1>3. /\ Waiters(waited(e.isem, p), EthReaders, f.at) /\ counted(waited(e.isem, p)) = counted(e.isem)
      /\ Cardinality(going(EthReaders, f.at)) = Cardinality(going(EthReaders, e.at))
  BY <1>2, QueueJoined
<1>4. RxKnown(f, r, u, o)
  BY <1>1, <1>3 DEF RxKnown
<1> QED
  BY <1>4, RxNamed

LEMMA TxWaits ==
  ASSUME NEW e, NEW f, TxSound(e), NEW p \in EthWriters, e.at[p] = "idle", blocks(e.osem),
         f.txHead = e.txHead, f.tdh = e.tdh, f.tdt = e.tdt,
         f.txdone = e.txdone, f.txdw = e.txdw, f.osem = waited(e.osem, p),
         f.at[p] = "wait", \A q \in EthWriters \ {p} : f.at[q] = e.at[q]
  PROVE  TxSound(f)
<1>1. PICK t, o \in 0 .. E1000_TX_RING_SIZE : TxKnown(e, t, o)
  BY DEF TxSound
<1>2. e.at[p] \notin {"wait", "go_on"} /\ Waiters(e.osem, EthWriters, e.at)
  BY <1>1 DEF TxKnown
<1>3. /\ Waiters(waited(e.osem, p), EthWriters, f.at) /\ counted(waited(e.osem, p)) = counted(e.osem)
      /\ Cardinality(going(EthWriters, f.at)) = Cardinality(going(EthWriters, e.at))
  BY <1>2, QueueJoined
<1>4. TxKnown(f, t, o)
  BY <1>1, <1>3 DEF TxKnown
<1> QED
  BY <1>4, TxNamed

(* A process that goes on takes one of what was counted or promised.       *)
LEMMA UserTakes ==
  ASSUME NEW U, IsFiniteSet(U), NEW sem, NEW at, Waiters(sem, U, at), NEW p \in U,
         at[p] = "go_on" \/ (at[p] = "idle" /\ ~blocks(sem)),
         NEW d, d = (IF at[p] = "idle" THEN waited(sem, p) ELSE sem),
         NEW a, a[p] = "idle", \A q \in U \ {p} : a[q] = at[q],
         NEW n, n = counted(sem) + Cardinality(going(U, at))
  PROVE  /\ Waiters(d, U, a) /\ n \in Nat \ {0}
         /\ counted(d) + Cardinality(going(U, a)) = n - 1
<1>1. PICK c, g : c = counted(sem) /\ g = Cardinality(going(U, at))
  OBVIOUS
<1>2. c \in Nat /\ g \in Nat
  BY <1>1, GoingFinite, CountedNat DEF Waiters
<1>3. a[p] \notin {"wait", "go_on"}
  OBVIOUS
<1>4. CASE at[p] = "go_on"
  <2>1. /\ Waiters(sem, U, a) /\ Cardinality(going(U, at)) \in Nat \ {0}
        /\ Cardinality(going(U, a)) = Cardinality(going(U, at)) - 1
    BY <1>3, <1>4, QueueWent
  <2>2. d = sem
    BY <1>4
  <2>3. g \in Nat \ {0} /\ Cardinality(going(U, a)) = g - 1 /\ counted(d) = c
    BY <1>1, <2>1, <2>2
  <2>4. n = c + g
    BY <1>1
  <2>5. n \in Nat \ {0} /\ c + (g - 1) = n - 1
    BY <1>2, <2>3, <2>4
  <2>6. counted(d) + Cardinality(going(U, a)) = n - 1
    BY <2>3, <2>5, Zenon
  <2> QED
    BY <2>1, <2>2, <2>5, <2>6
<1>5. CASE at[p] = "idle" /\ ~blocks(sem)
  <2>1. at[p] \notin {"wait", "go_on"} /\ ~blocks(sem)
    BY <1>5
  <2>2. /\ Waiters(waited(sem, p), U, a) /\ counted(sem) \in Nat \ {0}
        /\ counted(waited(sem, p)) = counted(sem) - 1
        /\ Cardinality(going(U, a)) = Cardinality(going(U, at))
    BY <1>3, <2>1, QueuePassed
  <2>3. d = waited(sem, p)
    BY <1>5
  <2>4. c \in Nat \ {0} /\ counted(d) = c - 1 /\ Cardinality(going(U, a)) = g
    BY <1>1, <2>2, <2>3
  <2>5. n = c + g
    BY <1>1
  <2>6. n \in Nat \ {0} /\ (c - 1) + g = n - 1
    BY <1>2, <2>4, <2>5
  <2>7. counted(d) + Cardinality(going(U, a)) = n - 1
    BY <2>4, <2>6, Zenon
  <2> QED
    BY <2>2, <2>3, <2>6, <2>7
<1> QED
  BY <1>4, <1>5

(* ethread and ethwrite of a process that need not wait any more.          *)
LEMMA RxTakes ==
  ASSUME NEW e, NEW f, RxSound(e), NEW p \in EthReaders,
         e.at[p] = "go_on" \/ (e.at[p] = "idle" /\ ~blocks(e.isem)),
         f.isem = (IF e.at[p] = "idle" THEN waited(e.isem, p) ELSE e.isem),
         f.rxdone = e.rxdone \ {e.rxHead}, f.rxHead = rx_next(e.rxHead, 1), f.rxTail = e.rxTail,
         f.rdt = (IF given_back(e.rxHead) THEN rx_next(e.rdt, E1000_RING_BOUNDARY) ELSE e.rdt),
         f.rdh = e.rdh, f.rxt0 = e.rxt0,
         f.at[p] = "idle", \A q \in EthReaders \ {p} : f.at[q] = e.at[q]
  PROVE  RxSound(f)
<1>1. PICK r, u, o \in 0 .. E1000_RX_RING_SIZE : RxKnown(e, r, u, o)
  BY DEF RxSound
<1>2. /\ RxRing(e.rxHead, e.rxTail, e.rdh, e.rdt, e.rxdone, r, u, o)
      /\ e.rxt0 \/ u = 0
      /\ Waiters(e.isem, EthReaders, e.at)
      /\ counted(e.isem) + Cardinality(going(EthReaders, e.at)) = r
  BY <1>1 DEF RxKnown
<1>3. PICK d : d = f.isem /\ d = IF e.at[p] = "idle" THEN waited(e.isem, p) ELSE e.isem
  OBVIOUS
<1>4. Waiters(e.isem, EthReaders, e.at) /\ IsFiniteSet(EthReaders)
  BY <1>2, EthSizes
<1>5. /\ Waiters(d, EthReaders, f.at) /\ r \in Nat \ {0}
      /\ counted(d) + Cardinality(going(EthReaders, f.at)) = r - 1
  BY <1>2, <1>3, <1>4, UserTakes
<1>6. r > 0
  BY <1>5
<1>7. PICK n \in Nat :
        RxRing(rx_next(e.rxHead, 1), e.rxTail, e.rdh,
               IF given_back(e.rxHead) THEN rx_next(e.rdt, E1000_RING_BOUNDARY) ELSE e.rdt,
               e.rxdone \ {e.rxHead}, r - 1, u, n)
  BY <1>2, <1>6, RxRead
<1>8. RxRing(f.rxHead, f.rxTail, f.rdh, f.rdt, f.rxdone, r - 1, u, n)
  BY <1>7, Zenon
<1>9. RxKnown(f, r - 1, u, n)
  BY <1>2, <1>3, <1>5, <1>6, <1>8 DEF RxKnown
<1> QED
  BY <1>9, RxNamed

LEMMA TxTakes ==
  ASSUME NEW e, NEW f, TxSound(e), NEW p \in EthWriters,
         e.at[p] = "go_on" \/ (e.at[p] = "idle" /\ ~blocks(e.osem)),
         f.osem = (IF e.at[p] = "idle" THEN waited(e.osem, p) ELSE e.osem),
         tx_next(e.tdt, 1) # e.tdh,
         f.txdone = e.txdone \ {e.tdt}, f.tdt = tx_next(e.tdt, 1), f.tdh = e.tdh,
         f.txHead = e.txHead, f.txdw = e.txdw,
         f.at[p] = "idle", \A q \in EthWriters \ {p} : f.at[q] = e.at[q]
  PROVE  TxSound(f)
<1>1. PICK t, o \in 0 .. E1000_TX_RING_SIZE : TxKnown(e, t, o)
  BY DEF TxSound
<1>2. /\ TxRing(e.txHead, e.tdh, e.tdt, e.txdone, t, o)
      /\ e.txdw \/ t = 0
      /\ Waiters(e.osem, EthWriters, e.at)
      /\ counted(e.osem) + Cardinality(going(EthWriters, e.at)) + (t + o) = E1000_TX_RING_SIZE
  BY <1>1 DEF TxKnown
<1>3. PICK d : d = f.osem /\ d = IF e.at[p] = "idle" THEN waited(e.osem, p) ELSE e.osem
  OBVIOUS
<1>4. Waiters(e.osem, EthWriters, e.at) /\ IsFiniteSet(EthWriters)
  BY <1>2, EthSizes
<1>5. PICK w : w = counted(e.osem) + Cardinality(going(EthWriters, e.at))
  OBVIOUS
<1>6. /\ Waiters(d, EthWriters, f.at) /\ w \in Nat \ {0}
      /\ counted(d) + Cardinality(going(EthWriters, f.at)) = w - 1
  BY <1>3, <1>4, <1>5, UserTakes
<1>7. w \in Nat \ {0} /\ w + (t + o) = E1000_TX_RING_SIZE
  BY <1>2, <1>5, <1>6, Zenon
<1>8. t + o < E1000_TX_RING_SIZE /\ (w - 1) + (t + (o + 1)) = E1000_TX_RING_SIZE
  BY <1>7, EthSizes
<1>9. TxRing(e.txHead, e.tdh, tx_next(e.tdt, 1), e.txdone \ {e.tdt}, t, o + 1)
  BY <1>2, <1>8, TxPut
<1>10. TxRing(f.txHead, f.tdh, f.tdt, f.txdone, t, o + 1)
  BY <1>9, Zenon
<1>11. TxKnown(f, t, o + 1)
  BY <1>2, <1>3, <1>6, <1>8, <1>10 DEF TxKnown
<1> QED
  BY <1>11, TxNamed

(* The NIC receives and sends.                                             *)
LEMMA NicReceives ==
  ASSUME EthTyped(eth), RxSound(eth), nic_receive
  PROVE  EthTyped(eth') /\ RxSound(eth') /\ (TxSound(eth) => TxSound(eth'))
<1>1. /\ eth' = [rdh |-> rx_next(eth.rdh, 1), rdt |-> eth.rdt, rxdone |-> eth.rxdone \cup {eth.rdh},
                 rxHead |-> eth.rxHead, rxTail |-> eth.rxTail, isem |-> eth.isem,
                 tdh |-> eth.tdh, tdt |-> eth.tdt, txdone |-> eth.txdone, txHead |-> eth.txHead,
                 osem |-> eth.osem, rxt0 |-> TRUE, txdw |-> eth.txdw, at |-> eth.at]
      /\ eth.rdh # eth.rdt
  BY DEF nic_receive, EthTyped
<1>2. EthTyped(eth')
  BY <1>1 DEF EthTyped
<1>3. TxSound(eth) => TxSound(eth')
  BY <1>1, TxSame
<1>4. PICK r, u, o \in 0 .. E1000_RX_RING_SIZE : RxKnown(eth, r, u, o)
  BY DEF RxSound
<1>5. RxRing(eth.rxHead, eth.rxTail, rx_next(eth.rdh, 1), eth.rdt, eth.rxdone \cup {eth.rdh}, r, u + 1, o - 1)
  <2>1. RxRing(eth.rxHead, eth.rxTail, eth.rdh, eth.rdt, eth.rxdone, r, u, o) /\ eth.rdh # eth.rdt
    BY <1>1, <1>4 DEF RxKnown
  <2> QED
    BY <2>1, RxArrives
<1>6. RxKnown(eth', r, u + 1, o - 1)
  <2>1. /\ eth'.rxHead = eth.rxHead /\ eth'.rxTail = eth.rxTail /\ eth'.rdh = rx_next(eth.rdh, 1)
        /\ eth'.rdt = eth.rdt /\ eth'.rxdone = eth.rxdone \cup {eth.rdh} /\ eth'.rxt0 = TRUE
        /\ eth'.isem = eth.isem /\ eth'.at = eth.at
    BY <1>1
  <2> QED
    BY <1>4, <1>5, <2>1 DEF RxKnown
<1> QED
  BY <1>2, <1>3, <1>6, RxNamed

LEMMA NicTransmits ==
  ASSUME EthTyped(eth), TxSound(eth), nic_transmit
  PROVE  EthTyped(eth') /\ TxSound(eth') /\ (RxSound(eth) => RxSound(eth'))
<1>1. /\ eth' = [rdh |-> eth.rdh, rdt |-> eth.rdt, rxdone |-> eth.rxdone,
                 rxHead |-> eth.rxHead, rxTail |-> eth.rxTail, isem |-> eth.isem,
                 tdh |-> tx_next(eth.tdh, 1), tdt |-> eth.tdt, txdone |-> eth.txdone \cup {eth.tdh},
                 txHead |-> eth.txHead,
                 osem |-> eth.osem, rxt0 |-> eth.rxt0, txdw |-> TRUE, at |-> eth.at]
      /\ eth.tdh # eth.tdt
  BY DEF nic_transmit, EthTyped
<1>2. EthTyped(eth')
  BY <1>1 DEF EthTyped
<1>3. RxSound(eth) => RxSound(eth')
  BY <1>1, RxSame
<1>4. PICK t, o \in 0 .. E1000_TX_RING_SIZE : TxKnown(eth, t, o)
  BY DEF TxSound
<1>5. TxRing(eth.txHead, tx_next(eth.tdh, 1), eth.tdt, eth.txdone \cup {eth.tdh}, t + 1, o - 1)
  <2>1. TxRing(eth.txHead, eth.tdh, eth.tdt, eth.txdone, t, o) /\ eth.tdh # eth.tdt
    BY <1>1, <1>4 DEF TxKnown
  <2> QED
    BY <2>1, TxSent
<1>6. TxKnown(eth', t + 1, o - 1)
  <2>1. /\ eth'.txHead = eth.txHead /\ eth'.tdh = tx_next(eth.tdh, 1)
        /\ eth'.tdt = eth.tdt /\ eth'.txdone = eth.txdone \cup {eth.tdh} /\ eth'.txdw = TRUE
        /\ eth'.osem = eth.osem /\ eth'.at = eth.at
    BY <1>1
  <2>2. (t + 1) + (o - 1) = t + o
    OBVIOUS
  <2>3. counted(eth.osem) + Cardinality(going(EthWriters, eth.at)) + (t + o) = E1000_TX_RING_SIZE
    BY <1>4 DEF TxKnown
  <2>4. counted(eth'.osem) + Cardinality(going(EthWriters, eth'.at)) + ((t + 1) + (o - 1)) = E1000_TX_RING_SIZE
    BY <2>1, <2>2, <2>3
  <2> QED
    BY <1>4, <1>5, <2>1, <2>4 DEF TxKnown
<1> QED
  BY <1>2, <1>3, <1>6, TxNamed

(* The processes.                                                          *)
LEMMA EthUserSteps ==
  ASSUME EthTyped(eth), RxSound(eth), TxSound(eth), ~FillTx,
         \/ \E p \in EthReaders : ethread_wait(p) \/ ethread(p)
         \/ \E p \in EthWriters : ethwrite_wait(p) \/ ethwrite(p)
  PROVE  EthTyped(eth') /\ RxSound(eth') /\ TxSound(eth')
<1>1. ASSUME NEW p \in EthUsers, NEW c \in EthPoints
      PROVE  /\ [eth.at EXCEPT ![p] = c] \in [EthUsers -> EthPoints]
             /\ [eth.at EXCEPT ![p] = c][p] = c
             /\ \A q : q # p => [eth.at EXCEPT ![p] = c][q] = eth.at[q]
  BY DEF EthTyped
<1>2. ASSUME NEW p \in EthReaders, ethread_wait(p)
      PROVE  EthTyped(eth') /\ RxSound(eth') /\ TxSound(eth')
  <2>1. PICK a : a = [eth.at EXCEPT ![p] = "wait"]
    OBVIOUS
  <2>2. /\ eth' = [rdh |-> eth.rdh, rdt |-> eth.rdt, rxdone |-> eth.rxdone,
                   rxHead |-> eth.rxHead, rxTail |-> eth.rxTail, isem |-> waited(eth.isem, p),
                   tdh |-> eth.tdh, tdt |-> eth.tdt, txdone |-> eth.txdone, txHead |-> eth.txHead,
                   osem |-> eth.osem, rxt0 |-> eth.rxt0, txdw |-> eth.txdw, at |-> a]
        /\ eth.at[p] = "idle" /\ blocks(eth.isem)
    BY <1>2, <2>1 DEF ethread_wait, eth_wait, EthTyped
  <2>3. /\ a \in [EthUsers -> EthPoints] /\ a[p] = "wait"
        /\ \A q : q # p => a[q] = eth.at[q]
        /\ p \notin EthWriters
    BY <1>1, <2>1, EthSizes DEF EthPoints, EthUsers
  <2>4. EthTyped(eth')
    BY <2>2, <2>3 DEF EthTyped
  <2>5. RxSound(eth')
    BY <2>2, <2>3, RxWaits
  <2>6. TxSound(eth')
    BY <2>2, <2>3, TxSame
  <2> QED
    BY <2>4, <2>5, <2>6
<1>3. ASSUME NEW p \in EthReaders, ethread(p)
      PROVE  EthTyped(eth') /\ RxSound(eth') /\ TxSound(eth')
  <2>1. PICK a, d, t : /\ a = [eth.at EXCEPT ![p] = "idle"]
                       /\ d = (IF eth.at[p] = "idle" THEN waited(eth.isem, p) ELSE eth.isem)
                       /\ t = (IF given_back(eth.rxHead) THEN rx_next(eth.rdt, E1000_RING_BOUNDARY) ELSE eth.rdt)
    OBVIOUS
  <2>2. /\ eth' = [rdh |-> eth.rdh, rdt |-> t, rxdone |-> eth.rxdone \ {eth.rxHead},
                   rxHead |-> rx_next(eth.rxHead, 1), rxTail |-> eth.rxTail, isem |-> d,
                   tdh |-> eth.tdh, tdt |-> eth.tdt, txdone |-> eth.txdone, txHead |-> eth.txHead,
                   osem |-> eth.osem, rxt0 |-> eth.rxt0, txdw |-> eth.txdw, at |-> a]
        /\ eth.at[p] = "go_on" \/ (eth.at[p] = "idle" /\ ~blocks(eth.isem))
    BY <1>3, <2>1 DEF ethread, EthTyped
  <2>3. /\ a \in [EthUsers -> EthPoints] /\ a[p] = "idle"
        /\ \A q : q # p => a[q] = eth.at[q]
        /\ p \notin EthWriters
    BY <1>1, <2>1, EthSizes DEF EthPoints, EthUsers
  <2>4. EthTyped(eth')
    BY <2>2, <2>3 DEF EthTyped
  <2>5. RxSound(eth')
    <3>1. /\ eth'.isem = d /\ eth'.rxdone = eth.rxdone \ {eth.rxHead}
          /\ eth'.rxHead = rx_next(eth.rxHead, 1) /\ eth'.rxTail = eth.rxTail
          /\ eth'.rdt = t /\ eth'.rdh = eth.rdh /\ eth'.rxt0 = eth.rxt0 /\ eth'.at = a
      BY <2>2
    <3>2. eth'.isem = (IF eth.at[p] = "idle" THEN waited(eth.isem, p) ELSE eth.isem)
      BY <2>1, <3>1
    <3>3. eth'.rdt = (IF given_back(eth.rxHead) THEN rx_next(eth.rdt, E1000_RING_BOUNDARY) ELSE eth.rdt)
      BY <2>1, <3>1
    <3>4. eth'.at[p] = "idle" /\ \A q \in EthReaders \ {p} : eth'.at[q] = eth.at[q]
      BY <2>3, <3>1
    <3>5. eth.at[p] = "go_on" \/ (eth.at[p] = "idle" /\ ~blocks(eth.isem))
      BY <2>2
    <3> QED
      BY <3>1, <3>2, <3>3, <3>4, <3>5, RxTakes
  <2>6. TxSound(eth')
    BY <2>2, <2>3, TxSame
  <2> QED
    BY <2>4, <2>5, <2>6
<1>4. ASSUME NEW p \in EthWriters, ethwrite_wait(p)
      PROVE  EthTyped(eth') /\ RxSound(eth') /\ TxSound(eth')
  <2>1. PICK a : a = [eth.at EXCEPT ![p] = "wait"]
    OBVIOUS
  <2>2. /\ eth' = [rdh |-> eth.rdh, rdt |-> eth.rdt, rxdone |-> eth.rxdone,
                   rxHead |-> eth.rxHead, rxTail |-> eth.rxTail, isem |-> eth.isem,
                   tdh |-> eth.tdh, tdt |-> eth.tdt, txdone |-> eth.txdone, txHead |-> eth.txHead,
                   osem |-> waited(eth.osem, p), rxt0 |-> eth.rxt0, txdw |-> eth.txdw, at |-> a]
        /\ eth.at[p] = "idle" /\ blocks(eth.osem)
    BY <1>4, <2>1 DEF ethwrite_wait, eth_wait, EthTyped
  <2>3. /\ a \in [EthUsers -> EthPoints] /\ a[p] = "wait"
        /\ \A q : q # p => a[q] = eth.at[q]
        /\ p \notin EthReaders
    BY <1>1, <2>1, EthSizes DEF EthPoints, EthUsers
  <2>4. EthTyped(eth')
    BY <2>2, <2>3 DEF EthTyped
  <2>5. TxSound(eth')
    BY <2>2, <2>3, TxWaits
  <2>6. RxSound(eth')
    BY <2>2, <2>3, RxSame
  <2> QED
    BY <2>4, <2>5, <2>6
<1>5. ASSUME NEW p \in EthWriters, ethwrite(p)
      PROVE  EthTyped(eth') /\ RxSound(eth') /\ TxSound(eth')
  <2>1. PICK a, d : /\ a = [eth.at EXCEPT ![p] = "idle"]
                    /\ d = IF eth.at[p] = "idle" THEN waited(eth.osem, p) ELSE eth.osem
    OBVIOUS
  <2>2. /\ eth' = [rdh |-> eth.rdh, rdt |-> eth.rdt, rxdone |-> eth.rxdone,
                   rxHead |-> eth.rxHead, rxTail |-> eth.rxTail, isem |-> eth.isem,
                   tdh |-> eth.tdh, tdt |-> tx_next(eth.tdt, 1), txdone |-> eth.txdone \ {eth.tdt},
                   txHead |-> eth.txHead,
                   osem |-> d, rxt0 |-> eth.rxt0, txdw |-> eth.txdw, at |-> a]
        /\ eth.at[p] = "go_on" \/ (eth.at[p] = "idle" /\ ~blocks(eth.osem))
        /\ tx_next(eth.tdt, 1) # eth.tdh
    BY <1>5, <2>1 DEF ethwrite, EthTyped
  <2>3. /\ a \in [EthUsers -> EthPoints] /\ a[p] = "idle"
        /\ \A q : q # p => a[q] = eth.at[q]
        /\ p \notin EthReaders
    BY <1>1, <2>1, EthSizes DEF EthPoints, EthUsers
  <2>4. EthTyped(eth')
    BY <2>2, <2>3 DEF EthTyped
  <2>5. TxSound(eth')
    <3>1. /\ eth'.osem = d /\ eth'.txdone = eth.txdone \ {eth.tdt}
          /\ eth'.tdt = tx_next(eth.tdt, 1) /\ eth'.txHead = eth.txHead
          /\ eth'.tdh = eth.tdh /\ eth'.txdw = eth.txdw /\ eth'.at = a
      BY <2>2
    <3>2. eth'.osem = (IF eth.at[p] = "idle" THEN waited(eth.osem, p) ELSE eth.osem)
      BY <2>1, <3>1
    <3>4. eth'.at[p] = "idle" /\ \A q \in EthWriters \ {p} : eth'.at[q] = eth.at[q]
      BY <2>3, <3>1
    <3>5. /\ eth.at[p] = "go_on" \/ (eth.at[p] = "idle" /\ ~blocks(eth.osem))
          /\ tx_next(eth.tdt, 1) # eth.tdh
      BY <2>2
    <3> QED
      BY <3>1, <3>2, <3>4, <3>5, TxTakes
  <2>6. RxSound(eth')
    BY <2>2, <2>3, RxSame
  <2> QED
    BY <2>4, <2>5, <2>6
<1> QED
  BY <1>2, <1>3, <1>4, <1>5

(* What was signalled of the one semaphore lets nobody through who uses    *)
(* the other.                                                              *)
LEMMA OthersNotWoken ==
  ASSUME NEW U, NEW sem, NEW at, Waiters(sem, U, at), NEW n \in Nat
  PROVE  wokenn(sem, n) \subseteq U
<1>1. IsSem(sem, U) /\ ToSet(sem.squeue) \subseteq U
  BY DEF Waiters
<1>2. LET j == least(n, Len(sem.squeue))
          V == wokenn(sem, n)
      IN  /\ IsSem(signalledn(sem, n), U)
          /\ V \subseteq ToSet(sem.squeue)
          /\ ToSet(signalledn(sem, n).squeue) = ToSet(sem.squeue) \ V
          /\ IsFiniteSet(V) /\ Cardinality(V) = j /\ j \in Nat
          /\ counted(signalledn(sem, n)) = counted(sem) + n - j
  BY <1>1, SemSignalledN
<1> QED
  BY <1>1, <1>2

(* The interrupt counts as many packets as arrived, when one did, and      *)
(* otherwise none are left to count.                                       *)
LEMMA RxHandled ==
  ASSUME NEW e, NEW f, RxSound(e), NEW n,
         n = (IF e.rxt0 THEN done_from(e.rxdone, e.rxTail, E1000_RX_RING_SIZE) ELSE 0),
         f.rxHead = e.rxHead, f.rxTail = rx_next(e.rxTail, n), f.rdh = e.rdh, f.rdt = e.rdt,
         f.rxdone = e.rxdone, f.isem = signalledn(e.isem, n),
         \A q \in EthReaders : f.at[q] = IF q \in wokenn(e.isem, n) THEN "go_on" ELSE e.at[q]
  PROVE  RxSound(f)
<1>1. PICK r, u, o \in 0 .. E1000_RX_RING_SIZE : RxKnown(e, r, u, o)
  BY DEF RxSound
<1>2. /\ RxRing(e.rxHead, e.rxTail, e.rdh, e.rdt, e.rxdone, r, u, o)
      /\ e.rxt0 \/ u = 0
      /\ Waiters(e.isem, EthReaders, e.at)
      /\ counted(e.isem) + Cardinality(going(EthReaders, e.at)) = r
  BY <1>1 DEF RxKnown
<1>3. n = u
  <2>1. done_from(e.rxdone, e.rxTail, E1000_RX_RING_SIZE) = u
    BY <1>2, RxCounted
  <2> QED
    BY <1>2, <2>1
<1>4. RxRing(e.rxHead, rx_next(e.rxTail, u), e.rdh, e.rdt, e.rxdone, r + u, 0, o)
  BY <1>2, RxCounted
<1>5. /\ Waiters(signalledn(e.isem, n), EthReaders, f.at)
      /\ counted(signalledn(e.isem, n)) + Cardinality(going(EthReaders, f.at))
           = counted(e.isem) + Cardinality(going(EthReaders, e.at)) + n
  <2>1. n \in Nat /\ IsFiniteSet(EthReaders)
    BY <1>3, EthSizes
  <2>2. LET s == signalledn(e.isem, n)
        IN  /\ Waiters(s, EthReaders, f.at)
            /\ wokenn(e.isem, n) \subseteq {q \in EthReaders : e.at[q] = "wait"}
            /\ counted(s) + Cardinality(going(EthReaders, f.at))
                 = counted(e.isem) + Cardinality(going(EthReaders, e.at)) + n
    BY <1>2, <2>1, QueueSignalled
  <2> QED
    BY <2>2
<1>6. counted(f.isem) + Cardinality(going(EthReaders, f.at)) = r + u
  BY <1>2, <1>3, <1>5, Zenon
<1>7. RxRing(f.rxHead, f.rxTail, f.rdh, f.rdt, f.rxdone, r + u, 0, o)
  BY <1>3, <1>4, Zenon
<1>8. Waiters(f.isem, EthReaders, f.at)
  BY <1>5, Zenon
<1>9. RxKnown(f, r + u, 0, o)
  BY <1>6, <1>7, <1>8 DEF RxKnown
<1> QED
  BY <1>9, RxNamed

(* It reclaims what was sent, likewise.                                    *)
LEMMA TxHandled ==
  ASSUME NEW e, NEW f, TxSound(e), NEW n,
         n = (IF e.txdw THEN done_from(e.txdone, e.txHead, E1000_TX_RING_SIZE) ELSE 0),
         f.txHead = tx_next(e.txHead, n), f.tdh = e.tdh, f.tdt = e.tdt,
         f.txdone = e.txdone \ {tx_next(e.txHead, k) : k \in 0 .. n - 1},
         f.osem = signalledn(e.osem, n),
         \A q \in EthWriters : f.at[q] = IF q \in wokenn(e.osem, n) THEN "go_on" ELSE e.at[q]
  PROVE  TxSound(f)
<1>1. PICK t, o \in 0 .. E1000_TX_RING_SIZE : TxKnown(e, t, o)
  BY DEF TxSound
<1>2. /\ TxRing(e.txHead, e.tdh, e.tdt, e.txdone, t, o)
      /\ e.txdw \/ t = 0
      /\ Waiters(e.osem, EthWriters, e.at)
      /\ counted(e.osem) + Cardinality(going(EthWriters, e.at)) + (t + o) = E1000_TX_RING_SIZE
  BY <1>1 DEF TxKnown
<1>3. n = t
  <2>1. TxRing(e.txHead, e.tdh, e.tdt, e.txdone, t, o)
    BY <1>2
  <2>2. done_from(e.txdone, e.txHead, E1000_TX_RING_SIZE) = t
    <3>1. PICK h, d, a, b : h = e.txHead /\ d = e.txdone /\ a = e.tdh /\ b = e.tdt
      OBVIOUS
    <3>2. TxRing(h, a, b, d, t, o)
      BY <2>1, <3>1
    <3>3. done_from(d, h, E1000_TX_RING_SIZE) = t
      BY <3>2, TxReclaimed
    <3> QED
      BY <3>1, <3>3
  <2>3. CASE e.txdw
    <3>1. n = done_from(e.txdone, e.txHead, E1000_TX_RING_SIZE)
      BY <2>3
    <3> QED
      BY <3>1, <2>2, Zenon
  <2>4. CASE ~e.txdw
    <3>1. n = 0 /\ t = 0
      BY <1>2, <2>4
    <3> QED
      BY <3>1, Zenon
  <2> QED
    BY <2>3, <2>4
<1>4. TxRing(tx_next(e.txHead, t), e.tdh, e.tdt,
             e.txdone \ {tx_next(e.txHead, k) : k \in 0 .. t - 1}, 0, o)
  BY <1>2, TxReclaimed
<1>5. /\ Waiters(signalledn(e.osem, n), EthWriters, f.at)
      /\ counted(signalledn(e.osem, n)) + Cardinality(going(EthWriters, f.at))
           = counted(e.osem) + Cardinality(going(EthWriters, e.at)) + n
  <2>1. n \in Nat /\ IsFiniteSet(EthWriters)
    BY <1>3, EthSizes
  <2>2. LET s == signalledn(e.osem, n)
        IN  /\ Waiters(s, EthWriters, f.at)
            /\ wokenn(e.osem, n) \subseteq {q \in EthWriters : e.at[q] = "wait"}
            /\ counted(s) + Cardinality(going(EthWriters, f.at))
                 = counted(e.osem) + Cardinality(going(EthWriters, e.at)) + n
    BY <1>2, <2>1, QueueSignalled
  <2> QED
    BY <2>2
<1>6. counted(f.osem) + Cardinality(going(EthWriters, f.at)) + (0 + o) = E1000_TX_RING_SIZE
  <2>1. PICK w, v : /\ w = counted(e.osem) + Cardinality(going(EthWriters, e.at))
                    /\ v = counted(f.osem) + Cardinality(going(EthWriters, f.at))
    OBVIOUS
  <2>2. w + (t + o) = E1000_TX_RING_SIZE /\ v = w + t
    BY <1>2, <1>3, <1>5, <2>1, Zenon
  <2>3. w \in Nat
    <3>1. counted(e.osem) \in Nat /\ Cardinality(going(EthWriters, e.at)) \in Nat
      BY <1>2, GoingFinite, CountedNat, EthSizes DEF Waiters
    <3> QED
      BY <2>1, <3>1
  <2>4. v + (0 + o) = E1000_TX_RING_SIZE
    BY <2>2, <2>3
  <2> QED
    BY <2>1, <2>4, Zenon
<1>7. TxRing(f.txHead, f.tdh, f.tdt, f.txdone, 0, o)
  BY <1>3, <1>4, Zenon
<1>8. Waiters(f.osem, EthWriters, f.at)
  BY <1>5, Zenon
<1>9. TxKnown(f, 0, o)
  BY <1>6, <1>7, <1>8 DEF TxKnown
<1> QED
  BY <1>9, TxNamed

LEMMA HandlerSound ==
  ASSUME EthTyped(eth), RxSound(eth), TxSound(eth), ethhandler
  PROVE  EthTyped(eth') /\ RxSound(eth') /\ TxSound(eth')
<1>1. PICK rx, tx, b, a : /\ rx = (IF eth.rxt0 THEN done_from(eth.rxdone, eth.rxTail, E1000_RX_RING_SIZE) ELSE 0)
                       /\ tx = (IF eth.txdw THEN done_from(eth.txdone, eth.txHead, E1000_TX_RING_SIZE) ELSE 0)
                       /\ b = released_by(eth.at, eth.isem, rx)
                       /\ a = released_by(b, eth.osem, tx)
  OBVIOUS
<1>2. eth' = [rdh |-> eth.rdh, rdt |-> eth.rdt, rxdone |-> eth.rxdone,
              rxHead |-> eth.rxHead, rxTail |-> rx_next(eth.rxTail, rx), isem |-> signalledn(eth.isem, rx),
              tdh |-> eth.tdh, tdt |-> eth.tdt,
              txdone |-> eth.txdone \ {tx_next(eth.txHead, k) : k \in 0 .. tx - 1},
              txHead |-> tx_next(eth.txHead, tx),
              osem |-> signalledn(eth.osem, tx), rxt0 |-> FALSE, txdw |-> FALSE, at |-> a]
  <2>1. eth = [rdh |-> eth.rdh, rdt |-> eth.rdt, rxdone |-> eth.rxdone,
               rxHead |-> eth.rxHead, rxTail |-> eth.rxTail, isem |-> eth.isem,
               tdh |-> eth.tdh, tdt |-> eth.tdt, txdone |-> eth.txdone, txHead |-> eth.txHead,
               osem |-> eth.osem, rxt0 |-> eth.rxt0, txdw |-> eth.txdw, at |-> eth.at]
    BY DEF EthTyped
  <2>2. PICK rt, is, th, os, td : /\ rt = rx_next(eth.rxTail, rx) /\ is = signalledn(eth.isem, rx)
                                  /\ th = tx_next(eth.txHead, tx) /\ os = signalledn(eth.osem, tx)
                                  /\ td = eth.txdone \ {tx_next(eth.txHead, k) : k \in 0 .. tx - 1}
    OBVIOUS
  <2>3. eth' = [eth EXCEPT !.rxTail = rt, !.isem = is, !.txHead = th, !.osem = os, !.txdone = td,
                           !.at = a, !.rxt0 = FALSE, !.txdw = FALSE]
    BY <1>1, <2>2 DEF ethhandler
  <2>4. eth' = [rdh |-> eth.rdh, rdt |-> eth.rdt, rxdone |-> eth.rxdone,
                rxHead |-> eth.rxHead, rxTail |-> rt, isem |-> is,
                tdh |-> eth.tdh, tdt |-> eth.tdt, txdone |-> td, txHead |-> th,
                osem |-> os, rxt0 |-> FALSE, txdw |-> FALSE, at |-> a]
    BY <2>1, <2>3
  <2> QED
    BY <2>2, <2>4, Zenon
<1>3. rx \in Nat /\ Waiters(eth.isem, EthReaders, eth.at)
  <2>1. PICK r, u, o \in 0 .. E1000_RX_RING_SIZE : RxKnown(eth, r, u, o)
    BY DEF RxSound
  <2>2. RxRing(eth.rxHead, eth.rxTail, eth.rdh, eth.rdt, eth.rxdone, r, u, o)
    BY <2>1 DEF RxKnown
  <2>3. done_from(eth.rxdone, eth.rxTail, E1000_RX_RING_SIZE) = u
    BY <2>2, RxCounted
  <2> QED
    BY <1>1, <2>1, <2>3 DEF RxKnown
<1>4. tx \in Nat /\ Waiters(eth.osem, EthWriters, eth.at)
  <2>1. PICK t, o \in 0 .. E1000_TX_RING_SIZE : TxKnown(eth, t, o)
    BY DEF TxSound
  <2>2. TxRing(eth.txHead, eth.tdh, eth.tdt, eth.txdone, t, o)
    BY <2>1 DEF TxKnown
  <2>3. done_from(eth.txdone, eth.txHead, E1000_TX_RING_SIZE) = t
    BY <2>2, TxReclaimed
  <2> QED
    BY <1>1, <2>1, <2>3 DEF TxKnown
<1>5. wokenn(eth.isem, rx) \subseteq EthReaders /\ wokenn(eth.osem, tx) \subseteq EthWriters
  BY <1>3, <1>4, OthersNotWoken
<1>6. /\ a \in [EthUsers -> EthPoints]
      /\ \A q \in EthReaders : a[q] = IF q \in wokenn(eth.isem, rx) THEN "go_on" ELSE eth.at[q]
      /\ \A q \in EthWriters : a[q] = IF q \in wokenn(eth.osem, tx) THEN "go_on" ELSE eth.at[q]
  <2>1. b = [q \in EthUsers |-> IF q \in wokenn(eth.isem, rx) THEN "go_on" ELSE eth.at[q]]
    BY <1>1 DEF released_by
  <2>2. a = [q \in EthUsers |-> IF q \in wokenn(eth.osem, tx) THEN "go_on" ELSE b[q]]
    BY <1>1 DEF released_by
  <2>3. eth.at \in [EthUsers -> EthPoints] /\ "go_on" \in EthPoints
    BY DEF EthTyped, EthPoints
  <2>4. b \in [EthUsers -> EthPoints]
    BY <2>1, <2>3
  <2>5. a \in [EthUsers -> EthPoints]
    BY <2>2, <2>3, <2>4
  <2> QED
    BY <1>5, <2>1, <2>2, <2>5, EthSizes DEF EthUsers
<1>7. EthTyped(eth')
  BY <1>2, <1>6 DEF EthTyped
<1>8. RxSound(eth')
  <2>1. /\ eth'.rxHead = eth.rxHead /\ eth'.rxTail = rx_next(eth.rxTail, rx) /\ eth'.rdh = eth.rdh
        /\ eth'.rdt = eth.rdt /\ eth'.rxdone = eth.rxdone /\ eth'.isem = signalledn(eth.isem, rx)
        /\ eth'.at = a
    BY <1>2
  <2> QED
    BY <1>1, <1>6, <2>1, RxHandled
<1>9. TxSound(eth')
  <2>1. /\ eth'.txHead = tx_next(eth.txHead, tx) /\ eth'.tdh = eth.tdh /\ eth'.tdt = eth.tdt
        /\ eth'.txdone = eth.txdone \ {tx_next(eth.txHead, k) : k \in 0 .. tx - 1}
        /\ eth'.osem = signalledn(eth.osem, tx) /\ eth'.at = a
    BY <1>2
  <2> QED
    BY <1>1, <1>6, <2>1, TxHandled
<1> QED
  BY <1>7, <1>8, <1>9

(* The rings at the start: the NIC owns half of the one, and none of the   *)
(* other.                                                                  *)
LEMMA EthInitSound == EthInit => EthIInv
<1> SUFFICES ASSUME EthInit PROVE EthIInv
  OBVIOUS
<1>1. /\ eth.rdh = 0 /\ eth.rdt = E1000_RX_RING_SIZE - E1000_RING_BOUNDARY /\ eth.rxdone = {}
      /\ eth.rxHead = 0 /\ eth.rxTail = 0 /\ eth.isem = semcreate(0)
      /\ eth.tdh = 0 /\ eth.tdt = 0 /\ eth.txdone = {} /\ eth.txHead = 0
      /\ eth.osem = semcreate(E1000_TX_RING_SIZE) /\ eth.rxt0 = FALSE /\ eth.txdw = FALSE
      /\ eth.at = [p \in EthUsers |-> "idle"]
  BY DEF EthInit
<1>2. EthTyped(eth)
  BY DEF EthInit, EthTyped, EthPoints
<1>3. ASSUME NEW U \in SUBSET EthUsers, NEW n \in Nat
      PROVE  /\ Waiters(semcreate(n), U, eth.at) /\ counted(semcreate(n)) = n
             /\ Cardinality(going(U, eth.at)) = 0
  <2>1. semcreate(n) = [scount |-> n, squeue |-> << >>] /\ n >= 0
    BY DEF semcreate
  <2>2. IsSem(semcreate(n), U)
    BY <2>1, EmptyQueue DEF IsSem, SemEntries
  <2>3. ToSet(semcreate(n).squeue) = {} /\ {q \in U : eth.at[q] = "wait"} = {}
    BY <1>1, <2>1, EmptyQueue
  <2>4. going(U, eth.at) = {}
    BY <1>1 DEF going
  <2>5. Cardinality({}) = 0
    BY FS_EmptySet
  <2> QED
    BY <2>1, <2>2, <2>3, <2>4, <2>5 DEF Waiters, counted
<1>4. ASSUME NEW N \in Nat \ {0} PROVE 0 % N = 0 /\ arc(0, 0, N) = {}
  <2>1. 0 .. 0 - 1 = {}
    OBVIOUS
  <2>2. 0 % N = 0
    OBVIOUS
  <2> QED
    BY <2>1, <2>2 DEF arc
<1>5. RxSound(eth)
  <2>1. PICK S, B : /\ S = E1000_RX_RING_SIZE /\ S \in Nat \ {0}
                    /\ B = E1000_RING_BOUNDARY /\ B \in Nat \ {0} /\ S = 2 * B
    BY EthSizes
  <2>2. 0 + B = B /\ 0 + 0 = 0 /\ B % S = B /\ B < S /\ S - B = B /\ 0 \in 0 .. S - 1
    BY <2>1
  <2>3. ~(0 \in 1 .. B)
    OBVIOUS
  <2>4. RxRing(0, 0, 0, B, {}, 0, 0, B)
    BY <1>4, <2>1, <2>2, <2>3 DEF RxRing
  <2>5. RxKnown(eth, 0, 0, B)
    BY <1>1, <1>3, <2>1, <2>2, <2>4 DEF RxKnown, EthUsers
  <2> QED
    BY <2>5, RxNamed
<1>6. TxSound(eth)
  <2>1. PICK S : S = E1000_TX_RING_SIZE /\ S \in Nat \ {0}
    BY EthSizes
  <2>2. 0 + 0 = 0 /\ 0 <= S /\ 0 < S /\ 0 \in 0 .. S - 1 /\ S + 0 = S /\ S + 0 + 0 = S
    BY <2>1
  <2>4. TxRing(0, 0, 0, {}, 0, 0)
    BY <1>4, <2>1, <2>2 DEF TxRing
  <2>5. TxKnown(eth, 0, 0)
    BY <1>1, <1>3, <2>1, <2>2, <2>4 DEF TxKnown, EthUsers
  <2> QED
    BY <2>5, TxNamed
<1> QED
  BY <1>2, <1>5, <1>6 DEF EthIInv

(* The invariant is one.                                                   *)
LEMMA EthNextSound ==
  ASSUME EthIInv, [EthNext]_eth, ~FillTx
  PROVE  EthIInv'
<1>1. EthTyped(eth) /\ RxSound(eth) /\ TxSound(eth)
  BY DEF EthIInv
<1>2. SUFFICES EthTyped(eth') /\ RxSound(eth') /\ TxSound(eth')
  BY DEF EthIInv
<1>3. CASE nic_receive
  BY <1>1, <1>3, NicReceives
<1>4. CASE nic_transmit
  BY <1>1, <1>4, NicTransmits
<1>5. CASE ethhandler
  BY <1>1, <1>5, HandlerSound
<1>6. CASE \/ \E p \in EthReaders : ethread_wait(p) \/ ethread(p)
           \/ \E p \in EthWriters : ethwrite_wait(p) \/ ethwrite(p)
  BY <1>1, <1>6, EthUserSteps
<1>7. CASE UNCHANGED eth
  BY <1>1, <1>7
<1> QED
  BY <1>3, <1>4, <1>5, <1>6, <1>7 DEF EthNext

(* What the receive ring's lengths say of what the driver and the NIC see. *)
LEMMA RxAgrees ==
  ASSUME RxSound(eth)
  PROVE  LET readable == counted(eth.isem) + eth_let_go_on(EthReaders)
             rx_owned == (eth.rdt - eth.rdh + E1000_RX_RING_SIZE) % E1000_RX_RING_SIZE
         IN  /\ \A k \in 0 .. rx_owned - 1 : rx_next(eth.rdh, k) \notin eth.rxdone
             /\ done_from(eth.rxdone, eth.rxHead, E1000_RX_RING_SIZE) = Cardinality(eth.rxdone)
             /\ readable <= Cardinality(eth.rxdone)
             /\ ~eth.rxt0 => readable = Cardinality(eth.rxdone)
<1>1. PICK r, u, o \in 0 .. E1000_RX_RING_SIZE : RxKnown(eth, r, u, o)
  BY DEF RxSound
<1>2. PICK S : S = E1000_RX_RING_SIZE /\ S \in Nat \ {0}
  BY EthSizes
<1>3. PICK n : n = r + u
  OBVIOUS
<1>range. eth.rxHead \in 0 .. S - 1 /\ r \in Nat /\ u \in Nat /\ o \in Nat /\ r + u + o < S
  BY <1>1, <1>2 DEF RxKnown, RxRing
<1>4. /\ eth.rdh = (eth.rxHead + n) % S /\ eth.rdt = (eth.rxHead + (n + o)) % S
      /\ eth.rxdone = arc(eth.rxHead, n, S)
  BY <1>1, <1>2, <1>3 DEF RxKnown, RxRing
<1>5. n \in Nat /\ n \in 0 .. S - 1 /\ n \in 0 .. S /\ o \in 0 .. S - 1 /\ n + o < S /\ n + o <= S
  BY <1>2, <1>3, <1>range
<1>6. eth.rdh \in 0 .. S - 1
  <2>1. (eth.rxHead + n) % S \in 0 .. S - 1
    BY <1>2, <1>range, <1>5, RingPlace
  <2> QED
    BY <1>4, <2>1
<1>7. ASSUME NEW k \in 0 .. o PROVE (eth.rdh + k) % S = (eth.rxHead + (n + k)) % S
  <2>1. k \in Nat /\ n + k <= S
    BY <1>2, <1>5
  <2>2. (((eth.rxHead + n) % S) + k) % S = (eth.rxHead + (n + k)) % S
    BY <1>2, <1>range, <1>5, <2>1, RingSum
  <2> QED
    BY <1>4, <2>2
<1>8. (eth.rdt - eth.rdh + S) % S = o
  <2>1. o \in 0 .. o
    BY <1>5
  <2>2. (eth.rdh + o) % S = eth.rdt
    BY <1>4, <1>7, <2>1
  <2>3. (((eth.rdh + o) % S) - eth.rdh + S) % S = o
    BY <1>2, <1>5, <1>6, RingDistance
  <2> QED
    BY <2>2, <2>3
<1>9. ASSUME NEW k \in 0 .. o - 1 PROVE rx_next(eth.rdh, k) \notin eth.rxdone
  <2>1. PICK j : j = n + k
    OBVIOUS
  <2>2. k \in 0 .. o /\ j \in 0 .. S - 1 /\ ~(j < n)
    BY <1>2, <1>5, <2>1
  <2>3. (eth.rxHead + j) % S \in arc(eth.rxHead, n, S) <=> j < n
    BY <1>2, <1>range, <1>5, <2>2, ArcMember
  <2>4. (eth.rdh + k) % S = (eth.rxHead + j) % S
    BY <1>7, <2>1, <2>2
  <2> QED
    BY <1>2, <1>4, <2>2, <2>3, <2>4 DEF rx_next
<1>10. Cardinality(eth.rxdone) = n
  BY <1>2, <1>4, <1>range, <1>5, ArcSize
<1>11. done_from(eth.rxdone, eth.rxHead, S) = n
  <2>1. PICK z : z = 0
    OBVIOUS
  <2>2. z \in Nat /\ z + n <= S /\ z + n = n /\ (eth.rxHead + z) % S = eth.rxHead
    <3>1. eth.rxHead + 0 = eth.rxHead /\ eth.rxHead % S = eth.rxHead
      BY <1>2, <1>range
    <3> QED
      BY <1>5, <2>1, <3>1
  <2>3. done_from(arc(eth.rxHead, z + n, S), (eth.rxHead + z) % S, S) = n
    BY <1>2, <1>range, <1>5, <2>1, <2>2, DoneFrom
  <2> QED
    BY <1>4, <2>2, <2>3
<1>12. counted(eth.isem) + eth_let_go_on(EthReaders) = r
  <2>1. counted(eth.isem) + Cardinality(going(EthReaders, eth.at)) = r
    BY <1>1 DEF RxKnown
  <2> QED
    BY <2>1 DEF going, eth_let_go_on
<1>13. r <= n /\ (~eth.rxt0 => r = n)
  <2>1. eth.rxt0 \/ u = 0
    BY <1>1 DEF RxKnown
  <2> QED
    BY <1>3, <1>range, <2>1
<1> QED
  BY <1>2, <1>8, <1>9, <1>10, <1>11, <1>12, <1>13

(* And of the transmit ring.                                               *)
LEMMA TxAgrees ==
  ASSUME TxSound(eth)
  PROVE  LET writable == counted(eth.osem) + eth_let_go_on(EthWriters)
             tx_owned == (eth.tdt - eth.tdh + E1000_TX_RING_SIZE) % E1000_TX_RING_SIZE
         IN  /\ done_from(eth.txdone, eth.txHead, E1000_TX_RING_SIZE) = Cardinality(eth.txdone)
             /\ writable + Cardinality(eth.txdone) + tx_owned = E1000_TX_RING_SIZE
             /\ ~eth.txdw => eth.txdone = {}
<1>1. PICK t, o \in 0 .. E1000_TX_RING_SIZE : TxKnown(eth, t, o)
  BY DEF TxSound
<1>2. PICK S : S = E1000_TX_RING_SIZE /\ S \in Nat \ {0}
  BY EthSizes
<1>3. TxRing(eth.txHead, eth.tdh, eth.tdt, eth.txdone, t, o)
  BY <1>1 DEF TxKnown
<1>range. eth.txHead \in 0 .. S - 1 /\ t \in Nat /\ o \in Nat /\ t + o <= S /\ o < S
  BY <1>2, <1>3 DEF TxRing
<1>4. /\ eth.tdh = (eth.txHead + t) % S /\ eth.tdt = (eth.txHead + (t + o)) % S
      /\ eth.txdone = arc(eth.txHead, t, S)
  BY <1>2, <1>3 DEF TxRing
<1>5. t \in 0 .. S /\ o \in 0 .. S - 1 /\ t + o <= S
  BY <1>2, <1>range
<1>6. eth.tdh \in 0 .. S - 1
  <2>1. (eth.txHead + t) % S \in 0 .. S - 1
    BY <1>2, <1>range, <1>5, RingPlace
  <2> QED
    BY <1>4, <2>1
<1>7. (eth.tdt - eth.tdh + S) % S = o
  <2>1. (((eth.txHead + t) % S) + o) % S = (eth.txHead + (t + o)) % S
    BY <1>2, <1>range, RingSum
  <2>2. (eth.tdh + o) % S = eth.tdt
    BY <1>4, <2>1
  <2>3. (((eth.tdh + o) % S) - eth.tdh + S) % S = o
    BY <1>2, <1>5, <1>6, RingDistance
  <2> QED
    BY <2>2, <2>3
<1>8. Cardinality(eth.txdone) = t
  BY <1>2, <1>4, <1>range, <1>5, ArcSize
<1>9. done_from(eth.txdone, eth.txHead, S) = t
  BY <1>2, <1>3, TxReclaimed, Zenon
<1>10. PICK w : w = counted(eth.osem) + Cardinality(going(EthWriters, eth.at))
  OBVIOUS
<1>11. w + (t + o) = S
  BY <1>1, <1>2, <1>10, Zenon DEF TxKnown
<1>12. counted(eth.osem) + eth_let_go_on(EthWriters) = w
  BY <1>10 DEF going, eth_let_go_on
<1>13. w \in Nat
  <2>1. counted(eth.osem) \in Nat /\ Cardinality(going(EthWriters, eth.at)) \in Nat
    BY <1>1, GoingFinite, CountedNat, EthSizes DEF Waiters, TxKnown
  <2> QED
    BY <1>10, <2>1
<1>14. w + t + o = S
  BY <1>11, <1>13, <1>range
<1>15. ~eth.txdw => eth.txdone = {}
  <2>1. eth.txdw \/ t = 0
    BY <1>1 DEF TxKnown
  <2>2. 0 .. 0 - 1 = {}
    OBVIOUS
  <2> QED
    BY <1>4, <2>1, <2>2 DEF arc
<1> QED
  BY <1>2, <1>7, <1>8, <1>9, <1>12, <1>14, <1>15

(* Driver and NIC agree on the descriptors of both rings, whatever the     *)
(* number of readers and writers and the size of the rings, when the       *)
(* transmit ring is not filled to its last descriptor: the NIC takes a     *)
(* full ring for an empty one.                                             *)
THEOREM SpecRingsAgree ==
  ASSUME ~FillTx
  PROVE  EthSpec => []RingsAgree
<1>1. EthInit => EthIInv
  BY EthInitSound
<1>2. EthIInv /\ [EthNext]_eth => EthIInv'
  BY EthNextSound
<1>3. EthIInv => RingsAgree
  <2> SUFFICES ASSUME EthIInv PROVE RingsAgree
    OBVIOUS
  <2>1. RxSound(eth) /\ TxSound(eth)
    BY DEF EthIInv
  <2> QED
    BY <2>1, RxAgrees, TxAgrees DEF RingsAgree
<1> QED
  BY <1>1, <1>2, <1>3, PTL DEF EthSpec
=============================================================================

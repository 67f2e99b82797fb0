-------------------------- MODULE XinuVariantProofs --------------------------
(***************************************************************************)
(* The two changed schedulers, for any number of processes and levels.     *)
(* Both keep the system processes on a ready list in the order of their    *)
(* priorities, the null process at its end.  Then fork and cascading       *)
(* termination, for any number of processes.                               *)
(***************************************************************************)
EXTENDS XinuMlfq, XinuLottery, XinuCascade, XinuSchedProofs, FiniteSetTheorems

ByPriority(readylist) == Descending(readylist, [q \in System |-> Priority(q)])

LEMMA SystemClass ==
  /\ Null \in System /\ System \subseteq Nat
  /\ [q \in System |-> Priority(q)] \in [System -> Nat]
  /\ \A p \in System : Priority(p) \in Nat /\ (p # Null <=> Priority(p) > 0)
<1>1. DOMAIN SysPrio \subseteq Nat \ {0} /\ \A p \in DOMAIN SysPrio : SysPrio[p] \in Nat \ {0}
  BY ClassesAssumption
<1>2. Null \in System /\ System \subseteq Nat
  BY <1>1 DEF System, Null
<1>3. ASSUME NEW p \in System
      PROVE  Priority(p) \in Nat /\ (p # Null <=> Priority(p) > 0)
  BY <1>1 DEF Priority, System, Null
<1> QED
  BY <1>2, <1>3

(* A system process made ready joins the ready list by its priority.       *)
LEMMA InsertSystemLinks ==
  ASSUME NEW q \in Seq(System), IsInjective(q), ByPriority(q),
         NEW p \in System, p \notin ToSet(q),
         NEW r, r = insert_system(q, p)
  PROVE  /\ r \in Seq(System) /\ IsInjective(r) /\ ToSet(r) = ToSet(q) \cup {p}
         /\ ByPriority(r)
<1>1. PICK key : key = [x \in System |-> Priority(x)]
  OBVIOUS
<1>2. PICK i : i = insert_place(q, key, Priority(p))
  OBVIOUS
<1>3. i \in 1 .. Len(q) + 1
  BY <1>2, PlaceInQueue
<1>4. r = InsertAt(q, i, p)
  BY <1>1, <1>2 DEF insert_system, insert
<1>5. r \in Seq(System) /\ IsInjective(r) /\ ToSet(r) = ToSet(q) \cup {p}
  BY <1>3, <1>4, InsertAtJoins
<1>6. key \in [System -> Nat] /\ Descending(q, key)
  BY <1>1, SystemClass DEF ByPriority
<1>7. r = insert(q, key, p, key[p])
  BY <1>1 DEF insert_system
<1>8. Descending(r, key)
  BY <1>6, <1>7, InsertDescends
<1> QED
  BY <1>1, <1>5, <1>8 DEF ByPriority

LEMMA LeavingByPriority ==
  ASSUME NEW q \in Seq(System), ByPriority(q)
  PROVE  /\ q # << >> => ByPriority(Tail(q))
         /\ \A p \in ToSet(q) : ByPriority(getitem(q, p))
  BY TailDescends, GetitemDescends DEF ByPriority

(* The null process is at the head only when it is alone on the list.      *)
LEMMA NullAlone ==
  ASSUME NEW q \in Seq(System), IsInjective(q), ByPriority(q), q # << >>, Head(q) = Null
  PROVE  q = <<Null>>
<1>1. 1 \in 1 .. Len(q) /\ q[1] = Null /\ Len(q) \in Nat
  OBVIOUS
<1>2. ASSUME NEW i \in 1 .. Len(q), i # 1 PROVE FALSE
  <2>1. q[i] \in System /\ q[i] # Null
    BY <1>1, <1>2 DEF IsInjective
  <2>2. Priority(q[i]) <= Priority(Null)
    <3>1. PICK key : key = [x \in System |-> Priority(x)]
      OBVIOUS
    <3>2. key[q[i]] <= key[q[1]]
      BY <1>1, <1>2, <3>1 DEF ByPriority, Descending
    <3> QED
      BY <1>1, <2>1, <3>1, <3>2
  <2>3. Priority(q[i]) \in Nat /\ Priority(q[i]) > 0 /\ Priority(Null) = 0
    BY <2>1, SystemClass DEF Priority
  <2> QED
    BY <2>2, <2>3
<1>3. Len(q) = 1
  <2>1. Len(q) \in 1 .. Len(q)
    BY <1>1
  <2> QED
    BY <1>2, <2>1
<1> QED
  BY <1>1, <1>3

(* The process with the highest priority is at the head.                   *)
LEMMA HeadRanksFirst ==
  ASSUME NEW q \in Seq(System), ByPriority(q), q # << >>, NEW p \in ToSet(q)
  PROVE  Head(q) \in System /\ Priority(p) <= Priority(Head(q))
<1>1. 1 \in 1 .. Len(q) /\ q[1] = Head(q) /\ q[1] \in System
  OBVIOUS
<1>2. PICK i \in 1 .. Len(q) : q[i] = p /\ p \in System
  BY DEF ToSet
<1>3. Priority(p) \in Nat
  BY <1>2, SystemClass
<1>4. CASE i = 1
  BY <1>1, <1>2, <1>3, <1>4
<1>5. CASE i > 1
  <2>1. PICK key : key = [x \in System |-> Priority(x)]
    OBVIOUS
  <2>2. key[q[i]] <= key[q[1]]
    BY <1>1, <1>5, <2>1 DEF ByPriority, Descending
  <2> QED
    BY <1>1, <1>2, <2>1, <2>2
<1> QED
  BY <1>1, <1>2, <1>4, <1>5

(* A process unlinked from place i is the one getitem unlinks.             *)
LEMMA RemovedIsGotten ==
  ASSUME NEW T, NEW q \in Seq(T), IsInjective(q), NEW i \in 1 .. Len(q)
  PROVE  RemoveAt(q, i) = getitem(q, q[i])
<1>1. \A j \in 1 .. Len(q) : q[j] = q[i] => j = i
  BY DEF IsInjective
<1>2. PICK k : k = CHOOSE j \in 1 .. Len(q) : q[j] = q[i]
  OBVIOUS
<1>3. k = i
  BY <1>1, <1>2
<1> QED
  BY <1>2, <1>3 DEF getitem

-----------------------------------------------------------------------------
(***************************************************************************)
(* The lottery scheduler: lists and states agree, a draw has as many       *)
(* winning numbers as there are tickets, each user process as many of them *)
(* as it has tickets, and the winner is the process that runs.  The        *)
(* counter of resched is a function on the places of the list; that a draw *)
(* falls to exactly one process follows from the sums of the tickets up to *)
(* each place.                                                             *)
(***************************************************************************)

(* The counter of the draw: search_counter is well defined, and each       *)
(* process adds its tickets to it.                                         *)
IsCounter(c, users, tickets, n) ==
  /\ c \in [0 .. n -> Nat]
  /\ c = [i \in 0 .. n |-> IF i = 0 THEN 0 ELSE c[i-1] + tickets[users[i]]]

LEMMA CounterExists ==
  ASSUME NEW T, NEW users \in Seq(T), NEW tickets \in [T -> Nat], NEW n \in 0 .. Len(users)
  PROVE  \E c : IsCounter(c, users, tickets, n)
<1>1. PICK Bad : Bad = {k \in 0 .. Len(users) : ~ \E c : IsCounter(c, users, tickets, k)}
  OBVIOUS
<1>2. SUFFICES ASSUME Bad # {} PROVE FALSE
  BY <1>1
<1>3. PICK k \in Bad : \A j \in Bad : k <= j
  <2>1. Bad \in SUBSET Nat
    BY <1>1
  <2> QED
    BY <1>2, <2>1, LeastOfNaturals
<1>4. CASE k = 0
  <2>1. IsCounter([i \in 0 .. 0 |-> 0], users, tickets, 0)
    BY DEF IsCounter
  <2> QED
    BY <1>1, <1>3, <1>4, <2>1
<1>5. CASE k # 0
  <2>1. k \in 1 .. Len(users) /\ k - 1 \in 0 .. Len(users) /\ k - 1 \notin Bad
    <3>1. k \in 0 .. Len(users) /\ Len(users) \in Nat /\ k \in Nat
      BY <1>1, <1>3
    <3>2. k - 1 \notin Bad
      BY <1>3, <3>1
    <3> QED
      BY <1>5, <3>1, <3>2
  <2>2. PICK c : IsCounter(c, users, tickets, k - 1)
    BY <1>1, <2>1
  <2>3. PICK t : t = tickets[users[k]] /\ t \in Nat
    BY <2>1
  <2>4. PICK d : d = [i \in 0 .. k |-> IF i = k THEN c[k-1] + t ELSE c[i]]
    OBVIOUS
  <2>5. c[k-1] \in Nat /\ \A i \in 0 .. k - 1 : c[i] \in Nat
    BY <2>1, <2>2 DEF IsCounter
  <2>6. d \in [0 .. k -> Nat]
    <3>1. \A i \in 0 .. k : i = k \/ i \in 0 .. k - 1
      BY <2>1
    <3>2. c[k-1] + t \in Nat
      BY <2>3, <2>5
    <3>3. \A i \in 0 .. k : (IF i = k THEN c[k-1] + t ELSE c[i]) \in Nat
      BY <2>5, <3>1, <3>2
    <3> QED
      BY <2>4, <3>3
  <2>7. ASSUME NEW i \in 0 .. k
        PROVE  d[i] = IF i = 0 THEN 0 ELSE d[i-1] + tickets[users[i]]
    <3>1. CASE i = k
      <4>1. d[i] = c[k-1] + t /\ d[i-1] = c[k-1] /\ i # 0
        BY <2>1, <2>4, <3>1
      <4> QED
        BY <2>3, <3>1, <4>1
    <3>2. CASE i = 0
      BY <2>1, <2>2, <2>4, <3>2 DEF IsCounter
    <3>3. CASE i # k /\ i # 0
      <4>1. i \in 0 .. k - 1 /\ i - 1 \in 0 .. k - 1 /\ d[i] = c[i] /\ d[i-1] = c[i-1]
        BY <2>1, <2>4, <3>3
      <4>2. c[i] = c[i-1] + tickets[users[i]]
        BY <2>2, <3>3, <4>1 DEF IsCounter
      <4> QED
        BY <3>3, <4>1, <4>2
    <3> QED
      BY <3>1, <3>2, <3>3
  <2>8. d = [i \in 0 .. k |-> IF i = 0 THEN 0 ELSE d[i-1] + tickets[users[i]]]
    BY <2>6, <2>7
  <2> QED
    BY <1>1, <1>3, <2>6, <2>8 DEF IsCounter
<1> QED
  BY <1>4, <1>5

LEMMA CounterAdds ==
  ASSUME NEW T, NEW users \in Seq(T), NEW tickets \in [T -> Nat],
         NEW c, c = search_counter(users, tickets)
  PROVE  /\ c \in [0 .. Len(users) -> Nat] /\ c[0] = 0
         /\ \A i \in 1 .. Len(users) : c[i] = c[i-1] + tickets[users[i]]
<1>1. PICK d : IsCounter(d, users, tickets, Len(users))
  BY CounterExists
<1>2. c = CHOOSE f : f = [i \in 0 .. Len(users) |-> IF i = 0 THEN 0 ELSE f[i-1] + tickets[users[i]]]
  BY DEF search_counter
<1>3. c = [i \in 0 .. Len(users) |-> IF i = 0 THEN 0 ELSE c[i-1] + tickets[users[i]]]
  <2>1. d = [i \in 0 .. Len(users) |-> IF i = 0 THEN 0 ELSE d[i-1] + tickets[users[i]]]
    BY <1>1 DEF IsCounter
  <2> QED
    BY <1>2, <2>1
<1>4. ASSUME NEW i \in 0 .. Len(users)
      PROVE  c[i] = IF i = 0 THEN 0 ELSE c[i-1] + tickets[users[i]]
  BY <1>3
<1>5. PICK Bad : Bad = {k \in 0 .. Len(users) : c[k] \notin Nat}
  OBVIOUS
<1>6. Bad = {}
  <2>1. SUFFICES ASSUME Bad # {} PROVE FALSE
    OBVIOUS
  <2>2. PICK k \in Bad : \A j \in Bad : k <= j
    <3>1. Bad \in SUBSET Nat
      BY <1>5
    <3> QED
      BY <2>1, <3>1, LeastOfNaturals
  <2>3. k \in 1 .. Len(users) /\ k - 1 \in 0 .. Len(users) /\ k - 1 \notin Bad
    BY <1>4, <1>5, <2>2
  <2>4. tickets[users[k]] \in Nat /\ c[k-1] \in Nat /\ c[k] \notin Nat
    BY <1>5, <2>2, <2>3
  <2>5. c[k] = c[k-1] + tickets[users[k]]
    BY <1>4, <2>3
  <2> QED
    BY <2>4, <2>5
<1>7. c[0] = 0
  BY <1>4
<1>8. c \in [0 .. Len(users) -> Nat]
  <2>1. \A k \in 0 .. Len(users) : c[k] \in Nat
    BY <1>5, <1>6
  <2>2. DOMAIN c = 0 .. Len(users) /\ c = [k \in 0 .. Len(users) |-> c[k]]
    BY <1>3
  <2> QED
    BY <2>1, <2>2
<1>9. ASSUME NEW i \in 1 .. Len(users)
      PROVE  c[i] = c[i-1] + tickets[users[i]]
  <2>1. i \in 0 .. Len(users) /\ i # 0
    OBVIOUS
  <2> QED
    BY <1>4, <2>1
<1> QED
  BY <1>7, <1>8, <1>9

LEMMA CounterGrows ==
  ASSUME NEW T, NEW users \in Seq(T), NEW tickets \in [T -> Nat],
         NEW c, c = search_counter(users, tickets),
         NEW j \in 0 .. Len(users), NEW i \in 0 .. j
  PROVE  c[i] <= c[j]
<1>1. /\ c \in [0 .. Len(users) -> Nat]
      /\ \A k \in 1 .. Len(users) : c[k-1] <= c[k]
  <2>1. /\ c \in [0 .. Len(users) -> Nat]
        /\ \A k \in 1 .. Len(users) : c[k] = c[k-1] + tickets[users[k]]
    BY CounterAdds
  <2>2. ASSUME NEW k \in 1 .. Len(users) PROVE c[k-1] <= c[k]
    <3>1. tickets[users[k]] \in Nat /\ k \in 0 .. Len(users) /\ k - 1 \in 0 .. Len(users)
      OBVIOUS
    <3>2. c[k] \in Nat /\ c[k-1] \in Nat /\ c[k] = c[k-1] + tickets[users[k]]
      BY <2>1, <3>1
    <3> QED
      BY <3>1, <3>2
  <2> QED
    BY <2>1, <2>2
<1>2. PICK Bad : Bad = {k \in 0 .. Len(users) : \E m \in 0 .. k : c[m] > c[k]}
  OBVIOUS
<1>3. Bad = {}
  <2>1. SUFFICES ASSUME Bad # {} PROVE FALSE
    OBVIOUS
  <2>2. PICK k \in Bad : \A n \in Bad : k <= n
    <3>1. Bad \in SUBSET Nat
      BY <1>2
    <3> QED
      BY <2>1, <3>1, LeastOfNaturals
  <2>3. PICK m \in 0 .. k : c[m] > c[k]
    BY <1>2, <2>2
  <2>4. k \in 0 .. Len(users) /\ m \in 0 .. Len(users) /\ c[k] \in Nat /\ c[m] \in Nat
    <3>1. k \in 0 .. Len(users) /\ Len(users) \in Nat
      BY <1>2, <2>2
    <3>2. m \in 0 .. Len(users)
      BY <2>3, <3>1
    <3> QED
      BY <1>1, <3>1, <3>2
  <2>5. m # k
    BY <2>3, <2>4
  <2>6. k \in 1 .. Len(users) /\ k - 1 \in 0 .. Len(users) /\ m \in 0 .. k - 1
    BY <2>3, <2>4, <2>5
  <2>7. k - 1 \notin Bad
    BY <2>2, <2>4
  <2>8. ~(c[m] > c[k-1])
    BY <1>2, <2>6, <2>7
  <2>9. c[k-1] \in Nat /\ c[k-1] <= c[k]
    BY <1>1, <2>6
  <2> QED
    BY <2>3, <2>4, <2>8, <2>9
<1>4. ~(c[i] > c[j])
  BY <1>2, <1>3
<1>5. i \in 0 .. Len(users) /\ c[i] \in Nat /\ c[j] \in Nat
  <2>1. Len(users) \in Nat
    OBVIOUS
  <2>2. i \in 0 .. Len(users)
    BY <2>1
  <2> QED
    BY <1>1, <2>2
<1> QED
  BY <1>4, <1>5

(* A draw below the total has one winner, whose tickets it is among.       *)
LEMMA WinnerOfDraw ==
  ASSUME NEW T, NEW users \in Seq(T), NEW tickets \in [T -> Nat],
         NEW w \in 0 .. total_tickets(users, tickets) - 1,
         NEW c, c = search_counter(users, tickets),
         NEW i, i = winner(users, tickets, w)
  PROVE  i \in 1 .. Len(users) /\ c[i-1] <= w /\ w < c[i] /\ tickets[users[i]] > 0
<1>1. /\ c \in [0 .. Len(users) -> Nat] /\ c[0] = 0
      /\ \A k \in 1 .. Len(users) : c[k] = c[k-1] + tickets[users[k]]
  BY CounterAdds
<1>2. PICK S : S = {k \in 1 .. Len(users) : c[k] > w}
  OBVIOUS
<1>3. c[Len(users)] \in Nat /\ w \in Nat /\ w < c[Len(users)]
  BY <1>1 DEF total_tickets
<1>4. Len(users) \in S /\ S \in SUBSET Nat
  BY <1>1, <1>2, <1>3
<1>5. i = Min(S)
  <2>1. DOMAIN users = 1 .. Len(users)
    OBVIOUS
  <2>2. i = Min({k \in DOMAIN users : c[k] > w})
    BY Zenon DEF winner
  <2> QED
    BY <1>2, <2>1, <2>2
<1>6. i \in S /\ \A k \in S : i <= k
  <2>1. S # {}
    BY <1>4
  <2> QED
    BY <1>4, <1>5, <2>1, MinOfNaturals
<1>7. i - 1 \in 0 .. Len(users) /\ i - 1 \notin S
  BY <1>2, <1>6
<1>8. c[i-1] \in Nat /\ c[i] \in Nat /\ tickets[users[i]] \in Nat /\ i \in 1 .. Len(users)
  BY <1>1, <1>2, <1>6, <1>7
<1>9. c[i-1] <= w
  BY <1>1, <1>2, <1>3, <1>7, <1>8
<1>10. w < c[i] /\ w \in Nat
  BY <1>2, <1>3, <1>6, <1>8
<1>11. c[i] = c[i-1] + tickets[users[i]]
  BY <1>1, <1>8
<1>12. tickets[users[i]] > 0
  BY <1>8, <1>9, <1>10, <1>11
<1> QED
  BY <1>8, <1>9, <1>10, <1>12

(* So a process wins with as many draws as it has tickets.                 *)
LEMMA DrawsPerTicket ==
  ASSUME NEW T, NEW users \in Seq(T), NEW tickets \in [T -> Nat],
         NEW i \in 1 .. Len(users),
         NEW total, total = total_tickets(users, tickets)
  PROVE  Cardinality({w \in 0 .. total - 1 : winner(users, tickets, w) = i}) = tickets[users[i]]
<1>1. PICK c : c = search_counter(users, tickets)
  OBVIOUS
<1>2. /\ c \in [0 .. Len(users) -> Nat] /\ c[0] = 0
      /\ \A k \in 1 .. Len(users) : c[k] = c[k-1] + tickets[users[k]]
  BY <1>1, CounterAdds
<1>3. /\ total = c[Len(users)] /\ total \in Nat /\ c[i] <= total
      /\ c[i-1] \in Nat /\ c[i] \in Nat /\ i - 1 \in 0 .. Len(users)
  <2>1. total = c[Len(users)] /\ Len(users) \in Nat
    BY <1>1 DEF total_tickets
  <2>2. i \in 0 .. Len(users)
    OBVIOUS
  <2>3. c[i] <= c[Len(users)]
    <3>1. PICK n : n = Len(users)
      OBVIOUS
    <3>2. n \in 0 .. Len(users) /\ i \in 0 .. n
      BY <2>1, <3>1
    <3>3. c[i] <= c[n]
      BY <1>1, <3>2, CounterGrows
    <3> QED
      BY <3>1, <3>3
  <2>4. i - 1 \in 0 .. Len(users) /\ Len(users) \in 0 .. Len(users)
    BY <2>1
  <2>5. c[i] \in Nat /\ c[i-1] \in Nat /\ c[Len(users)] \in Nat
    BY <1>2, <2>2, <2>4
  <2> QED
    BY <2>1, <2>3, <2>4, <2>5
<1>4. ASSUME NEW w \in 0 .. total - 1
      PROVE  winner(users, tickets, w) = i <=> c[i-1] <= w /\ w < c[i]
  <2>1. PICK k : k = winner(users, tickets, w)
    OBVIOUS
  <2>2. k \in 1 .. Len(users) /\ c[k-1] <= w /\ w < c[k]
    BY <1>1, <2>1, WinnerOfDraw
  <2>3. ASSUME c[i-1] <= w, w < c[i], k < i PROVE FALSE
    <3>1. k \in 0 .. i - 1
      BY <2>2, <2>3
    <3>2. c[k] <= c[i-1]
      BY <1>1, <1>3, <3>1, CounterGrows
    <3>3. c[k] \in Nat /\ w \in Int
      BY <1>2, <2>2, SMTT(30)
    <3> QED
      BY <1>3, <2>2, <2>3, <3>2, <3>3
  <2>4. ASSUME c[i-1] <= w, w < c[i], i < k PROVE FALSE
    <3>1. i \in 0 .. k - 1 /\ k - 1 \in 0 .. Len(users)
      BY <2>2, <2>4
    <3>2. c[i] <= c[k-1]
      BY <1>1, <3>1, CounterGrows
    <3>3. c[k-1] \in Nat /\ w \in Int
      BY <1>2, <3>1
    <3> QED
      BY <1>3, <2>2, <2>4, <3>2, <3>3
  <2> QED
    BY <2>1, <2>2, <2>3, <2>4
<1>5. {w \in 0 .. total - 1 : winner(users, tickets, w) = i} = c[i-1] .. c[i] - 1
  <2>1. PICK a, b : a = c[i-1] /\ b = c[i] /\ a \in Nat /\ b \in Nat /\ b <= total
    BY <1>3
  <2>2. ASSUME NEW w \in Int
        PROVE  w \in a .. b - 1 <=> w \in 0 .. total - 1 /\ a <= w /\ w < b
    BY <1>3, <2>1, SMTT(30)
  <2>3. \A w \in 0 .. total - 1 : w \in Int
    BY <1>3
  <2>4. \A w \in a .. b - 1 : w \in Int
    BY <2>1
  <2> QED
    BY <1>4, <2>1, <2>2, <2>3, <2>4
<1>6. Cardinality(c[i-1] .. c[i] - 1) = tickets[users[i]]
  <2>1. PICK a, b : a = c[i-1] /\ b = c[i] - 1
    OBVIOUS
  <2>2. a \in Int /\ b \in Int /\ tickets[users[i]] = b - a + 1 /\ tickets[users[i]] \in Nat
    <3>1. PICK t : t = tickets[users[i]]
      OBVIOUS
    <3>2. t \in Nat
      BY <3>1
    <3>3. c[i] = c[i-1] + t
      BY <1>2, <3>1
    <3>4. a \in Int /\ b \in Int /\ t = b - a + 1
      <4>1. PICK y : y = c[i]
        OBVIOUS
      <4>2. a \in Nat /\ y \in Nat /\ b = y - 1 /\ y = a + t
        BY <1>3, <2>1, <3>3, <4>1
      <4> QED
        BY <3>2, <4>2
    <3> QED
      BY <3>1, <3>2, <3>4
  <2>3. Cardinality(a .. b) = IF a > b THEN 0 ELSE b - a + 1
    BY <2>2, FS_Interval
  <2>4. Cardinality(a .. b) = b - a + 1
    <3>1. a > b => b - a + 1 = 0
      <4>1. b - a + 1 \in Nat
        BY <2>2
      <4> QED
        BY <2>2, <4>1
    <3> QED
      BY <2>3, <3>1
  <2> QED
    BY <2>1, <2>2, <2>4
<1> QED
  BY <1>5, <1>6
-----------------------------------------------------------------------------
LotteryType ==
  [prstate : [LotteryProcs -> {"CURR", "READY", "SUSP"}], tickets : [LotteryUsers -> Nat],
   readylist : Seq(System), users : Seq(LotteryUsers), currpid : LotteryProcs, preempt : Int]

(* What every record of a call keeps, also while none has the CPU: the     *)
(* lists hold the ready processes, and the null process is ready or        *)
(* running.                                                                *)
Linked(m) ==
  /\ m \in LotteryType
  /\ IsInjective(m.readylist) /\ IsInjective(m.users)
  /\ ToSet(m.readylist) = {p \in System : m.prstate[p] = "READY"}
  /\ ToSet(m.users) = {p \in LotteryUsers : m.prstate[p] = "READY"}
  /\ m.prstate[Null] # "SUSP"
  /\ ByPriority(m.readylist)

OnCpu(m) == {p \in LotteryProcs : m.prstate[p] = "CURR"}

LotteryIInv == Linked(lottery) /\ OnCpu(lottery) = {lottery.currpid}

LEMMA LotteryClasses ==
  /\ Null \in System /\ System \subseteq Nat /\ LotteryUsers \subseteq Nat
  /\ System \cap LotteryUsers = {} /\ LotteryProcs = System \cup LotteryUsers
  BY SystemClass, LotteryAssumption DEF LotteryProcs

(* ready puts a process that is not ready on the list of its kind.         *)
LEMMA MakeReadyLinks ==
  ASSUME NEW m, Linked(m), NEW p \in LotteryProcs, m.prstate[p] # "READY",
         NEW r, r = lottery_make_ready(m, p)
  PROVE  Linked(r) /\ OnCpu(r) = OnCpu(m) \ {p} /\ r.tickets = m.tickets
<1>1. /\ m \in LotteryType /\ IsInjective(m.readylist) /\ IsInjective(m.users)
      /\ ToSet(m.readylist) = {q \in System : m.prstate[q] = "READY"}
      /\ ToSet(m.users) = {q \in LotteryUsers : m.prstate[q] = "READY"}
      /\ m.prstate[Null] # "SUSP" /\ ByPriority(m.readylist)
  BY DEF Linked
<1>2. /\ m.readylist \in Seq(System) /\ m.users \in Seq(LotteryUsers)
      /\ m.prstate \in [LotteryProcs -> {"CURR", "READY", "SUSP"}]
  BY <1>1 DEF LotteryType
<1>3. PICK s : s = [m.prstate EXCEPT ![p] = "READY"]
  OBVIOUS
<1>4. /\ s \in [LotteryProcs -> {"CURR", "READY", "SUSP"}] /\ s[p] = "READY"
      /\ \A q \in LotteryProcs : q # p => s[q] = m.prstate[q]
  BY <1>2, <1>3
<1>5. CASE p \in System
  <2>1. PICK l : l = insert_system(m.readylist, p)
    OBVIOUS
  <2>2. r = [m EXCEPT !.prstate = s, !.readylist = l]
    BY <1>1, <1>3, <1>5, <2>1 DEF lottery_make_ready, LotteryType
  <2>3. p \notin ToSet(m.readylist)
    BY <1>1
  <2>4. /\ l \in Seq(System) /\ IsInjective(l) /\ ToSet(l) = ToSet(m.readylist) \cup {p}
        /\ ByPriority(l)
    BY <1>1, <1>2, <1>5, <2>1, <2>3, InsertSystemLinks
  <2>5. /\ r \in LotteryType /\ r.prstate = s /\ r.readylist = l /\ r.users = m.users
        /\ r.tickets = m.tickets
    BY <1>1, <1>4, <2>2, <2>4 DEF LotteryType
  <2>6. ToSet(l) = {q \in System : s[q] = "READY"}
    BY <1>1, <1>4, <1>5, <2>4, LotteryClasses
  <2>7. ToSet(m.users) = {q \in LotteryUsers : s[q] = "READY"}
    BY <1>1, <1>4, <1>5, LotteryClasses
  <2>8. s[Null] # "SUSP"
    BY <1>1, <1>4, LotteryClasses
  <2>9. OnCpu(r) = OnCpu(m) \ {p}
    BY <1>4, <2>5 DEF OnCpu
  <2> QED
    BY <1>1, <2>4, <2>5, <2>6, <2>7, <2>8, <2>9 DEF Linked
<1>6. CASE p \notin System
  <2>1. PICK l : l = insert_to_user(m.users, m.tickets, p)
    OBVIOUS
  <2>2. r = [m EXCEPT !.prstate = s, !.users = l]
    BY <1>1, <1>3, <1>6, <2>1 DEF lottery_make_ready, LotteryType
  <2>3. p \in LotteryUsers /\ p \notin ToSet(m.users)
    BY <1>1, <1>6, LotteryClasses
  <2>4. PICK i : i = insert_to_user_place(m.users, m.tickets, p)
    OBVIOUS
  <2>5. i \in 1 .. Len(m.users) + 1
    <3>1. Len(m.users) \in Nat /\ DOMAIN m.users = 1 .. Len(m.users)
      BY <1>2
    <3>2. PICK A : A = {j \in DOMAIN m.users : m.tickets[m.users[j]] <= m.tickets[p]}
                         \cup {Len(m.users) + 1}
      OBVIOUS
    <3>3. A \in SUBSET Nat /\ A # {} /\ A \subseteq 1 .. Len(m.users) + 1
      BY <3>1, <3>2
    <3>4. PICK above : above = Min(A)
      OBVIOUS
    <3>5. above \in 1 .. Len(m.users) + 1
      BY <3>3, <3>4, MinOfNaturals
    <3>6. PICK B : B = {j \in above .. Len(m.users) :
                          m.tickets[m.users[j]] # m.tickets[p] \/ p <= m.users[j]}
                         \cup {Len(m.users) + 1}
      OBVIOUS
    <3>7. B \in SUBSET Nat /\ B # {} /\ B \subseteq 1 .. Len(m.users) + 1
      BY <3>1, <3>5, <3>6
    <3>8. i = Min(B)
      BY <2>4, <3>2, <3>4, <3>6 DEF insert_to_user_place
    <3> QED
      BY <3>7, <3>8, MinOfNaturals
  <2>6. l = InsertAt(m.users, i, p)
    BY <2>1, <2>4 DEF insert_to_user
  <2>7. /\ l \in Seq(LotteryUsers) /\ IsInjective(l) /\ ToSet(l) = ToSet(m.users) \cup {p}
    BY <1>1, <1>2, <2>3, <2>5, <2>6, InsertAtJoins
  <2>8. /\ r \in LotteryType /\ r.prstate = s /\ r.users = l /\ r.readylist = m.readylist
        /\ r.tickets = m.tickets
    BY <1>1, <1>4, <2>2, <2>7 DEF LotteryType
  <2>9. ToSet(l) = {q \in LotteryUsers : s[q] = "READY"}
    BY <1>1, <1>4, <2>3, <2>7, LotteryClasses
  <2>10. ToSet(m.readylist) = {q \in System : s[q] = "READY"}
    BY <1>1, <1>4, <1>6, LotteryClasses
  <2>11. s[Null] # "SUSP"
    BY <1>1, <1>4, LotteryClasses
  <2>12. OnCpu(r) = OnCpu(m) \ {p}
    BY <1>4, <2>8 DEF OnCpu
  <2> QED
    BY <1>1, <2>7, <2>8, <2>9, <2>10, <2>11, <2>12 DEF Linked
<1> QED
  BY <1>5, <1>6

(* A ready process, other than the null process when s is SUSP, leaves its *)
(* list.                                                                   *)
LEMMA LeavingLinks ==
  ASSUME NEW m, Linked(m), NEW p \in LotteryProcs, m.prstate[p] = "READY",
         NEW s \in {"CURR", "SUSP"}, NEW r, r \in LotteryType,
         r.prstate = [m.prstate EXCEPT ![p] = s], p = Null => s = "CURR",
         \/ /\ p \in System /\ r.users = m.users
            /\ \/ r.readylist = getitem(m.readylist, p) /\ p # Null
               \/ r.readylist = Tail(m.readylist) /\ p = Head(m.readylist)
                    /\ m.readylist # << >>
         \/ /\ p \in LotteryUsers /\ r.readylist = m.readylist
            /\ r.users = getitem(m.users, p)
  PROVE  Linked(r)
<1>1. /\ m \in LotteryType /\ IsInjective(m.readylist) /\ IsInjective(m.users)
      /\ ToSet(m.readylist) = {q \in System : m.prstate[q] = "READY"}
      /\ ToSet(m.users) = {q \in LotteryUsers : m.prstate[q] = "READY"}
      /\ m.prstate[Null] # "SUSP" /\ ByPriority(m.readylist)
  BY DEF Linked
<1>2. /\ m.readylist \in Seq(System) /\ m.users \in Seq(LotteryUsers)
      /\ m.prstate \in [LotteryProcs -> {"CURR", "READY", "SUSP"}]
  BY <1>1 DEF LotteryType
<1>3. r.prstate[p] = s /\ \A q \in LotteryProcs : q # p => r.prstate[q] = m.prstate[q]
  BY <1>2
<1>4. r.prstate[Null] # "SUSP"
  BY <1>1, <1>3, LotteryClasses
<1>5. CASE p \in System
  <2>1. p \in ToSet(m.readylist) /\ p \notin LotteryUsers
    BY <1>1, <1>5, LotteryClasses
  <2>2. /\ IsInjective(r.readylist) /\ ToSet(r.readylist) = ToSet(m.readylist) \ {p}
        /\ ByPriority(r.readylist) /\ r.users = m.users
    <3>1. CASE r.readylist = getitem(m.readylist, p) /\ p # Null
      BY <1>1, <1>2, <2>1, <3>1, GetitemLeaves, LeavingByPriority
    <3>2. CASE r.readylist = Tail(m.readylist) /\ p = Head(m.readylist) /\ m.readylist # << >>
      BY <1>1, <1>2, <2>1, <3>2, TailLeaves, LeavingByPriority
    <3> QED
      BY <2>1, <3>1, <3>2
  <2>3. ToSet(r.readylist) = {q \in System : r.prstate[q] = "READY"}
    BY <1>1, <1>3, <2>2, LotteryClasses
  <2>4. ToSet(r.users) = {q \in LotteryUsers : r.prstate[q] = "READY"}
    BY <1>1, <1>3, <2>1, <2>2, LotteryClasses
  <2> QED
    BY <1>1, <1>4, <2>2, <2>3, <2>4 DEF Linked
<1>6. CASE p \notin System
  <2>1. p \in LotteryUsers /\ r.readylist = m.readylist /\ r.users = getitem(m.users, p)
    BY <1>6
  <2>2. p \in ToSet(m.users)
    BY <1>1, <2>1
  <2>3. IsInjective(r.users) /\ ToSet(r.users) = ToSet(m.users) \ {p}
    BY <1>1, <1>2, <2>1, <2>2, GetitemLeaves
  <2>4. ToSet(r.readylist) = {q \in System : r.prstate[q] = "READY"}
    BY <1>1, <1>3, <1>6, <2>1, LotteryClasses
  <2>5. ToSet(r.users) = {q \in LotteryUsers : r.prstate[q] = "READY"}
    BY <1>1, <1>3, <2>3, LotteryClasses
  <2> QED
    BY <1>1, <1>4, <2>1, <2>3, <2>4, <2>5 DEF Linked
<1> QED
  BY <1>5, <1>6

(* What follows from a record in which no process has the CPU: one has it, *)
(* from the list it was on; a user process only with a ticket, and only    *)
(* when the null process alone is on the ready list.                       *)
LEMMA DrawLinks ==
  ASSUME NEW m, Linked(m), OnCpu(m) = {}, NEW r \in draw(m)
  PROVE  /\ Linked(r) /\ OnCpu(r) = {r.currpid} /\ r.tickets = m.tickets
         /\ r.currpid \in LotteryUsers => r.tickets[r.currpid] > 0 /\ r.readylist = <<Null>>
<1>1. /\ m \in LotteryType /\ IsInjective(m.readylist) /\ IsInjective(m.users)
      /\ ToSet(m.readylist) = {q \in System : m.prstate[q] = "READY"}
      /\ ToSet(m.users) = {q \in LotteryUsers : m.prstate[q] = "READY"}
      /\ m.prstate[Null] # "SUSP" /\ ByPriority(m.readylist)
  BY DEF Linked
<1>2. /\ m.readylist \in Seq(System) /\ m.users \in Seq(LotteryUsers)
      /\ m.tickets \in [LotteryUsers -> Nat]
      /\ m.prstate \in [LotteryProcs -> {"CURR", "READY", "SUSP"}]
  BY <1>1 DEF LotteryType
<1>3. m.readylist # << >>
  <2>1. Null \in LotteryProcs /\ m.prstate[Null] # "CURR"
    BY LotteryClasses DEF OnCpu
  <2>2. m.prstate[Null] = "READY"
    BY <1>1, <1>2, <2>1
  <2>3. Null \in ToSet(m.readylist)
    BY <1>1, <2>2, LotteryClasses
  <2> QED
    BY <2>3 DEF ToSet
<1>4. ASSUME NEW p \in LotteryProcs, m.prstate[p] = "READY", r \in LotteryType,
             r.prstate = [m.prstate EXCEPT ![p] = "CURR"], r.currpid = p
      PROVE  OnCpu(r) = {r.currpid}
  <2>1. r.prstate[p] = "CURR" /\ \A q \in LotteryProcs : q # p => r.prstate[q] # "CURR"
    BY <1>2, <1>4 DEF OnCpu
  <2> QED
    BY <1>4, <2>1 DEF OnCpu
<1>5. CASE r = run_system(m)
  <2>1. PICK p : p = Head(m.readylist)
    OBVIOUS
  <2>2. PICK l : l = Tail(m.readylist)
    OBVIOUS
  <2>3. p \in System /\ p \in ToSet(m.readylist) /\ l \in Seq(System)
    BY <1>1, <1>2, <1>3, <2>1, <2>2, TailLeaves
  <2>4. p \in LotteryProcs /\ p \notin LotteryUsers /\ m.prstate[p] = "READY"
    BY <1>1, <2>3, LotteryClasses
  <2>5. r = [m EXCEPT !.readylist = l, !.currpid = p, !.preempt = LOTTERY_QUANTUM,
                      !.prstate = [m.prstate EXCEPT ![p] = "CURR"]]
    BY <1>1, <1>5, <2>1, <2>2 DEF run_system, run, LotteryType
  <2>6. /\ r \in LotteryType /\ r.prstate = [m.prstate EXCEPT ![p] = "CURR"]
        /\ r.readylist = l /\ r.users = m.users /\ r.currpid = p /\ r.tickets = m.tickets
    <3>1. PICK s : s = [m.prstate EXCEPT ![p] = "CURR"]
      OBVIOUS
    <3>2. s \in [LotteryProcs -> {"CURR", "READY", "SUSP"}] /\ LOTTERY_QUANTUM \in Int
      <4>1. LOTTERY_QUANTUM \in Int
        BY LotteryAssumption
      <4>2. s \in [LotteryProcs -> {"CURR", "READY", "SUSP"}]
        BY <1>2, <3>1
      <4> QED
        BY <4>1, <4>2
    <3>3. r = [m EXCEPT !.readylist = l, !.currpid = p, !.preempt = LOTTERY_QUANTUM,
                        !.prstate = s]
      BY <2>5, <3>1
    <3> QED
      BY <1>1, <2>3, <2>4, <3>1, <3>2, <3>3 DEF LotteryType
  <2>7. Linked(r)
    BY <1>3, <2>1, <2>2, <2>3, <2>4, <2>6, LeavingLinks
  <2> QED
    BY <1>4, <2>4, <2>6, <2>7
<1>6. ASSUME NEW i \in 1 .. Len(m.users), r = run_user(m, i), m.tickets[m.users[i]] > 0,
             Head(m.readylist) = Null
      PROVE  /\ Linked(r) /\ OnCpu(r) = {r.currpid} /\ r.tickets = m.tickets
             /\ r.tickets[r.currpid] > 0 /\ r.readylist = <<Null>>
  <2>1. PICK p : p = m.users[i]
    OBVIOUS
  <2>2. PICK l : l = getitem(m.users, p)
    OBVIOUS
  <2>3. p \in LotteryUsers /\ p \in ToSet(m.users)
    BY <1>2, <2>1 DEF ToSet
  <2>4. l \in Seq(LotteryUsers) /\ l = RemoveAt(m.users, i)
    BY <1>1, <1>2, <2>1, <2>2, <2>3, GetitemLeaves, RemovedIsGotten
  <2>5. p \in LotteryProcs /\ p \notin System /\ p # Null /\ m.prstate[p] = "READY"
    BY <1>1, <2>3, LotteryClasses
  <2>6. r = [m EXCEPT !.users = l, !.currpid = p, !.preempt = LOTTERY_QUANTUM,
                      !.prstate = [m.prstate EXCEPT ![p] = "CURR"]]
    BY <1>1, <1>6, <2>1, <2>4 DEF run_user, run, LotteryType
  <2>7. /\ r \in LotteryType /\ r.prstate = [m.prstate EXCEPT ![p] = "CURR"]
        /\ r.readylist = m.readylist /\ r.users = l /\ r.currpid = p /\ r.tickets = m.tickets
    <3>1. PICK s : s = [m.prstate EXCEPT ![p] = "CURR"]
      OBVIOUS
    <3>2. s \in [LotteryProcs -> {"CURR", "READY", "SUSP"}] /\ LOTTERY_QUANTUM \in Int
      <4>1. LOTTERY_QUANTUM \in Int
        BY LotteryAssumption
      <4>2. s \in [LotteryProcs -> {"CURR", "READY", "SUSP"}]
        BY <1>2, <3>1
      <4> QED
        BY <4>1, <4>2
    <3>3. r = [m EXCEPT !.users = l, !.currpid = p, !.preempt = LOTTERY_QUANTUM,
                        !.prstate = s]
      BY <2>6, <3>1
    <3> QED
      BY <1>1, <2>4, <2>5, <3>1, <3>2, <3>3 DEF LotteryType
  <2>8. Linked(r)
    BY <2>2, <2>3, <2>5, <2>7, LeavingLinks
  <2>9. m.readylist = <<Null>>
    BY <1>1, <1>2, <1>3, <1>6, NullAlone
  <2> QED
    BY <1>4, <1>6, <2>1, <2>5, <2>7, <2>8, <2>9
<1>7. CASE /\ Head(m.readylist) = Null /\ m.users # << >> /\ m.tickets[Head(m.users)] # 0
  <2>1. 1 \in 1 .. Len(m.users) /\ Head(m.users) = m.users[1] /\ m.users[1] \in LotteryUsers
    BY <1>2, <1>7
  <2>2. CASE Len(m.users) = 1
    <3>1. r = run_user(m, 1)
      BY <1>7, <2>2 DEF draw
    <3>2. m.tickets[m.users[1]] \in Nat
      BY <1>2, <2>1
    <3>3. m.tickets[m.users[1]] > 0
      BY <1>7, <2>1, <3>2
    <3> QED
      BY <1>6, <1>7, <2>1, <3>1, <3>3
  <2>3. CASE Len(m.users) # 1
    <3>1. PICK w \in 0 .. total_tickets(m.users, m.tickets) - 1 :
            r = run_user(m, winner(m.users, m.tickets, w))
      BY <1>7, <2>3 DEF draw
    <3>2. PICK i : i = winner(m.users, m.tickets, w)
      OBVIOUS
    <3>3. i \in 1 .. Len(m.users) /\ m.tickets[m.users[i]] > 0
      BY <1>2, <3>2, WinnerOfDraw
    <3> QED
      BY <1>6, <1>7, <3>1, <3>2, <3>3
  <2> QED
    BY <2>2, <2>3
<1>8. CASE Head(m.readylist) # Null \/ m.users = << >> \/ m.tickets[Head(m.users)] = 0
  <2>1. r = run_system(m)
    BY <1>8 DEF draw
  <2>2. r.currpid = Head(m.readylist)
    BY <1>1, <2>1 DEF run_system, run, LotteryType
  <2>3. r.currpid \notin LotteryUsers
    <3>1. Head(m.readylist) \in System
      BY <1>1, <1>2, <1>3, TailLeaves
    <3> QED
      BY <2>2, <3>1, LotteryClasses
  <2>4. Linked(r) /\ OnCpu(r) = {r.currpid} /\ r.tickets = m.tickets
    BY <1>5, <2>1
  <2> QED
    BY <2>3, <2>4
<1> QED
  BY <1>7, <1>8

LEMMA ReschedLinks ==
  ASSUME NEW m, Linked(m), OnCpu(m) \subseteq {m.currpid}, NEW r \in lottery_resched(m)
  PROVE  /\ Linked(r) /\ OnCpu(r) = {r.currpid} /\ r.tickets = m.tickets
         /\ r.currpid \in LotteryUsers => r.tickets[r.currpid] > 0 /\ r.readylist = <<Null>>
<1>1. m.currpid \in LotteryProcs
  BY DEF Linked, LotteryType
<1>2. CASE m.prstate[m.currpid] = "CURR"
  <2>1. PICK n : n = lottery_make_ready(m, m.currpid)
    OBVIOUS
  <2>2. Linked(n) /\ OnCpu(n) = {} /\ n.tickets = m.tickets
    BY <1>1, <1>2, <2>1, MakeReadyLinks
  <2>3. r \in draw(n)
    BY <1>2, <2>1 DEF lottery_resched
  <2> QED
    BY <2>2, <2>3, DrawLinks
<1>3. CASE m.prstate[m.currpid] # "CURR"
  <2>1. OnCpu(m) = {}
    BY <1>3 DEF OnCpu
  <2>2. r \in draw(m)
    BY <1>3 DEF lottery_resched
  <2> QED
    BY <2>1, <2>2, DrawLinks
<1> QED
  BY <1>2, <1>3

-----------------------------------------------------------------------------
LEMMA LotteryInitLinks == LotteryInit => LotteryIInv
<1> SUFFICES ASSUME LotteryInit PROVE LotteryIInv
  OBVIOUS
<1>1. PICK p \in DOMAIN SysPrio :
        lottery = [prstate   |-> start_state(LotteryUsers, p),
                   tickets   |-> [q \in LotteryUsers |-> 0],
                   readylist |-> <<Null>>,
                   users     |-> << >>,
                   currpid   |-> p,
                   preempt   |-> LOTTERY_QUANTUM]
  BY DEF LotteryInit
<1>2. p \in System /\ p # Null /\ p \in LotteryProcs /\ Null \in LotteryProcs
  BY ClassesAssumption, LotteryClasses DEF System, Null
<1>3. /\ lottery.prstate \in [LotteryProcs -> {"CURR", "READY", "SUSP"}]
      /\ \A q \in LotteryProcs :
           /\ lottery.prstate[q] = "CURR" <=> q = p
           /\ lottery.prstate[q] = "READY" <=> q = Null
  BY <1>1, <1>2 DEF start_state, LotteryProcs
<1>4. lottery \in LotteryType
  <2>1. <<Null>> \in Seq(System) /\ << >> \in Seq(LotteryUsers) /\ LOTTERY_QUANTUM \in Int
    BY LotteryClasses, LotteryAssumption
  <2> QED
    BY <1>1, <1>2, <1>3, <2>1 DEF LotteryType
<1>5. /\ IsInjective(lottery.readylist) /\ IsInjective(lottery.users)
      /\ ToSet(lottery.readylist) = {Null} /\ ToSet(lottery.users) = {}
      /\ ByPriority(lottery.readylist)
  BY <1>1 DEF IsInjective, ToSet, ByPriority, Descending
<1>6. /\ {q \in System : lottery.prstate[q] = "READY"} = {Null}
      /\ {q \in LotteryUsers : lottery.prstate[q] = "READY"} = {}
  BY <1>2, <1>3, LotteryClasses
<1>7. OnCpu(lottery) = {lottery.currpid}
  BY <1>1, <1>2, <1>3 DEF OnCpu
<1>8. lottery.prstate[Null] # "SUSP"
  BY <1>2, <1>3
<1> QED
  BY <1>4, <1>5, <1>6, <1>7, <1>8 DEF LotteryIInv, Linked

(* A step keeps the lists, and gives a user process the CPU only by draw.  *)
LEMMA LotteryStepLinks ==
  ASSUME LotteryIInv, [LotteryNext]_lottery
  PROVE  /\ LotteryIInv'
         /\ lottery'.currpid \in LotteryUsers /\ lottery'.currpid # lottery.currpid =>
              lottery'.tickets[lottery'.currpid] > 0 /\ lottery'.readylist = <<Null>>
<1>1. Linked(lottery) /\ OnCpu(lottery) = {lottery.currpid}
  BY DEF LotteryIInv
<1>2. /\ lottery \in LotteryType /\ IsInjective(lottery.readylist) /\ IsInjective(lottery.users)
      /\ ToSet(lottery.readylist) = {q \in System : lottery.prstate[q] = "READY"}
      /\ ToSet(lottery.users) = {q \in LotteryUsers : lottery.prstate[q] = "READY"}
      /\ lottery.prstate[Null] # "SUSP" /\ ByPriority(lottery.readylist)
  BY <1>1 DEF Linked
<1>3. /\ lottery.readylist \in Seq(System) /\ lottery.users \in Seq(LotteryUsers)
      /\ lottery.currpid \in LotteryProcs /\ lottery.preempt \in Int
      /\ lottery.tickets \in [LotteryUsers -> Nat]
      /\ lottery.prstate \in [LotteryProcs -> {"CURR", "READY", "SUSP"}]
  BY <1>2 DEF LotteryType
<1>4. lottery.prstate[lottery.currpid] = "CURR"
  BY <1>1 DEF OnCpu
<1>5. ASSUME lottery' \in lottery_resched(lottery)
      PROVE  /\ LotteryIInv'
             /\ lottery'.currpid \in LotteryUsers =>
                  lottery'.tickets[lottery'.currpid] > 0 /\ lottery'.readylist = <<Null>>
  <2>1. PICK n : n = lottery'
    OBVIOUS
  <2>2. /\ Linked(n) /\ OnCpu(n) = {n.currpid}
        /\ n.currpid \in LotteryUsers => n.tickets[n.currpid] > 0 /\ n.readylist = <<Null>>
    BY <1>1, <1>5, <2>1, ReschedLinks
  <2> QED
    BY <2>1, <2>2 DEF LotteryIInv, Linked, OnCpu
<1>6. CASE \E p \in LotteryProcs : lottery_resume(p)
  <2>1. PICK p \in LotteryProcs : lottery_resume(p)
    BY <1>6
  <2>2. PICK m : m = lottery_make_ready(lottery, p)
    OBVIOUS
  <2>3. Linked(m) /\ OnCpu(m) = OnCpu(lottery) \ {p}
    BY <1>1, <2>1, <2>2, MakeReadyLinks DEF lottery_resume
  <2>4. m.currpid = lottery.currpid
    BY <1>2, <2>2 DEF lottery_make_ready, LotteryType
  <2>5. PICK n : n = lottery' /\ n \in lottery_resched(m)
    BY <2>1, <2>2 DEF lottery_resume
  <2>6. /\ Linked(n) /\ OnCpu(n) = {n.currpid}
        /\ n.currpid \in LotteryUsers => n.tickets[n.currpid] > 0 /\ n.readylist = <<Null>>
    BY <1>1, <2>3, <2>4, <2>5, ReschedLinks
  <2> QED
    BY <2>5, <2>6 DEF LotteryIInv, Linked, OnCpu
<1>7. CASE \E p \in LotteryProcs : lottery_suspend(p)
  <2>1. PICK p \in LotteryProcs : lottery_suspend(p)
    BY <1>7
  <2>2. PICK n : n = lottery'
    OBVIOUS
  <2>3. PICK l, u : /\ l = IF p \in System THEN getitem(lottery.readylist, p) ELSE lottery.readylist
                    /\ u = IF p \in System THEN lottery.users ELSE getitem(lottery.users, p)
    OBVIOUS
  <2>4. /\ lottery.prstate[p] = "READY" /\ p # Null
        /\ n = [lottery EXCEPT !.prstate[p] = "SUSP", !.readylist = l, !.users = u]
    BY <2>1, <2>2, <2>3 DEF lottery_suspend
  <2>5. l \in Seq(System) /\ u \in Seq(LotteryUsers)
    <3>1. CASE p \in System
      <4>1. p \in ToSet(lottery.readylist)
        BY <1>2, <2>4, <3>1
      <4> QED
        BY <1>2, <1>3, <2>3, <3>1, <4>1, GetitemLeaves
    <3>2. CASE p \notin System
      <4>1. p \in ToSet(lottery.users)
        BY <1>2, <2>4, <3>2, LotteryClasses
      <4> QED
        BY <1>2, <1>3, <2>3, <3>2, <4>1, GetitemLeaves
    <3> QED
      BY <3>1, <3>2
  <2>6. /\ n \in LotteryType /\ n.prstate = [lottery.prstate EXCEPT ![p] = "SUSP"]
        /\ n.readylist = l /\ n.users = u /\ n.currpid = lottery.currpid
    BY <1>2, <1>3, <2>4, <2>5 DEF LotteryType
  <2>7. Linked(n)
    <3>1. CASE p \in System
      BY <1>1, <2>3, <2>4, <2>6, <3>1, LeavingLinks
    <3>2. CASE p \notin System
      <4>1. p \in LotteryUsers
        BY <3>2, LotteryClasses
      <4> QED
        BY <1>1, <2>3, <2>4, <2>6, <3>2, <4>1, LeavingLinks
    <3> QED
      BY <3>1, <3>2
  <2>8. OnCpu(n) = OnCpu(lottery)
    BY <1>3, <2>4, <2>6 DEF OnCpu
  <2> QED
    BY <1>1, <2>2, <2>6, <2>7, <2>8 DEF LotteryIInv, Linked, OnCpu
<1>8. CASE lottery_suspend_self
  <2>1. PICK p : p = lottery.currpid
    OBVIOUS
  <2>2. PICK m : m = [lottery EXCEPT !.prstate[p] = "SUSP"]
    OBVIOUS
  <2>3. p # Null /\ p \in LotteryProcs /\ lottery' \in lottery_resched(m)
    BY <1>3, <1>8, <2>1, <2>2 DEF lottery_suspend_self, lottery_InCall, lottery_Running
  <2>4. /\ m \in LotteryType /\ m.readylist = lottery.readylist /\ m.users = lottery.users
        /\ m.currpid = p /\ m.prstate = [lottery.prstate EXCEPT ![p] = "SUSP"]
    BY <1>2, <1>3, <2>1, <2>2, <2>3 DEF LotteryType
  <2>5. m.prstate[p] = "SUSP" /\ \A q \in LotteryProcs : q # p => m.prstate[q] = lottery.prstate[q]
    BY <1>3, <2>3, <2>4
  <2>6. OnCpu(m) \subseteq {m.currpid}
    BY <1>1, <2>1, <2>4, <2>5 DEF OnCpu
  <2>7. /\ ToSet(m.readylist) = {q \in System : m.prstate[q] = "READY"}
        /\ ToSet(m.users) = {q \in LotteryUsers : m.prstate[q] = "READY"}
    BY <1>2, <1>4, <2>1, <2>4, <2>5, LotteryClasses
  <2>8. m.prstate[Null] # "SUSP"
    BY <1>2, <2>3, <2>5, LotteryClasses
  <2>9. Linked(m)
    BY <1>2, <2>4, <2>7, <2>8 DEF Linked
  <2>10. PICK n : n = lottery' /\ n \in lottery_resched(m)
    BY <2>3
  <2>11. /\ Linked(n) /\ OnCpu(n) = {n.currpid}
         /\ n.currpid \in LotteryUsers => n.tickets[n.currpid] > 0 /\ n.readylist = <<Null>>
    BY <2>6, <2>9, <2>10, ReschedLinks
  <2> QED
    BY <2>10, <2>11 DEF LotteryIInv, Linked, OnCpu
<1>9. CASE lottery_yield
  BY <1>5, <1>9 DEF lottery_yield
<1>10. CASE lottery_clock
  <2>1. CASE lottery.preempt = 1
    BY <1>5, <1>10, <2>1 DEF lottery_clock
  <2>2. CASE lottery.preempt # 1
    <3>a. PICK k : k = lottery.preempt - 1 /\ k \in Int
      BY <1>3
    <3>1. PICK n : n = lottery' /\ n = [lottery EXCEPT !.preempt = k]
      BY <1>10, <2>2, <3>a DEF lottery_clock
    <3>2. /\ n \in LotteryType /\ n.prstate = lottery.prstate /\ n.users = lottery.users
          /\ n.readylist = lottery.readylist /\ n.currpid = lottery.currpid
      BY <1>2, <3>a, <3>1 DEF LotteryType
    <3> QED
      BY <1>1, <1>2, <3>1, <3>2 DEF LotteryIInv, Linked, OnCpu
  <2> QED
    BY <2>1, <2>2
<1>11. CASE \E p \in LotteryUsers, t \in Tickets : set_tickets(p, t)
  <2>1. PICK p \in LotteryUsers, t \in Tickets : set_tickets(p, t)
    BY <1>11
  <2>2. PICK n : n = lottery' /\ n = [lottery EXCEPT !.tickets[p] = t]
    BY <2>1 DEF set_tickets
  <2>3. PICK g : g = [lottery.tickets EXCEPT ![p] = t]
    OBVIOUS
  <2>4. g \in [LotteryUsers -> Nat]
    <3>1. t \in Nat
      BY LotteryAssumption
    <3> QED
      BY <1>3, <2>3, <3>1
  <2>5. /\ n \in LotteryType /\ n.prstate = lottery.prstate /\ n.users = lottery.users
        /\ n.readylist = lottery.readylist /\ n.currpid = lottery.currpid
    <3>1. n = [lottery EXCEPT !.tickets = g]
      BY <1>2, <2>2, <2>3 DEF LotteryType
    <3> QED
      BY <1>2, <2>4, <3>1 DEF LotteryType
  <2> QED
    BY <1>1, <1>2, <2>2, <2>5 DEF LotteryIInv, Linked, OnCpu
<1>12. CASE lottery' = lottery
  BY <1>1, <1>12 DEF LotteryIInv, Linked, OnCpu
<1> QED
  BY <1>6, <1>7, <1>8, <1>9, <1>10, <1>11, <1>12 DEF LotteryNext

LEMMA SpecLotteryIInv == LotterySpec => []LotteryIInv
  BY LotteryInitLinks, LotteryStepLinks, PTL DEF LotterySpec

(* Whatever was suspended, resumed, drawn or taken out of the middle of a  *)
(* list, a process is on the one list its state and kind name (ready.c,    *)
(* resched.c and suspend.c of the lottery scheduler).                      *)
THEOREM SpecListsMatchStates == LotterySpec => []ListsMatchStates
<1>1. LotteryIInv => ListsMatchStates
  BY DEF LotteryIInv, Linked, OnCpu, ListsMatchStates, lottery_Running
<1> QED
  BY <1>1, SpecLotteryIInv, PTL

(* A user process is given the CPU only with a ticket of its own, and only *)
(* when the null process alone is on the ready list (resched.c).           *)
THEOREM SpecOnlyWinnersRun == LotterySpec => OnlyWinnersRun
<1>1. LotteryIInv /\ [LotteryNext]_lottery =>
        [lottery'.currpid \in LotteryUsers /\ lottery'.currpid # lottery.currpid =>
           /\ lottery'.tickets[lottery'.currpid] > 0
           /\ lottery'.readylist = <<Null>>]_lottery
  BY LotteryStepLinks
<1> QED
  BY <1>1, SpecLotteryIInv, PTL DEF LotterySpec, OnlyWinnersRun

(* In every order of the list and with every assignment of tickets, each   *)
(* process wins as many of the draws as it has tickets (resched.c's walk   *)
(* with search_counter).                                                   *)
THEOREM SpecLotteryIsFair == LotterySpec => []LotteryIsFair
<1>1. LotteryIInv => LotteryIsFair
  <2>1. SUFFICES ASSUME LotteryIInv PROVE LotteryIsFair
    OBVIOUS
  <2>2. PICK users, tickets : users = lottery.users /\ tickets = lottery.tickets
    OBVIOUS
  <2>3. users \in Seq(LotteryUsers) /\ tickets \in [LotteryUsers -> Nat]
    BY <2>1, <2>2 DEF LotteryIInv, Linked, LotteryType
  <2>4. PICK total : total = total_tickets(users, tickets)
    OBVIOUS
  <2>5. DOMAIN users = 1 .. Len(users)
    BY <2>3
  <2>6. ASSUME NEW i \in DOMAIN users
        PROVE  Cardinality({w \in 0 .. total - 1 : winner(users, tickets, w) = i}) = tickets[users[i]]
    BY <2>3, <2>4, <2>5, DrawsPerTicket
  <2> QED
    BY <2>2, <2>4, <2>6 DEF LotteryIsFair
<1> QED
  BY <1>1, SpecLotteryIInv, PTL

-----------------------------------------------------------------------------
(***************************************************************************)
(* The multi-level feedback queues.  MlfqLinked says what every record     *)
(* that appears inside a call keeps, also while no process has the CPU:    *)
(* who is ready is on the one queue his level names, whoever is on the     *)
(* delta list sleeps, and no ready process has used up the allotment of    *)
(* its level. MlfqSettled adds what holds between the calls.  The lemmas   *)
(* follow the code: ready (PutLinks), the boost (BoostLinks), the choice   *)
(* of the next process (DispatchSettles), resched, the calls, and the      *)
(* clock with wakeup.                                                      *)
(***************************************************************************)

(* One queue behind another.                                               *)
LEMMA ConcatJoins ==
  ASSUME NEW T, NEW a \in Seq(T), NEW b \in Seq(T), IsInjective(a), IsInjective(b),
         ToSet(a) \cap ToSet(b) = {}
  PROVE  /\ a \o b \in Seq(T) /\ IsInjective(a \o b)
         /\ ToSet(a \o b) = ToSet(a) \cup ToSet(b)
<1>1. PICK c : c = a \o b
  OBVIOUS
<1>2. /\ c \in Seq(T) /\ Len(c) = Len(a) + Len(b) /\ Len(a) \in Nat /\ Len(b) \in Nat
      /\ \A i \in 1 .. Len(c) : c[i] = IF i <= Len(a) THEN a[i] ELSE b[i - Len(a)]
  BY <1>1, ConcatProperties
<1>3. \A i \in 1 .. Len(a) : c[i] = a[i] /\ a[i] \in ToSet(a) /\ i \in 1 .. Len(c)
  BY <1>2 DEF ToSet
<1>4. \A i \in 1 .. Len(b) : /\ c[i + Len(a)] = b[i] /\ b[i] \in ToSet(b)
                             /\ i + Len(a) \in 1 .. Len(c)
  BY <1>2 DEF ToSet
<1>5. ASSUME NEW i \in 1 .. Len(c), i > Len(a)
      PROVE  i - Len(a) \in 1 .. Len(b) /\ c[i] = b[i - Len(a)] /\ c[i] \in ToSet(b)
  <2>1. i - Len(a) \in 1 .. Len(b) /\ c[i] = b[i - Len(a)]
    BY <1>2, <1>5
  <2> QED
    BY <2>1 DEF ToSet
<1>6. ASSUME NEW i \in 1 .. Len(c), NEW j \in 1 .. Len(c), c[i] = c[j] PROVE i = j
  <2>1. CASE i <= Len(a) /\ j <= Len(a)
    <3>1. i \in 1 .. Len(a) /\ j \in 1 .. Len(a) /\ a[i] = a[j]
      BY <1>2, <1>6, <2>1
    <3> QED
      BY <3>1 DEF IsInjective
  <2>2. CASE i > Len(a) /\ j > Len(a)
    <3>1. i - Len(a) \in 1 .. Len(b) /\ j - Len(a) \in 1 .. Len(b) /\ b[i - Len(a)] = b[j - Len(a)]
      BY <1>5, <1>6, <2>2
    <3>2. i - Len(a) = j - Len(a)
      BY <3>1 DEF IsInjective
    <3> QED
      BY <1>2, <3>2
  <2>3. CASE i <= Len(a) /\ j > Len(a)
    <3>1. i \in 1 .. Len(a)
      BY <1>2, <2>3
    <3>2. c[j] \in ToSet(b)
      BY <1>5, <2>3
    <3>3. c[i] \in ToSet(a)
      BY <1>3, <3>1
    <3> QED
      BY <1>6, <3>2, <3>3
  <2>4. CASE i > Len(a) /\ j <= Len(a)
    <3>1. j \in 1 .. Len(a)
      BY <1>2, <2>4
    <3>2. c[i] \in ToSet(b)
      BY <1>5, <2>4
    <3>3. c[j] \in ToSet(a)
      BY <1>3, <3>1
    <3> QED
      BY <1>6, <3>2, <3>3
  <2> QED
    BY <1>2, <2>1, <2>2, <2>3, <2>4
<1>7. IsInjective(c)
  BY <1>2, <1>6 DEF IsInjective
<1>8. ToSet(c) \subseteq ToSet(a) \cup ToSet(b)
  <2>1. ASSUME NEW i \in 1 .. Len(c) PROVE c[i] \in ToSet(a) \cup ToSet(b)
    <3>1. CASE i <= Len(a)
      <4>1. i \in 1 .. Len(a)
        BY <1>2, <3>1
      <4> QED
        BY <1>3, <4>1
    <3>2. CASE i > Len(a)
      BY <1>5, <3>2
    <3> QED
      BY <1>2, <3>1, <3>2
  <2>2. \A x \in ToSet(c) : \E i \in 1 .. Len(c) : x = c[i]
    BY <1>2 DEF ToSet
  <2> QED
    BY <2>1, <2>2
<1>9. ToSet(a) \cup ToSet(b) \subseteq ToSet(c)
  <2>1. \A i \in 1 .. Len(c) : c[i] \in ToSet(c)
    BY <1>2 DEF ToSet
  <2>2. \A x \in ToSet(a) : \E i \in 1 .. Len(a) : x = a[i]
    BY DEF ToSet
  <2>3. \A x \in ToSet(b) : \E i \in 1 .. Len(b) : x = b[i]
    BY DEF ToSet
  <2>4. ToSet(a) \subseteq ToSet(c)
    BY <1>3, <2>1, <2>2
  <2>5. ASSUME NEW x \in ToSet(b) PROVE x \in ToSet(c)
    <3>1. PICK i \in 1 .. Len(b) : x = b[i]
      BY <2>3
    <3>2. PICK j : j = i + Len(a) /\ j \in 1 .. Len(c) /\ c[j] = x
      BY <1>4, <3>1
    <3> QED
      BY <2>1, <3>2
  <2> QED
    BY <2>4, <2>5
<1> QED
  BY <1>1, <1>2, <1>7, <1>8, <1>9

(* The boost's one queue made of several that share no process.            *)
IsFlat(c, s, n) ==
  c = [i \in 1 .. n |-> IF i = 1 THEN s[i] ELSE c[i-1] \o s[i]]

LEMMA FlatExists ==
  ASSUME NEW s, NEW n \in Nat
  PROVE  \E c : IsFlat(c, s, n)
<1>1. PICK Bad : Bad = {k \in 0 .. n : ~ \E c : IsFlat(c, s, k)}
  OBVIOUS
<1>2. SUFFICES ASSUME Bad # {} PROVE FALSE
  BY <1>1
<1>3. PICK k \in Bad : \A j \in Bad : k <= j
  <2>1. Bad \in SUBSET Nat
    BY <1>1
  <2> QED
    BY <1>2, <2>1, LeastOfNaturals
<1>4. CASE k = 0
  <2>1. IsFlat([i \in 1 .. 0 |-> 0], s, 0)
    BY DEF IsFlat
  <2> QED
    BY <1>1, <1>3, <1>4, <2>1
<1>5. CASE k # 0
  <2>1. k \in 1 .. n /\ k - 1 \in 0 .. n /\ k - 1 \notin Bad
    <3>1. k \in 0 .. n
      BY <1>1, <1>3
    <3>2. k - 1 \notin Bad
      BY <1>3, <3>1
    <3> QED
      BY <1>5, <3>1, <3>2
  <2>2. PICK c : IsFlat(c, s, k - 1)
    BY <1>1, <2>1
  <2>3. PICK t : t = IF k = 1 THEN s[k] ELSE c[k-1] \o s[k]
    OBVIOUS
  <2>4. PICK d : d = [i \in 1 .. k |-> IF i = k THEN t ELSE c[i]]
    OBVIOUS
  <2>5. ASSUME NEW i \in 1 .. k
        PROVE  d[i] = IF i = 1 THEN s[i] ELSE d[i-1] \o s[i]
    <3>1. CASE i = k /\ i # 1
      <4>1. d[i] = t /\ d[i-1] = c[k-1]
        BY <2>1, <2>4, <3>1
      <4> QED
        BY <2>3, <3>1, <4>1
    <3>2. CASE i = k /\ i = 1
      BY <2>3, <2>4, <3>2
    <3>3. CASE i # k
      <4>1. i \in 1 .. k - 1 /\ d[i] = c[i]
        BY <2>1, <2>4, <3>3
      <4>2. c[i] = IF i = 1 THEN s[i] ELSE c[i-1] \o s[i]
        BY <2>2, <4>1 DEF IsFlat
      <4>3. i # 1 => d[i-1] = c[i-1]
        BY <2>1, <2>4, <3>3
      <4> QED
        BY <4>1, <4>2, <4>3
    <3> QED
      BY <3>1, <3>2, <3>3
  <2>6. IsFlat(d, s, k)
    BY <2>4, <2>5 DEF IsFlat
  <2> QED
    BY <1>1, <1>3, <2>6
<1> QED
  BY <1>4, <1>5

SharesNobody(s, n) ==
  /\ Len(s) = n /\ \A i \in 1 .. n : IsInjective(s[i])
  /\ \A i, j \in 1 .. n : i # j => ToSet(s[i]) \cap ToSet(s[j]) = {}

LEMMA FlattenJoins ==
  ASSUME NEW T, NEW n \in Nat \ {0}, NEW s \in Seq(Seq(T)), SharesNobody(s, n)
  PROVE  /\ FlattenSeq(s) \in Seq(T) /\ IsInjective(FlattenSeq(s))
         /\ ToSet(FlattenSeq(s)) = UNION {ToSet(s[i]) : i \in 1 .. n}
<1> USE DEF SharesNobody
<1>1. PICK d : IsFlat(d, s, n)
  BY FlatExists
<1>2. PICK c : c = CHOOSE f : f = [i \in 1 .. n |-> IF i = 1 THEN s[i] ELSE f[i-1] \o s[i]]
  OBVIOUS
<1>3. c = [i \in 1 .. n |-> IF i = 1 THEN s[i] ELSE c[i-1] \o s[i]]
  BY <1>1, <1>2 DEF IsFlat
<1>4. FlattenSeq(s) = c[n]
  BY <1>2 DEF FlattenSeq
<1>5. ASSUME NEW i \in 1 .. n
      PROVE  c[i] = IF i = 1 THEN s[i] ELSE c[i-1] \o s[i]
  BY <1>3
<1> DEFINE Good(k) == /\ c[k] \in Seq(T) /\ IsInjective(c[k])
                      /\ ToSet(c[k]) = UNION {ToSet(s[i]) : i \in 1 .. k}
<1>6. PICK Bad : Bad = {k \in 1 .. n : ~Good(k)}
  OBVIOUS
<1>7. Bad = {}
  <2>1. SUFFICES ASSUME Bad # {} PROVE FALSE
    OBVIOUS
  <2>2. PICK k \in Bad : \A j \in Bad : k <= j
    <3>1. Bad \in SUBSET Nat
      BY <1>6
    <3> QED
      BY <2>1, <3>1, LeastOfNaturals
  <2>3. k \in 1 .. n /\ s[k] \in Seq(T) /\ IsInjective(s[k])
    BY <1>6, <2>2
  <2>4. CASE k = 1
    <3>1. c[k] = s[k]
      BY <1>5, <2>3, <2>4
    <3>2. UNION {ToSet(s[i]) : i \in 1 .. k} = ToSet(s[k])
      <4>1. 1 .. k = {k}
        BY <2>4
      <4> QED
        BY <4>1
    <3> QED
      BY <1>6, <2>2, <2>3, <3>1, <3>2
  <2>5. CASE k # 1
    <3>1. k - 1 \in 1 .. n /\ k - 1 \notin Bad
      <4>1. k - 1 \in 1 .. n
        BY <2>3, <2>5
      <4> QED
        BY <2>2, <2>3, <4>1
    <3>2. Good(k - 1)
      BY <1>6, <3>1
    <3>3. PICK a : a = c[k-1]
      OBVIOUS
    <3>4. /\ a \in Seq(T) /\ IsInjective(a)
          /\ ToSet(a) = UNION {ToSet(s[i]) : i \in 1 .. k - 1}
      BY <3>2, <3>3
    <3>5. ToSet(a) \cap ToSet(s[k]) = {}
      <4>1. \A i \in 1 .. k - 1 : i \in 1 .. n /\ i # k
        BY <2>3
      <4> QED
        BY <2>3, <3>4, <4>1
    <3>6. c[k] = a \o s[k]
      BY <1>5, <2>3, <2>5, <3>3
    <3>7. /\ c[k] \in Seq(T) /\ IsInjective(c[k]) /\ ToSet(c[k]) = ToSet(a) \cup ToSet(s[k])
      BY <2>3, <3>4, <3>5, <3>6, ConcatJoins
    <3>8. UNION {ToSet(s[i]) : i \in 1 .. k} = ToSet(a) \cup ToSet(s[k])
      <4>1. 1 .. k = (1 .. k - 1) \cup {k}
        BY <2>3
      <4> QED
        BY <3>4, <4>1
    <3> QED
      BY <1>6, <2>2, <3>7, <3>8
  <2> QED
    BY <2>4, <2>5
<1>8. Good(n)
  <2>1. n \in 1 .. n
    OBVIOUS
  <2> QED
    BY <1>6, <1>7, <2>1
<1> QED
  BY <1>4, <1>8
-----------------------------------------------------------------------------
MlfqRecords(m) ==
  [prstate : [MlfqProcs -> {"CURR", "READY", "SUSP", "SLEEP"}],
   level : [MlfqUsers -> Levels], queue_time : [MlfqUsers -> Nat],
   queue : [0 .. LEVELS -> Seq(MlfqProcs)], sleepq : Seq(MlfqProcs), qkey : {m.qkey},
   currpid : MlfqProcs, preempt : Nat \ {0}, boost_timer : {m.boost_timer},
   boost_flag : BOOLEAN, in_clock : {m.in_clock}]

(* The queue a process is on when it is ready.                             *)
HomeQueue(m, p) == IF p \in System THEN 0 ELSE m.level[p]

QueuesLinked(m) ==
  /\ m.queue[0] \in Seq(System) /\ ByPriority(m.queue[0])
  /\ \A l \in 0 .. LEVELS : IsInjective(m.queue[l])
  /\ \A p \in MlfqProcs : \A l \in 0 .. LEVELS :
       p \in ToSet(m.queue[l]) <=> m.prstate[p] = "READY" /\ l = HomeQueue(m, p)
  /\ m.prstate[Null] \in {"CURR", "READY"}

SleepersLinked(m) ==
  IsInjective(m.sleepq) /\ \A p \in ToSet(m.sleepq) : m.prstate[p] = "SLEEP"

(* Who is ready has not used up the allotment of his level.                *)
Timed(m) ==
  \A p \in MlfqUsers :
    /\ m.queue_time[p] < Allotment(m.level[p]) + TimeSlice(m.level[p])
    /\ m.level[p] = LEVELS => m.queue_time[p] = 0
    /\ m.prstate[p] = "READY" => m.queue_time[p] < Allotment(m.level[p])

(* What every record of a call keeps, also while no process has the CPU.   *)
MlfqLinked(m) ==
  m \in MlfqRecords(m) /\ QueuesLinked(m) /\ SleepersLinked(m) /\ Timed(m)

MlfqOnCpu(m) == {p \in MlfqProcs : m.prstate[p] = "CURR"}

LEMMA MlfqClasses ==
  /\ Null \in System /\ System \subseteq Nat /\ MlfqUsers \subseteq Nat
  /\ System \cap MlfqUsers = {} /\ MlfqProcs = System \cup MlfqUsers
  /\ LEVELS \in Nat \ {0} /\ TIME_ALLOTMENT \in Nat \ {0} /\ MLFQ_QUANTUM \in Nat \ {0}
  BY SystemClass, MlfqAssumption DEF MlfqProcs

LEMMA Slices ==
  ASSUME NEW l \in 0 .. LEVELS
  PROVE  TimeSlice(l) \in Nat \ {0} /\ Allotment(l) \in Nat \ {0}
<1>1. PICK Bad : Bad = {k \in 0 .. LEVELS :
                          ~ \E c : /\ c \in [0 .. k -> Nat \ {0}]
                                   /\ c = [i \in 0 .. k |-> IF i < 2 THEN MLFQ_QUANTUM ELSE 2 * c[i-1]]}
  OBVIOUS
<1>2. Bad = {}
  <2>1. SUFFICES ASSUME Bad # {} PROVE FALSE
    OBVIOUS
  <2>2. PICK k \in Bad : \A j \in Bad : k <= j
    <3>1. Bad \in SUBSET Nat
      BY <1>1
    <3> QED
      BY <2>1, <3>1, LeastOfNaturals
  <2>3. k \in 0 .. LEVELS /\ k \in Nat /\ LEVELS \in Nat
    BY <1>1, <2>2, MlfqClasses
  <2>4. CASE k = 0
    <3>1. PICK c : c = [i \in 0 .. 0 |-> MLFQ_QUANTUM]
      OBVIOUS
    <3>2. c \in [0 .. k -> Nat \ {0}]
      BY <2>4, <3>1, MlfqClasses
    <3>3. c = [i \in 0 .. k |-> IF i < 2 THEN MLFQ_QUANTUM ELSE 2 * c[i-1]]
      BY <2>4, <3>1
    <3> QED
      BY <1>1, <2>2, <3>2, <3>3
  <2>5. CASE k # 0
    <3>1. k - 1 \in 0 .. LEVELS /\ k - 1 \notin Bad
      <4>1. k - 1 \in 0 .. LEVELS
        BY <2>3, <2>5
      <4> QED
        BY <2>2, <2>3, <4>1
    <3>2. PICK c : /\ c \in [0 .. k - 1 -> Nat \ {0}]
                   /\ c = [i \in 0 .. k - 1 |-> IF i < 2 THEN MLFQ_QUANTUM ELSE 2 * c[i-1]]
      BY <1>1, <3>1
    <3>3. PICK t : t = IF k < 2 THEN MLFQ_QUANTUM ELSE 2 * c[k-1]
      OBVIOUS
    <3>4. t \in Nat \ {0}
      <4>1. k - 1 \in 0 .. k - 1
        BY <2>3, <2>5
      <4>2. c[k-1] \in Nat \ {0}
        BY <3>2, <4>1
      <4> QED
        BY <3>3, <4>2, MlfqClasses
    <3>5. PICK d : d = [i \in 0 .. k |-> IF i = k THEN t ELSE c[i]]
      OBVIOUS
    <3>6. \A i \in 0 .. k : i # k => i \in 0 .. k - 1
      BY <2>3
    <3>7. d \in [0 .. k -> Nat \ {0}]
      BY <3>2, <3>4, <3>5, <3>6
    <3>8. ASSUME NEW i \in 0 .. k
          PROVE  d[i] = IF i < 2 THEN MLFQ_QUANTUM ELSE 2 * d[i-1]
      <4>1. CASE i = k
        <5>1. d[i] = t
          BY <3>5, <4>1
        <5>2. d[i-1] = c[k-1] \/ i < 2
          <6>1. CASE i >= 2
            <7>1. i - 1 \in 0 .. k /\ i - 1 # k
              BY <2>3, <4>1, <6>1
            <7> QED
              BY <3>5, <4>1, <7>1
          <6> QED
            BY <2>3, <4>1, <6>1
        <5> QED
          BY <3>3, <4>1, <5>1, <5>2
      <4>2. CASE i # k
        <5>1. i \in 0 .. k - 1 /\ d[i] = c[i]
          BY <3>5, <3>6, <4>2
        <5>2. c[i] = IF i < 2 THEN MLFQ_QUANTUM ELSE 2 * c[i-1]
          BY <3>2, <5>1
        <5>3. CASE i < 2
          BY <5>1, <5>2, <5>3
        <5>4. CASE i >= 2
          <6>1. i - 1 \in 0 .. k /\ i - 1 # k
            BY <2>3, <5>1, <5>4
          <6>2. d[i-1] = c[i-1]
            BY <3>5, <6>1
          <6> QED
            BY <5>1, <5>2, <5>4, <6>2
        <5> QED
          BY <2>3, <5>1, <5>3, <5>4
      <4> QED
        BY <4>1, <4>2
    <3>9. d = [i \in 0 .. k |-> IF i < 2 THEN MLFQ_QUANTUM ELSE 2 * d[i-1]]
      BY <3>5, <3>8
    <3> QED
      BY <1>1, <2>2, <3>7, <3>9
  <2> QED
    BY <2>4, <2>5
<1>3. PICK d : /\ d \in [0 .. LEVELS -> Nat \ {0}]
               /\ d = [i \in 0 .. LEVELS |-> IF i < 2 THEN MLFQ_QUANTUM ELSE 2 * d[i-1]]
  <2>1. LEVELS \in 0 .. LEVELS
    BY MlfqClasses
  <2> QED
    BY <1>1, <1>2, <2>1
<1>4. PICK c : c = CHOOSE f : f = [i \in 0 .. LEVELS |-> IF i < 2 THEN MLFQ_QUANTUM ELSE 2 * f[i-1]]
  OBVIOUS
<1>5. c = [i \in 0 .. LEVELS |-> IF i < 2 THEN MLFQ_QUANTUM ELSE 2 * c[i-1]]
  BY <1>3, <1>4
<1>6. TimeSlice(l) = c[l]
  BY <1>4 DEF TimeSlice
<1>7. ASSUME NEW i \in 0 .. LEVELS
      PROVE  c[i] = IF i < 2 THEN MLFQ_QUANTUM ELSE 2 * c[i-1]
  BY <1>5
<1>8. PICK Odd : Odd = {i \in 0 .. LEVELS : c[i] \notin Nat \ {0}}
  OBVIOUS
<1>9. Odd = {}
  <2>1. SUFFICES ASSUME Odd # {} PROVE FALSE
    OBVIOUS
  <2>2. PICK k \in Odd : \A j \in Odd : k <= j
    <3>1. Odd \in SUBSET Nat
      BY <1>8
    <3> QED
      BY <2>1, <3>1, LeastOfNaturals
  <2>3. k \in 0 .. LEVELS /\ k \in Nat /\ LEVELS \in Nat /\ c[k] \notin Nat \ {0}
    BY <1>8, <2>2, MlfqClasses
  <2>4. c[k] = IF k < 2 THEN MLFQ_QUANTUM ELSE 2 * c[k-1]
    BY <1>7, <2>3
  <2>5. CASE k < 2
    BY <2>3, <2>4, <2>5, MlfqClasses
  <2>6. CASE k >= 2
    <3>1. k - 1 \in 0 .. LEVELS
      BY <2>3, <2>6
    <3>2. c[k-1] \in Nat \ {0}
      BY <1>8, <2>2, <2>3, <3>1
    <3> QED
      BY <2>3, <2>4, <2>6, <3>2
  <2> QED
    BY <2>3, <2>5, <2>6
<1>10. TimeSlice(l) \in Nat \ {0}
  BY <1>6, <1>8, <1>9
<1>11. Allotment(l) \in Nat \ {0}
  BY MlfqClasses DEF Allotment
<1> QED
  BY <1>10, <1>11

LEMMA LinkedFacts ==
  ASSUME NEW m, MlfqLinked(m)
  PROVE  /\ m.prstate \in [MlfqProcs -> {"CURR", "READY", "SUSP", "SLEEP"}]
         /\ m.level \in [MlfqUsers -> Levels] /\ m.queue_time \in [MlfqUsers -> Nat]
         /\ m.queue \in [0 .. LEVELS -> Seq(MlfqProcs)] /\ m.sleepq \in Seq(MlfqProcs)
         /\ m.currpid \in MlfqProcs /\ m.preempt \in Nat \ {0} /\ m.boost_flag \in BOOLEAN
         /\ m \in MlfqRecords(m)
  BY DEF MlfqLinked, MlfqRecords

(* Who is ready is on the queue of his level only.                         *)
LEMMA HomeOnly ==
  ASSUME NEW m, MlfqLinked(m), NEW p \in MlfqProcs
  PROVE  /\ HomeQueue(m, p) \in 0 .. LEVELS
         /\ \A l \in 0 .. LEVELS :
              p \in ToSet(m.queue[l]) <=> m.prstate[p] = "READY" /\ l = HomeQueue(m, p)
<1>1. m.level \in [MlfqUsers -> Levels]
  BY LinkedFacts
<1>2. HomeQueue(m, p) \in 0 .. LEVELS
  <2>1. LEVELS \in Nat
    BY MlfqClasses
  <2>2. CASE p \in System
    BY <2>1, <2>2 DEF HomeQueue
  <2>3. CASE p \notin System
    <3>1. p \in MlfqUsers /\ m.level[p] \in 1 .. LEVELS
      BY <1>1, <2>3, MlfqClasses DEF Levels
    <3> QED
      BY <2>1, <2>3, <3>1 DEF HomeQueue
  <2> QED
    BY <2>2, <2>3
<1> QED
  BY <1>2 DEF MlfqLinked, QueuesLinked

(* A process joins the queue of its level, which may be new, and is READY. *)
Joins(m, p, r) ==
  /\ m.prstate[p] # "READY" /\ p \notin ToSet(m.sleepq)
  /\ r \in MlfqRecords(r) /\ r.prstate = [m.prstate EXCEPT ![p] = "READY"]
  /\ \A q \in MlfqUsers : q # p => r.level[q] = m.level[q]
  /\ HomeQueue(r, p) \in 0 .. LEVELS
  /\ \A l \in 0 .. LEVELS : l # HomeQueue(r, p) => r.queue[l] = m.queue[l]
  /\ IsInjective(r.queue[HomeQueue(r, p)])
  /\ ToSet(r.queue[HomeQueue(r, p)]) = ToSet(m.queue[HomeQueue(r, p)]) \cup {p}
  /\ r.queue[0] \in Seq(System) /\ ByPriority(r.queue[0]) /\ r.sleepq = m.sleepq

LEMMA JoinLinks ==
  ASSUME NEW m, MlfqLinked(m), NEW p \in MlfqProcs, NEW r, Joins(m, p, r)
  PROVE  /\ QueuesLinked(r) /\ SleepersLinked(r) /\ MlfqOnCpu(r) = MlfqOnCpu(m) \ {p}
         /\ \A q \in MlfqProcs : q # p => r.prstate[q] = m.prstate[q]
         /\ r.prstate[p] = "READY"
<1>1. m.prstate \in [MlfqProcs -> {"CURR", "READY", "SUSP", "SLEEP"}] /\ m.sleepq \in Seq(MlfqProcs)
  BY LinkedFacts
<1>a. PICK s, u, k : s = r.prstate /\ u = r.queue /\ k = HomeQueue(r, p)
  OBVIOUS
<1>b. /\ s = [m.prstate EXCEPT ![p] = "READY"] /\ p \notin ToSet(m.sleepq)
      /\ m.prstate[p] # "READY"
      /\ \A q \in MlfqUsers : q # p => r.level[q] = m.level[q]
      /\ k \in 0 .. LEVELS /\ \A l \in 0 .. LEVELS : l # k => u[l] = m.queue[l]
      /\ IsInjective(u[k]) /\ ToSet(u[k]) = ToSet(m.queue[k]) \cup {p}
      /\ u[0] \in Seq(System) /\ ByPriority(u[0]) /\ r.sleepq = m.sleepq
  BY <1>a DEF Joins
<1>2. s[p] = "READY" /\ \A q \in MlfqProcs : q # p => s[q] = m.prstate[q]
  BY <1>1, <1>b
<1>3. QueuesLinked(m) /\ SleepersLinked(m)
  BY DEF MlfqLinked
<1>4. \A l \in 0 .. LEVELS : IsInjective(u[l])
  BY <1>3, <1>a, <1>b DEF QueuesLinked
<1>5. ASSUME NEW q \in MlfqProcs, NEW l \in 0 .. LEVELS
      PROVE  q \in ToSet(u[l]) <=> s[q] = "READY" /\ l = HomeQueue(r, q)
  <2>1. CASE q = p
    <3>1. HomeQueue(r, q) = k
      BY <1>a, <1>b, <2>1
    <3>2. CASE l = k
      BY <1>2, <1>a, <1>b, <2>1, <3>1, <3>2
    <3>3. CASE l # k
      <4>1. u[l] = m.queue[l] /\ q \notin ToSet(m.queue[l])
        BY <1>a, <1>b, <2>1, <3>3, HomeOnly
      <4> QED
        BY <3>1, <3>3, <4>1
    <3> QED
      BY <3>2, <3>3
  <2>2. CASE q # p
    <3>1. HomeQueue(r, q) = HomeQueue(m, q)
      BY <1>b, <2>2, MlfqClasses DEF HomeQueue
    <3>2. q \in ToSet(u[l]) <=> q \in ToSet(m.queue[l])
      BY <1>a, <1>b, <2>2
    <3>3. q \in ToSet(m.queue[l]) <=> m.prstate[q] = "READY" /\ l = HomeQueue(m, q)
      BY HomeOnly
    <3> QED
      BY <1>2, <2>2, <3>1, <3>2, <3>3
  <2> QED
    BY <2>1, <2>2
<1>6. s[Null] \in {"CURR", "READY"}
  BY <1>2, <1>3, MlfqClasses DEF QueuesLinked
<1>7. QueuesLinked(r)
  BY <1>4, <1>5, <1>6, <1>a, <1>b DEF QueuesLinked
<1>8. SleepersLinked(r)
  <2>1. \A q \in ToSet(m.sleepq) : q \in MlfqProcs /\ q # p
    BY <1>1, <1>b DEF ToSet
  <2> QED
    BY <1>2, <1>3, <1>a, <1>b, <2>1 DEF SleepersLinked
<1>9. MlfqOnCpu(r) = MlfqOnCpu(m) \ {p}
  BY <1>2, <1>a, <1>b DEF MlfqOnCpu
<1> QED
  BY <1>2, <1>7, <1>8, <1>9, <1>a, <1>b

(* ready puts a process on the ready list, or on the queue of its level or *)
(* the one below.                                                          *)
LEMMA PutLinks ==
  ASSUME NEW m, MlfqLinked(m), NEW p \in MlfqProcs, m.prstate[p] # "READY",
         p \notin ToSet(m.sleepq), NEW r, r = mlfq_make_ready(m, p)
  PROVE  /\ MlfqLinked(r) /\ MlfqOnCpu(r) = MlfqOnCpu(m) \ {p}
         /\ \A q \in MlfqProcs : q # p => r.prstate[q] = m.prstate[q]
         /\ r.currpid = m.currpid /\ r.sleepq = m.sleepq
<1>1. /\ m.prstate \in [MlfqProcs -> {"CURR", "READY", "SUSP", "SLEEP"}]
      /\ m.level \in [MlfqUsers -> Levels] /\ m.queue_time \in [MlfqUsers -> Nat]
      /\ m.queue \in [0 .. LEVELS -> Seq(MlfqProcs)] /\ m \in MlfqRecords(m)
  BY LinkedFacts
<1>2. QueuesLinked(m) /\ SleepersLinked(m) /\ Timed(m)
  BY DEF MlfqLinked
<1>3. PICK s : s = [m.prstate EXCEPT ![p] = "READY"]
  OBVIOUS
<1>4. /\ s \in [MlfqProcs -> {"CURR", "READY", "SUSP", "SLEEP"}]
      /\ s[p] = "READY" /\ \A q \in MlfqProcs : q # p => s[q] = m.prstate[q]
  BY <1>1, <1>3
<1>5. \A l \in 0 .. LEVELS : p \notin ToSet(m.queue[l])
  BY HomeOnly
<1>6. 0 \in 0 .. LEVELS /\ LEVELS \in Nat /\ 0 \notin Levels /\ Levels \subseteq 0 .. LEVELS
  BY MlfqClasses DEF Levels
<1>7. CASE p \in System
  <2>1. PICK u : u = [m.queue EXCEPT ![0] = insert_system(m.queue[0], p)]
    OBVIOUS
  <2>2. PICK w : w = insert_system(m.queue[0], p)
    OBVIOUS
  <2>3. p \notin ToSet(m.queue[0]) /\ m.queue[0] \in Seq(System) /\ IsInjective(m.queue[0])
        /\ ByPriority(m.queue[0])
    BY <1>2, <1>5, <1>6 DEF QueuesLinked
  <2>4. /\ w \in Seq(System) /\ IsInjective(w) /\ ToSet(w) = ToSet(m.queue[0]) \cup {p}
        /\ ByPriority(w)
    BY <1>7, <2>2, <2>3, InsertSystemLinks
  <2>5. w \in Seq(MlfqProcs)
    BY <2>4, MlfqClasses
  <2>6. /\ u \in [0 .. LEVELS -> Seq(MlfqProcs)] /\ u[0] = w
        /\ \A l \in 0 .. LEVELS : l # 0 => u[l] = m.queue[l]
    BY <1>1, <1>6, <2>1, <2>2, <2>5
  <2>7. r = [m EXCEPT !.prstate = s, !.queue = u]
    BY <1>1, <1>3, <1>7, <2>1 DEF mlfq_make_ready, mlfq_put_system, MlfqRecords
  <2>8. /\ r \in MlfqRecords(r) /\ r.prstate = s /\ r.queue = u /\ r.level = m.level
        /\ r.queue_time = m.queue_time /\ r.sleepq = m.sleepq /\ r.currpid = m.currpid
    BY <1>1, <1>4, <2>6, <2>7 DEF MlfqRecords
  <2>9. /\ QueuesLinked(r) /\ SleepersLinked(r) /\ MlfqOnCpu(r) = MlfqOnCpu(m) \ {p}
        /\ \A q \in MlfqProcs : q # p => r.prstate[q] = m.prstate[q]
    <3>1. HomeQueue(r, p) = 0
      BY <1>7 DEF HomeQueue
    <3>2. /\ r \in MlfqRecords(r) /\ r.prstate = [m.prstate EXCEPT ![p] = "READY"]
          /\ \A q \in MlfqUsers : q # p => r.level[q] = m.level[q]
      BY <1>3, <2>8
    <3>3. /\ HomeQueue(r, p) \in 0 .. LEVELS
          /\ \A k \in 0 .. LEVELS : k # HomeQueue(r, p) => r.queue[k] = m.queue[k]
          /\ IsInjective(r.queue[HomeQueue(r, p)])
          /\ ToSet(r.queue[HomeQueue(r, p)]) = ToSet(m.queue[HomeQueue(r, p)]) \cup {p}
          /\ r.queue[0] \in Seq(System) /\ ByPriority(r.queue[0]) /\ r.sleepq = m.sleepq
      BY <1>6, <2>4, <2>6, <2>8, <3>1
    <3> QED
      <4>1. Joins(m, p, r)
        BY <3>2, <3>3 DEF Joins
      <4> QED
        BY <4>1, JoinLinks
  <2>10. Timed(r)
    BY <1>2, <1>4, <1>7, <2>8, MlfqClasses DEF Timed
  <2> QED
    BY <2>8, <2>9, <2>10 DEF MlfqLinked
<1>8. CASE p \notin System
  <2>1. p \in MlfqUsers
    BY <1>8, MlfqClasses
  <2>2. PICK l : l = level_to_queue(m, p)
    OBVIOUS
  <2>3. m.level[p] \in Levels /\ m.queue_time[p] \in Nat
    BY <1>1, <2>1
  <2>4. l \in Levels /\ (l = m.level[p] \/ l = m.level[p] + 1)
        /\ (l = m.level[p] => m.level[p] = LEVELS \/ m.queue_time[p] < Allotment(m.level[p]))
    <3>1. PICK a, t, b : a = m.level[p] /\ t = m.queue_time[p] /\ b = Allotment(m.level[p])
      OBVIOUS
    <3>2. a \in 1 .. LEVELS /\ t \in Nat /\ b \in Nat /\ LEVELS \in Nat
      BY <1>6, <2>3, <3>1, Slices DEF Levels
    <3>3. l = IF a < LEVELS /\ t >= b THEN a + 1 ELSE a
      BY <2>2, <3>1 DEF level_to_queue
    <3>4. l \in 1 .. LEVELS /\ (l = a \/ l = a + 1) /\ (l = a => a = LEVELS \/ t < b)
      BY <3>2, <3>3
    <3> QED
      BY <3>1, <3>4 DEF Levels
  <2>5. PICK w : w = Append(m.queue[l], p)
    OBVIOUS
  <2>6. l \in 0 .. LEVELS /\ l # 0 /\ p \notin ToSet(m.queue[l]) /\ IsInjective(m.queue[l])
    BY <1>2, <1>5, <1>6, <2>4 DEF QueuesLinked
  <2>7. /\ w \in Seq(MlfqProcs) /\ IsInjective(w) /\ ToSet(w) = ToSet(m.queue[l]) \cup {p}
    <3>1. m.queue[l] \in Seq(MlfqProcs)
      BY <1>1, <2>6
    <3> QED
      BY <2>5, <2>6, <3>1, AppendJoins
  <2>8. PICK u, v, t : /\ u = [m.queue EXCEPT ![l] = w] /\ v = [m.level EXCEPT ![p] = l]
                       /\ t = [m.queue_time EXCEPT ![p] =
                                 IF l = m.level[p] THEN m.queue_time[p] ELSE 0]
    OBVIOUS
  <2>9. /\ u \in [0 .. LEVELS -> Seq(MlfqProcs)] /\ u[l] = w
        /\ \A k \in 0 .. LEVELS : k # l => u[k] = m.queue[k]
    BY <1>1, <2>6, <2>7, <2>8
  <2>10. /\ v \in [MlfqUsers -> Levels] /\ v[p] = l
         /\ \A q \in MlfqUsers : q # p => v[q] = m.level[q]
    BY <1>1, <2>1, <2>4, <2>8
  <2>11. /\ t \in [MlfqUsers -> Nat]
         /\ t[p] = IF l = m.level[p] THEN m.queue_time[p] ELSE 0
         /\ \A q \in MlfqUsers : q # p => t[q] = m.queue_time[q]
    BY <1>1, <2>1, <2>3, <2>8
  <2>12. r = [m EXCEPT !.prstate = s, !.queue = u, !.level = v, !.queue_time = t]
    BY <1>1, <1>3, <1>8, <2>2, <2>5, <2>8 DEF mlfq_make_ready, mlfq_put_user, MlfqRecords
  <2>13. /\ r \in MlfqRecords(r) /\ r.prstate = s /\ r.queue = u /\ r.level = v
         /\ r.queue_time = t /\ r.sleepq = m.sleepq /\ r.currpid = m.currpid
    BY <1>1, <1>4, <2>9, <2>10, <2>11, <2>12, ZenonT(30) DEF MlfqRecords
  <2>14. u[0] \in Seq(System) /\ ByPriority(u[0])
    BY <1>2, <1>6, <2>6, <2>9 DEF QueuesLinked
  <2>15. /\ QueuesLinked(r) /\ SleepersLinked(r) /\ MlfqOnCpu(r) = MlfqOnCpu(m) \ {p}
         /\ \A q \in MlfqProcs : q # p => r.prstate[q] = m.prstate[q]
    <3>1. HomeQueue(r, p) = l
      BY <1>8, <2>10, <2>13 DEF HomeQueue
    <3>2. /\ r \in MlfqRecords(r) /\ r.prstate = [m.prstate EXCEPT ![p] = "READY"]
          /\ \A q \in MlfqUsers : q # p => r.level[q] = m.level[q]
      BY <1>3, <2>10, <2>13
    <3>3. /\ HomeQueue(r, p) \in 0 .. LEVELS
          /\ \A k \in 0 .. LEVELS : k # HomeQueue(r, p) => r.queue[k] = m.queue[k]
          /\ IsInjective(r.queue[HomeQueue(r, p)])
          /\ ToSet(r.queue[HomeQueue(r, p)]) = ToSet(m.queue[HomeQueue(r, p)]) \cup {p}
          /\ r.queue[0] \in Seq(System) /\ ByPriority(r.queue[0]) /\ r.sleepq = m.sleepq
      BY <2>6, <2>7, <2>9, <2>13, <2>14, <3>1
    <3> QED
      <4>1. Joins(m, p, r)
        BY <3>2, <3>3 DEF Joins
      <4> QED
        BY <4>1, JoinLinks
  <2>16. ASSUME NEW q \in MlfqUsers
         PROVE  /\ t[q] < Allotment(v[q]) + TimeSlice(v[q])
                /\ v[q] = LEVELS => t[q] = 0
                /\ s[q] = "READY" => t[q] < Allotment(v[q])
    <3>1. CASE q = p
      <4>1. Allotment(l) \in Nat \ {0} /\ TimeSlice(l) \in Nat \ {0}
        BY <2>6, Slices
      <4>2. t[p] < Allotment(l) /\ (l = LEVELS => t[p] = 0)
        <5>1. CASE l = m.level[p]
          <6>1. m.level[p] = LEVELS => m.queue_time[p] = 0
            BY <1>2, <2>1 DEF Timed
          <6> QED
            BY <2>4, <2>11, <4>1, <5>1, <6>1
        <5>2. CASE l # m.level[p]
          BY <2>11, <4>1, <5>2
        <5> QED
          BY <5>1, <5>2
      <4>3. t[p] \in Nat
        BY <2>1, <2>11
      <4> QED
        BY <2>10, <3>1, <4>1, <4>2, <4>3
    <3>2. CASE q # p
      <4>1. q \in MlfqProcs /\ t[q] = m.queue_time[q] /\ v[q] = m.level[q] /\ s[q] = m.prstate[q]
        BY <1>4, <2>10, <2>11, <3>2, MlfqClasses
      <4> QED
        BY <1>2, <4>1 DEF Timed
    <3> QED
      BY <3>1, <3>2
  <2>17. Timed(r)
    BY <2>13, <2>16 DEF Timed
  <2> QED
    BY <2>13, <2>15, <2>17 DEF MlfqLinked
<1> QED
  BY <1>7, <1>8

(* A ready process leaves its queue, for the CPU or suspended.             *)
Leaves(m, p, st, r) ==
  /\ m.prstate[p] = "READY" /\ st \in {"CURR", "SUSP"} /\ (p = Null => st = "CURR")
  /\ r \in MlfqRecords(r) /\ r.prstate = [m.prstate EXCEPT ![p] = st]
  /\ r.level = m.level /\ r.queue_time = m.queue_time /\ r.sleepq = m.sleepq
  /\ \A l \in 0 .. LEVELS : l # HomeQueue(m, p) => r.queue[l] = m.queue[l]
  /\ IsInjective(r.queue[HomeQueue(m, p)])
  /\ ToSet(r.queue[HomeQueue(m, p)]) = ToSet(m.queue[HomeQueue(m, p)]) \ {p}
  /\ r.queue[0] \in Seq(System) /\ ByPriority(r.queue[0])

LEMMA LeaveLinks ==
  ASSUME NEW m, MlfqLinked(m), NEW p \in MlfqProcs, NEW st, NEW r, Leaves(m, p, st, r)
  PROVE  /\ MlfqLinked(r)
         /\ MlfqOnCpu(r) = IF st = "CURR" THEN MlfqOnCpu(m) \cup {p} ELSE MlfqOnCpu(m)
<1>1. m.prstate \in [MlfqProcs -> {"CURR", "READY", "SUSP", "SLEEP"}] /\ m.sleepq \in Seq(MlfqProcs)
  BY LinkedFacts
<1>a. PICK s, u, k : s = r.prstate /\ u = r.queue /\ k = HomeQueue(m, p)
  OBVIOUS
<1>b. /\ s = [m.prstate EXCEPT ![p] = st] /\ m.prstate[p] = "READY"
      /\ st \in {"CURR", "SUSP"} /\ (p = Null => st = "CURR")
      /\ r.level = m.level /\ r.queue_time = m.queue_time /\ r.sleepq = m.sleepq
      /\ \A l \in 0 .. LEVELS : l # k => u[l] = m.queue[l]
      /\ IsInjective(u[k]) /\ ToSet(u[k]) = ToSet(m.queue[k]) \ {p}
      /\ u[0] \in Seq(System) /\ ByPriority(u[0])
  BY <1>a DEF Leaves
<1>2. s[p] = st /\ \A q \in MlfqProcs : q # p => s[q] = m.prstate[q]
  BY <1>1, <1>b
<1>3. QueuesLinked(m) /\ SleepersLinked(m) /\ Timed(m)
  BY DEF MlfqLinked
<1>4. \A l \in 0 .. LEVELS : IsInjective(u[l])
  BY <1>3, <1>a, <1>b DEF QueuesLinked
<1>5. ASSUME NEW q \in MlfqProcs, NEW l \in 0 .. LEVELS
      PROVE  q \in ToSet(u[l]) <=> s[q] = "READY" /\ l = HomeQueue(r, q)
  <2>0. HomeQueue(r, q) = HomeQueue(m, q)
    BY <1>b DEF HomeQueue
  <2>1. q \in ToSet(m.queue[l]) <=> m.prstate[q] = "READY" /\ l = HomeQueue(m, q)
    BY HomeOnly
  <2>2. CASE q = p
    <3>1. q \notin ToSet(u[l])
      BY <1>a, <1>b, <2>1, <2>2
    <3> QED
      BY <1>2, <1>b, <2>2, <3>1
  <2>3. CASE q # p
    <3>1. q \in ToSet(u[l]) <=> q \in ToSet(m.queue[l])
      BY <1>b, <2>3
    <3> QED
      BY <1>2, <2>0, <2>1, <2>3, <3>1
  <2> QED
    BY <2>2, <2>3
<1>6. s[Null] \in {"CURR", "READY"}
  BY <1>2, <1>3, <1>b, MlfqClasses DEF QueuesLinked
<1>7. QueuesLinked(r)
  BY <1>4, <1>5, <1>6, <1>a, <1>b DEF QueuesLinked
<1>8. SleepersLinked(r)
  <2>1. \A q \in ToSet(m.sleepq) : q \in MlfqProcs /\ q # p
    <3>1. \A q \in ToSet(m.sleepq) : q \in MlfqProcs
      BY <1>1 DEF ToSet
    <3> QED
      BY <1>3, <1>b, <3>1 DEF SleepersLinked
  <2> QED
    BY <1>2, <1>3, <1>a, <1>b, <2>1 DEF SleepersLinked
<1>9. Timed(r)
  <2>1. \A q \in MlfqUsers : q \in MlfqProcs /\ (s[q] = "READY" => m.prstate[q] = "READY")
    BY <1>2, <1>b, MlfqClasses
  <2> QED
    BY <1>3, <1>a, <1>b, <2>1 DEF Timed
<1>10. MlfqOnCpu(r) = IF st = "CURR" THEN MlfqOnCpu(m) \cup {p} ELSE MlfqOnCpu(m)
  BY <1>2, <1>a, <1>b DEF MlfqOnCpu
<1> QED
  BY <1>7, <1>8, <1>9, <1>10 DEF MlfqLinked, Leaves

(* The boost moves whoever is ready to the first level, in order.          *)
LEMMA BoostLinks ==
  ASSUME NEW m, MlfqLinked(m), NEW r, r = boost_priority(m)
  PROVE  MlfqLinked(r) /\ MlfqOnCpu(r) = MlfqOnCpu(m) /\ r.currpid = m.currpid
<1>1. /\ m.prstate \in [MlfqProcs -> {"CURR", "READY", "SUSP", "SLEEP"}]
      /\ m.level \in [MlfqUsers -> Levels] /\ m.queue_time \in [MlfqUsers -> Nat]
      /\ m.queue \in [0 .. LEVELS -> Seq(MlfqProcs)] /\ m \in MlfqRecords(m)
  BY LinkedFacts
<1>2. QueuesLinked(m) /\ SleepersLinked(m) /\ Timed(m)
  BY DEF MlfqLinked
<1>3. LEVELS \in Nat \ {0} /\ 0 \in 0 .. LEVELS /\ 1 \in 1 .. LEVELS
  BY MlfqClasses
<1>4. PICK s : s = [i \in 1 .. LEVELS |-> m.queue[i]]
  OBVIOUS
<1>5. PICK f : f = FlattenSeq(s)
  OBVIOUS
<1>6. PICK moved : moved = UNION {ToSet(m.queue[l]) : l \in 2 .. LEVELS}
  OBVIOUS
<1>7. PICK u, v, t :
        /\ u = [l \in 0 .. LEVELS |-> CASE l = 1 -> f [] l \in 2 .. LEVELS -> << >>
                                        [] OTHER -> m.queue[l]]
        /\ v = [p \in MlfqUsers |-> IF p \in moved THEN 1 ELSE m.level[p]]
        /\ t = [p \in MlfqUsers |-> IF p \in moved THEN 0 ELSE m.queue_time[p]]
  OBVIOUS
<1>8. r = [m EXCEPT !.queue = u, !.level = v, !.queue_time = t, !.boost_flag = FALSE]
  BY <1>1, <1>4, <1>5, <1>6, <1>7 DEF boost_priority, move_up, MlfqRecords
<1>9. ASSUME NEW i \in 1 .. LEVELS
      PROVE  /\ i \in 0 .. LEVELS /\ s[i] = m.queue[i] /\ s[i] \in Seq(MlfqProcs)
             /\ IsInjective(s[i])
             /\ \A p \in ToSet(s[i]) : p \in MlfqUsers /\ m.prstate[p] = "READY" /\ m.level[p] = i
  <2>1. i \in 0 .. LEVELS /\ s[i] = m.queue[i] /\ s[i] \in Seq(MlfqProcs) /\ i # 0
    BY <1>1, <1>3, <1>4
  <2>2. ASSUME NEW p \in ToSet(s[i])
        PROVE  p \in MlfqUsers /\ m.prstate[p] = "READY" /\ m.level[p] = i
    <3>1. p \in MlfqProcs
      BY <2>1 DEF ToSet
    <3>2. m.prstate[p] = "READY" /\ i = HomeQueue(m, p)
      BY <2>1, <3>1, HomeOnly
    <3> QED
      BY <2>1, <3>1, <3>2, MlfqClasses DEF HomeQueue
  <2>3. IsInjective(s[i])
    BY <1>2, <2>1 DEF QueuesLinked
  <2> QED
    BY <2>1, <2>2, <2>3
<1>10. s \in Seq(Seq(MlfqProcs)) /\ Len(s) = LEVELS
  <2>1. s \in [1 .. LEVELS -> Seq(MlfqProcs)]
    BY <1>4, <1>9
  <2> QED
    BY <1>3, <2>1
<1>11. ASSUME NEW i \in 1 .. LEVELS, NEW j \in 1 .. LEVELS, i # j
       PROVE  ToSet(s[i]) \cap ToSet(s[j]) = {}
  <2>1. \A p \in ToSet(s[i]) : m.level[p] = i
    BY <1>9
  <2>2. \A p \in ToSet(s[j]) : m.level[p] = j
    BY <1>9
  <2> QED
    BY <1>11, <2>1, <2>2
<1>12. /\ f \in Seq(MlfqProcs) /\ IsInjective(f)
       /\ ToSet(f) = UNION {ToSet(s[i]) : i \in 1 .. LEVELS}
  <2>1. \A i \in 1 .. LEVELS : IsInjective(s[i])
    BY <1>9
  <2>2. SharesNobody(s, LEVELS)
    BY <1>10, <1>11, <2>1 DEF SharesNobody
  <2> QED
    BY <1>3, <1>5, <1>10, <2>2, FlattenJoins
<1>13. ASSUME NEW p \in MlfqUsers, m.prstate[p] = "READY"
       PROVE  p \in ToSet(f) /\ v[p] = 1 /\ (p \in moved \/ m.level[p] = 1)
  <2>1. m.level[p] \in 1 .. LEVELS /\ p \in MlfqProcs /\ p \notin System
    BY <1>1, MlfqClasses DEF Levels
  <2>2. PICK l : l = m.level[p] /\ l = HomeQueue(m, p)
    BY <2>1 DEF HomeQueue
  <2>3. p \in ToSet(m.queue[l])
    BY <1>13, <2>1, <2>2, HomeOnly
  <2>4. p \in ToSet(f)
    BY <1>9, <1>12, <2>1, <2>2, <2>3
  <2>5. p \in moved \/ m.level[p] = 1
    <3>1. CASE l # 1
      <4>1. l \in 2 .. LEVELS
        BY <1>3, <2>1, <2>2, <3>1
      <4> QED
        BY <1>6, <2>3, <4>1
    <3> QED
      BY <2>2, <3>1
  <2> QED
    BY <1>7, <2>4, <2>5
<1>14. ASSUME NEW p \in moved PROVE p \in MlfqUsers /\ m.prstate[p] = "READY"
  <2>1. PICK l \in 2 .. LEVELS : p \in ToSet(m.queue[l])
    BY <1>6
  <2>2. l \in 1 .. LEVELS
    BY <1>3
  <2> QED
    BY <1>9, <2>1, <2>2
<1>15. /\ v \in [MlfqUsers -> Levels] /\ t \in [MlfqUsers -> Nat]
       /\ \A p \in MlfqUsers : m.prstate[p] # "READY" => v[p] = m.level[p] /\ t[p] = m.queue_time[p]
  BY <1>1, <1>3, <1>7, <1>14 DEF Levels
<1>16. u \in [0 .. LEVELS -> Seq(MlfqProcs)]
  <2>1. ASSUME NEW l \in 0 .. LEVELS PROVE u[l] \in Seq(MlfqProcs)
    <3>a. << >> \in Seq(MlfqProcs)
      OBVIOUS
    <3>b. m.queue[l] \in Seq(MlfqProcs)
      BY <1>1
    <3>1. << >> \in Seq(MlfqProcs) /\ m.queue[l] \in Seq(MlfqProcs)
      BY <3>a, <3>b
    <3>2. u[l] \in {f, << >>, m.queue[l]}
      BY <1>7
    <3> QED
      BY <1>12, <3>1, <3>2
  <2> QED
    BY <1>7, <2>1
<1>17. /\ u[0] = m.queue[0] /\ u[1] = f
       /\ \A l \in 2 .. LEVELS : u[l] = << >>
  <2>1. \A l \in 2 .. LEVELS : l \in 0 .. LEVELS /\ l # 1
    BY <1>3
  <2> QED
    BY <1>3, <1>7, <2>1
<1>18. /\ r \in MlfqRecords(r) /\ r.prstate = m.prstate /\ r.queue = u /\ r.level = v
       /\ r.queue_time = t /\ r.sleepq = m.sleepq /\ r.currpid = m.currpid
  BY <1>1, <1>8, <1>15, <1>16 DEF MlfqRecords
<1>19. ASSUME NEW l \in 0 .. LEVELS PROVE l = 0 \/ l = 1 \/ l \in 2 .. LEVELS
  BY <1>3
<1>20. \A l \in 0 .. LEVELS : IsInjective(u[l])
  <2>1. IsInjective(<< >>)
    BY DEF IsInjective
  <2>2. IsInjective(u[0])
    BY <1>2, <1>3, <1>17 DEF QueuesLinked
  <2> QED
    BY <1>12, <1>17, <1>19, <2>1, <2>2
<1>21. ASSUME NEW p \in MlfqProcs, NEW l \in 0 .. LEVELS
       PROVE  p \in ToSet(u[l]) <=> m.prstate[p] = "READY" /\ l = HomeQueue(r, p)
  <2>1. p \in ToSet(m.queue[l]) <=> m.prstate[p] = "READY" /\ l = HomeQueue(m, p)
    BY HomeOnly
  <2>2. CASE l = 0
    <3>1. HomeQueue(r, p) = 0 <=> HomeQueue(m, p) = 0
      <4>1. p \in MlfqUsers => v[p] # 0 /\ m.level[p] # 0
        BY <1>1, <1>15 DEF Levels
      <4> QED
        BY <1>18, <4>1, MlfqClasses DEF HomeQueue
    <3> QED
      BY <1>17, <2>1, <2>2, <3>1
  <2>3. CASE l = 1
    <3>1. CASE p \in System
      <4>1. HomeQueue(r, p) = 0 /\ p \notin MlfqUsers
        BY <3>1, MlfqClasses DEF HomeQueue
      <4>2. p \notin ToSet(f)
        BY <1>9, <1>12, <4>1
      <4> QED
        BY <1>17, <2>3, <4>1, <4>2
    <3>2. CASE p \notin System
      <4>1. p \in MlfqUsers /\ HomeQueue(r, p) = v[p]
        BY <1>18, <3>2, MlfqClasses DEF HomeQueue
      <4>2. p \in ToSet(f) => m.prstate[p] = "READY"
        BY <1>9, <1>12
      <4> QED
        BY <1>13, <1>17, <2>3, <4>1, <4>2
    <3> QED
      BY <3>1, <3>2
  <2>4. CASE l \in 2 .. LEVELS
    <3>1. l # 0 /\ l # 1 /\ p \notin ToSet(u[l])
      <4>1. ToSet(<< >>) = {}
        BY DEF ToSet
      <4> QED
        BY <1>17, <2>4, <4>1
    <3>2. m.prstate[p] = "READY" => HomeQueue(r, p) \in {0, 1}
      BY <1>13, <1>18, MlfqClasses DEF HomeQueue
    <3> QED
      BY <3>1, <3>2
  <2> QED
    BY <1>19, <2>2, <2>3, <2>4
<1>22. QueuesLinked(r)
  BY <1>2, <1>17, <1>18, <1>20, <1>21 DEF QueuesLinked
<1>23. SleepersLinked(r)
  BY <1>2, <1>18 DEF SleepersLinked
<1>24. ASSUME NEW p \in MlfqUsers
       PROVE  /\ t[p] < Allotment(v[p]) + TimeSlice(v[p])
              /\ v[p] = LEVELS => t[p] = 0
              /\ m.prstate[p] = "READY" => t[p] < Allotment(v[p])
  <2>1. CASE m.prstate[p] = "READY"
    <3>1. v[p] = 1 /\ Allotment(1) \in Nat \ {0} /\ TimeSlice(1) \in Nat \ {0}
      BY <1>3, <1>13, <2>1, Slices
    <3>2. CASE p \in moved
      <4>1. t[p] = 0
        BY <1>7, <3>2
      <4> QED
        BY <3>1, <4>1
    <3>3. CASE p \notin moved
      <4>1. t[p] = m.queue_time[p] /\ m.level[p] = v[p]
        BY <1>7, <3>3
      <4> QED
        BY <1>2, <4>1 DEF Timed
    <3> QED
      BY <3>2, <3>3
  <2>2. CASE m.prstate[p] # "READY"
    BY <1>2, <1>15, <2>2 DEF Timed
  <2> QED
    BY <2>1, <2>2
<1>25. Timed(r)
  BY <1>18, <1>24 DEF Timed
<1>26. MlfqOnCpu(r) = MlfqOnCpu(m)
  BY <1>18 DEF MlfqOnCpu
<1> QED
  BY <1>18, <1>22, <1>23, <1>25, <1>26 DEF MlfqLinked

(* The process that has just got the CPU has the slice of its level, and   *)
(* nobody whom resched ranks above it waits.                               *)
SliceFits(m) ==
  m.currpid \in MlfqUsers =>
    m.queue_time[m.currpid] + m.preempt <
      Allotment(m.level[m.currpid]) + TimeSlice(m.level[m.currpid])

Outranked(m, p, q) ==
  \/ p \in System /\ q \in System /\ Priority(p) <= Priority(q)
  \/ p \in MlfqUsers /\ q \in System /\ q # Null
  \/ p \in MlfqUsers /\ q \in MlfqUsers /\ m.level[p] >= m.level[q]
  \/ p = Null

HighestRuns(m) ==
  \A p \in MlfqProcs : m.prstate[p] = "READY" => Outranked(m, p, m.currpid)

(* What holds between the calls.                                           *)
MlfqSettled(m) ==
  MlfqLinked(m) /\ MlfqOnCpu(m) = {m.currpid} /\ SliceFits(m) /\ HighestRuns(m)

LEMMA DispatchSettles ==
  ASSUME NEW m, MlfqLinked(m), MlfqOnCpu(m) = {}, NEW r, r = mlfq_dispatch(m)
  PROVE  MlfqSettled(r)
<1>1. /\ m.prstate \in [MlfqProcs -> {"CURR", "READY", "SUSP", "SLEEP"}]
      /\ m.level \in [MlfqUsers -> Levels] /\ m.queue_time \in [MlfqUsers -> Nat]
      /\ m.queue \in [0 .. LEVELS -> Seq(MlfqProcs)] /\ m \in MlfqRecords(m)
  BY LinkedFacts
<1>2. QueuesLinked(m) /\ SleepersLinked(m) /\ Timed(m)
  BY DEF MlfqLinked
<1>3. LEVELS \in Nat \ {0} /\ 0 \in 0 .. LEVELS /\ Levels \subseteq 1 .. LEVELS
      /\ Levels \subseteq Nat
  BY MlfqClasses DEF Levels
<1>4. PICK used : used = {k \in Levels : m.queue[k] # << >>}
  OBVIOUS
<1>5. PICK l : l = queue_to_run(m)
  OBVIOUS
<1>6. l = IF Head(m.queue[0]) # Null \/ used = {} THEN 0 ELSE Min(used)
  BY <1>4, <1>5 DEF queue_to_run
<1>7. /\ m.queue[0] \in Seq(System) /\ IsInjective(m.queue[0]) /\ ByPriority(m.queue[0])
      /\ m.queue[0] # << >>
  <2>1. Null \in MlfqProcs /\ HomeQueue(m, Null) = 0
    BY MlfqClasses DEF HomeQueue
  <2>2. m.prstate[Null] = "READY"
    BY <1>2, <2>1 DEF QueuesLinked, MlfqOnCpu
  <2>3. Null \in ToSet(m.queue[0])
    BY <1>3, <2>1, <2>2, HomeOnly
  <2>4. m.queue[0] # << >>
    BY <2>3 DEF ToSet
  <2> QED
    BY <1>2, <1>3, <2>4 DEF QueuesLinked
<1>8. used # {} => Min(used) \in used /\ \A k \in used : Min(used) <= k
  <2>1. used \in SUBSET Nat
    BY <1>3, <1>4
  <2> QED
    BY <2>1, MinOfNaturals
<1>9. l \in 0 .. LEVELS /\ m.queue[l] # << >>
  BY <1>3, <1>4, <1>6, <1>7, <1>8
<1>10. PICK p, w : p = Head(m.queue[l]) /\ w = Tail(m.queue[l])
  OBVIOUS
<1>11. /\ p \in ToSet(m.queue[l]) /\ p \in MlfqProcs /\ w \in Seq(MlfqProcs)
       /\ IsInjective(w) /\ ToSet(w) = ToSet(m.queue[l]) \ {p}
  <2>1. m.queue[l] \in Seq(MlfqProcs) /\ IsInjective(m.queue[l])
    BY <1>1, <1>2, <1>9 DEF QueuesLinked
  <2> QED
    BY <1>9, <1>10, <2>1, TailLeaves
<1>12. m.prstate[p] = "READY" /\ l = HomeQueue(m, p)
  BY <1>9, <1>11, HomeOnly
<1>13. PICK s, u : /\ s = [m.prstate EXCEPT ![p] = "CURR"]
                   /\ u = [m.queue EXCEPT ![l] = w]
  OBVIOUS
<1>14. /\ s \in [MlfqProcs -> {"CURR", "READY", "SUSP", "SLEEP"}]
       /\ s[p] = "CURR" /\ \A q \in MlfqProcs : q # p => s[q] = m.prstate[q]
  BY <1>1, <1>11, <1>13
<1>15. /\ u \in [0 .. LEVELS -> Seq(MlfqProcs)] /\ u[l] = w
       /\ \A k \in 0 .. LEVELS : k # l => u[k] = m.queue[k]
  BY <1>1, <1>9, <1>11, <1>13
<1>16. r = [m EXCEPT !.currpid = p, !.queue = u, !.prstate = s, !.preempt = TimeSlice(l)]
  BY <1>1, <1>5, <1>10, <1>13 DEF mlfq_dispatch, MlfqRecords
<1>17. TimeSlice(l) \in Nat \ {0}
  BY <1>9, Slices
<1>18. /\ r \in MlfqRecords(r) /\ r.prstate = s /\ r.queue = u /\ r.level = m.level
       /\ r.queue_time = m.queue_time /\ r.sleepq = m.sleepq /\ r.currpid = p
       /\ r.preempt = TimeSlice(l)
  BY <1>1, <1>11, <1>14, <1>15, <1>16, <1>17, ZenonT(30) DEF MlfqRecords
<1>19. u[0] \in Seq(System) /\ ByPriority(u[0])
  <2>1. CASE l = 0
    <3>1. w \in Seq(System)
      BY <1>7, <1>10, <2>1
    <3>2. ByPriority(w)
      BY <1>7, <1>10, <2>1, LeavingByPriority
    <3> QED
      BY <1>15, <2>1, <3>1, <3>2
  <2>2. CASE l # 0
    BY <1>3, <1>7, <1>15, <2>2
  <2> QED
    BY <2>1, <2>2
<1>20. Leaves(m, p, "CURR", r)
  <2>1. /\ r \in MlfqRecords(r) /\ r.prstate = [m.prstate EXCEPT ![p] = "CURR"]
        /\ r.level = m.level /\ r.queue_time = m.queue_time /\ r.sleepq = m.sleepq
    BY <1>13, <1>18
  <2>2. \A k \in 0 .. LEVELS : k # HomeQueue(m, p) => r.queue[k] = m.queue[k]
    BY <1>12, <1>15, <1>18
  <2>3. /\ IsInjective(r.queue[HomeQueue(m, p)])
        /\ ToSet(r.queue[HomeQueue(m, p)]) = ToSet(m.queue[HomeQueue(m, p)]) \ {p}
        /\ r.queue[0] \in Seq(System) /\ ByPriority(r.queue[0])
    BY <1>11, <1>12, <1>15, <1>18, <1>19
  <2> QED
    BY <1>12, <2>1, <2>2, <2>3 DEF Leaves
<1>21. MlfqLinked(r) /\ MlfqOnCpu(r) = {p}
  BY <1>11, <1>20, LeaveLinks
<1>22. SliceFits(r)
  <2>1. SUFFICES ASSUME p \in MlfqUsers
                 PROVE  m.queue_time[p] + TimeSlice(l) < Allotment(m.level[p]) + TimeSlice(m.level[p])
    BY <1>18 DEF SliceFits
  <2>2. l = m.level[p]
    BY <1>12, <2>1, MlfqClasses DEF HomeQueue
  <2>3. m.queue_time[p] < Allotment(l) /\ m.queue_time[p] \in Nat
    BY <1>1, <1>2, <1>12, <2>1, <2>2 DEF Timed
  <2>4. Allotment(l) \in Nat
    BY <1>9, Slices
  <2> QED
    BY <1>17, <2>2, <2>3, <2>4
<1>23. ASSUME NEW q \in MlfqProcs, s[q] = "READY" PROVE Outranked(m, q, p)
  <2>1. m.prstate[q] = "READY" /\ HomeQueue(m, q) \in 0 .. LEVELS
        /\ q \in ToSet(m.queue[HomeQueue(m, q)])
    BY <1>14, <1>23, HomeOnly
  <2>2. CASE q \in System
    <3>1. q \in ToSet(m.queue[0])
      BY <2>1, <2>2 DEF HomeQueue
    <3>2. CASE l = 0
      BY <1>7, <1>10, <2>2, <3>1, <3>2, HeadRanksFirst DEF Outranked
    <3>3. CASE l # 0
      <4>1. Head(m.queue[0]) = Null
        BY <1>6, <3>3
      <4>2. m.queue[0] = <<Null>>
        BY <1>7, <4>1, NullAlone
      <4>3. q = Null
        BY <3>1, <4>2 DEF ToSet
      <4> QED
        BY <4>3 DEF Outranked
    <3> QED
      BY <3>2, <3>3
  <2>3. CASE q \notin System
    <3>1. q \in MlfqUsers /\ HomeQueue(m, q) = m.level[q]
      BY <2>3, MlfqClasses DEF HomeQueue
    <3>2. m.level[q] \in used
      <4>1. m.queue[m.level[q]] # << >>
        BY <2>1, <3>1 DEF ToSet
      <4> QED
        BY <1>1, <1>4, <3>1, <4>1
    <3>3. CASE l = 0
      <4>1. Head(m.queue[0]) # Null
        BY <1>3, <1>4, <1>6, <1>8, <3>2, <3>3
      <4>2. p # Null /\ p \in System
        BY <1>7, <1>10, <3>3, <4>1
      <4> QED
        BY <3>1, <4>2 DEF Outranked
    <3>4. CASE l # 0
      <4>1. l = Min(used) /\ l <= m.level[q]
        BY <1>6, <1>8, <3>2, <3>4
      <4>2. p \in MlfqUsers /\ l = m.level[p]
        BY <1>11, <1>12, <3>4, MlfqClasses DEF HomeQueue
      <4>3. m.level[q] \in Nat /\ l \in Nat
        <5>1. m.level[q] \in Levels
          BY <1>1, <3>1
        <5>2. m.level[q] \in Nat
          BY <1>3, <5>1
        <5>3. l \in Nat
          BY <1>9
        <5> QED
          BY <5>2, <5>3
      <4> QED
        BY <3>1, <4>1, <4>2, <4>3 DEF Outranked
    <3> QED
      BY <3>3, <3>4
  <2> QED
    BY <2>2, <2>3
<1>24. HighestRuns(r)
  BY <1>18, <1>23 DEF HighestRuns, Outranked
<1> QED
  BY <1>18, <1>21, <1>22, <1>24 DEF MlfqSettled

(* A change to the fields no queue depends on.                             *)
LEMMA LinkedAlike ==
  ASSUME NEW m, MlfqLinked(m), NEW r, r \in MlfqRecords(r), r.prstate = m.prstate,
         r.level = m.level, r.queue_time = m.queue_time, r.queue = m.queue,
         IsInjective(r.sleepq), ToSet(r.sleepq) \subseteq ToSet(m.sleepq)
  PROVE  MlfqLinked(r) /\ MlfqOnCpu(r) = MlfqOnCpu(m)
<1>1. QueuesLinked(r)
  BY DEF MlfqLinked, QueuesLinked, HomeQueue
<1>2. SleepersLinked(r)
  BY DEF MlfqLinked, SleepersLinked
<1>3. Timed(r)
  BY DEF MlfqLinked, Timed
<1>4. MlfqOnCpu(r) = MlfqOnCpu(m)
  BY DEF MlfqOnCpu
<1> QED
  BY <1>1, <1>2, <1>3, <1>4 DEF MlfqLinked

LEMMA ReschedSettles ==
  ASSUME NEW m, MlfqLinked(m), MlfqOnCpu(m) \subseteq {m.currpid}, NEW r, r = mlfq_resched(m)
  PROVE  MlfqSettled(r)
<1>1. m.prstate \in [MlfqProcs -> {"CURR", "READY", "SUSP", "SLEEP"}] /\ m.currpid \in MlfqProcs
      /\ m.sleepq \in Seq(MlfqProcs)
  BY LinkedFacts
<1>2. PICK q : q = IF m.prstate[m.currpid] = "CURR" THEN mlfq_make_ready(m, m.currpid) ELSE m
  OBVIOUS
<1>3. MlfqLinked(q) /\ MlfqOnCpu(q) = {}
  <2>1. CASE m.prstate[m.currpid] = "CURR"
    <3>1. m.currpid \notin ToSet(m.sleepq)
      BY <2>1 DEF MlfqLinked, SleepersLinked
    <3>2. m.prstate[m.currpid] # "READY"
      BY <2>1
    <3>3. q = mlfq_make_ready(m, m.currpid)
      BY <1>2, <2>1
    <3>4. MlfqLinked(q) /\ MlfqOnCpu(q) = MlfqOnCpu(m) \ {m.currpid}
      BY <1>1, <3>1, <3>2, <3>3, PutLinks
    <3> QED
      BY <3>4
  <2>2. CASE m.prstate[m.currpid] # "CURR"
    <3>1. m.currpid \notin MlfqOnCpu(m)
      BY <2>2 DEF MlfqOnCpu
    <3> QED
      BY <1>2, <2>2, <3>1
  <2> QED
    BY <2>1, <2>2
<1>4. PICK b : b = IF q.boost_flag THEN boost_priority(q) ELSE q
  OBVIOUS
<1>5. MlfqLinked(b) /\ MlfqOnCpu(b) = {}
  <2>1. CASE q.boost_flag
    BY <1>3, <1>4, <2>1, BoostLinks
  <2>2. CASE ~q.boost_flag
    BY <1>3, <1>4, <2>2
  <2> QED
    BY <2>1, <2>2
<1>6. r = mlfq_dispatch(b)
  BY <1>2, <1>4 DEF mlfq_resched
<1> QED
  BY <1>5, <1>6, DispatchSettles

(* The running process suspends itself, or goes to sleep on the delta list. *)
LEMMA BlockSettles ==
  ASSUME NEW m, MlfqSettled(m), m.currpid # Null, NEW st \in {"SUSP", "SLEEP"},
         NEW n, n \in MlfqRecords(n), n.prstate = m.prstate, n.level = m.level,
         n.queue_time = m.queue_time, n.queue = m.queue, n.currpid = m.currpid,
         IsInjective(n.sleepq),
         ToSet(n.sleepq) \subseteq
           ToSet(m.sleepq) \cup (IF st = "SLEEP" THEN {m.currpid} ELSE {}),
         NEW r, r = mlfq_block(n, st)
  PROVE  MlfqSettled(r)
<1>1. PICK p : p = m.currpid
  OBVIOUS
<1>2. /\ m.prstate \in [MlfqProcs -> {"CURR", "READY", "SUSP", "SLEEP"}]
      /\ p \in MlfqProcs /\ m.prstate[p] = "CURR" /\ MlfqOnCpu(m) = {p} /\ MlfqLinked(m)
  BY <1>1, LinkedFacts DEF MlfqSettled, MlfqOnCpu
<1>3. PICK s, t : s = [m.prstate EXCEPT ![p] = st] /\ t = [n EXCEPT !.prstate = s]
  OBVIOUS
<1>4. /\ s \in [MlfqProcs -> {"CURR", "READY", "SUSP", "SLEEP"}]
      /\ s[p] = st /\ \A q \in MlfqProcs : q # p => s[q] = m.prstate[q]
  BY <1>2, <1>3
<1>5. /\ t \in MlfqRecords(t) /\ t.prstate = s /\ t.level = m.level /\ t.queue = m.queue
      /\ t.queue_time = m.queue_time /\ t.currpid = p /\ t.sleepq = n.sleepq
  BY <1>1, <1>3, <1>4 DEF MlfqRecords
<1>6. t = [n EXCEPT !.prstate[n.currpid] = st]
  BY <1>1, <1>3 DEF MlfqRecords
<1>7. QueuesLinked(t)
  <2>1. QueuesLinked(m)
    BY <1>2 DEF MlfqLinked
  <2>2. \A q \in MlfqProcs : s[q] = "READY" <=> m.prstate[q] = "READY"
    BY <1>2, <1>4
  <2>3. \A q : HomeQueue(t, q) = HomeQueue(m, q)
    BY <1>5 DEF HomeQueue
  <2>4. s[Null] = m.prstate[Null]
    BY <1>1, <1>4, MlfqClasses
  <2> QED
    BY <1>5, <2>1, <2>2, <2>3, <2>4 DEF QueuesLinked
<1>8. SleepersLinked(t)
  <2>1. \A q \in ToSet(m.sleepq) : q \in MlfqProcs /\ m.prstate[q] = "SLEEP"
    <3>1. m.sleepq \in Seq(MlfqProcs)
      BY <1>2, LinkedFacts
    <3>2. \A q \in ToSet(m.sleepq) : q \in MlfqProcs
      BY <3>1 DEF ToSet
    <3> QED
      BY <1>2, <3>2 DEF MlfqLinked, SleepersLinked
  <2>2. \A q \in ToSet(n.sleepq) : s[q] = "SLEEP"
    BY <1>1, <1>2, <1>4, <2>1
  <2> QED
    BY <1>5, <2>2 DEF SleepersLinked
<1>9. Timed(t)
  <2>1. \A q \in MlfqUsers : q \in MlfqProcs /\ (s[q] = "READY" => m.prstate[q] = "READY")
    BY <1>4, MlfqClasses
  <2> QED
    BY <1>2, <1>5, <2>1 DEF MlfqLinked, Timed
<1>10. MlfqOnCpu(t) \subseteq {t.currpid}
  BY <1>2, <1>4, <1>5 DEF MlfqOnCpu
<1>11. r = mlfq_resched(t)
  BY <1>6 DEF mlfq_block
<1> QED
  BY <1>5, <1>7, <1>8, <1>9, <1>10, <1>11, ReschedSettles DEF MlfqLinked

LEMMA ResumeSettles ==
  ASSUME NEW m, MlfqSettled(m), NEW p \in MlfqProcs, m.prstate[p] = "SUSP"
  PROVE  MlfqSettled(mlfq_ready(m, p))
<1>1. MlfqLinked(m) /\ MlfqOnCpu(m) = {m.currpid}
  BY DEF MlfqSettled
<1>2. p \notin ToSet(m.sleepq)
  BY <1>1 DEF MlfqLinked, SleepersLinked
<1>3. PICK q : q = mlfq_make_ready(m, p)
  OBVIOUS
<1>4. MlfqLinked(q) /\ MlfqOnCpu(q) \subseteq {q.currpid}
  BY <1>1, <1>2, <1>3, PutLinks
<1> QED
  BY <1>3, <1>4, ReschedSettles DEF mlfq_ready

LEMMA SuspendSettles ==
  ASSUME NEW m, MlfqSettled(m), NEW p \in MlfqProcs, m.prstate[p] = "READY", p # Null,
         NEW r, r = [m EXCEPT !.prstate[p] = "SUSP",
                              !.queue[IF p \in System THEN 0 ELSE m.level[p]] = getitem(@, p)]
  PROVE  MlfqSettled(r)
<1>1. /\ m.prstate \in [MlfqProcs -> {"CURR", "READY", "SUSP", "SLEEP"}]
      /\ m.level \in [MlfqUsers -> Levels]
      /\ m.queue \in [0 .. LEVELS -> Seq(MlfqProcs)] /\ m \in MlfqRecords(m)
      /\ MlfqLinked(m) /\ MlfqOnCpu(m) = {m.currpid}
  BY LinkedFacts DEF MlfqSettled
<1>2. PICK l : l = HomeQueue(m, p)
  OBVIOUS
<1>3. l \in 0 .. LEVELS /\ p \in ToSet(m.queue[l])
  BY <1>1, <1>2, HomeOnly
<1>4. PICK w : w = getitem(m.queue[l], p)
  OBVIOUS
<1>5. w \in Seq(MlfqProcs) /\ IsInjective(w) /\ ToSet(w) = ToSet(m.queue[l]) \ {p}
  <2>1. m.queue[l] \in Seq(MlfqProcs) /\ IsInjective(m.queue[l])
    BY <1>1, <1>3 DEF MlfqLinked, QueuesLinked
  <2> QED
    BY <1>3, <1>4, <2>1, GetitemLeaves
<1>6. PICK s, u : s = [m.prstate EXCEPT ![p] = "SUSP"] /\ u = [m.queue EXCEPT ![l] = w]
  OBVIOUS
<1>7. /\ s \in [MlfqProcs -> {"CURR", "READY", "SUSP", "SLEEP"}]
      /\ s[p] = "SUSP" /\ \A q \in MlfqProcs : q # p => s[q] = m.prstate[q]
  BY <1>1, <1>6
<1>8. /\ u \in [0 .. LEVELS -> Seq(MlfqProcs)] /\ u[l] = w
      /\ \A k \in 0 .. LEVELS : k # l => u[k] = m.queue[k]
  BY <1>1, <1>3, <1>5, <1>6
<1>9. r = [m EXCEPT !.prstate = s, !.queue = u]
  BY <1>1, <1>2, <1>4, <1>6 DEF HomeQueue, MlfqRecords
<1>10. /\ r \in MlfqRecords(r) /\ r.prstate = s /\ r.queue = u /\ r.level = m.level
       /\ r.queue_time = m.queue_time /\ r.sleepq = m.sleepq /\ r.currpid = m.currpid
       /\ r.preempt = m.preempt
  BY <1>1, <1>7, <1>8, <1>9 DEF MlfqRecords
<1>11. u[0] \in Seq(System) /\ ByPriority(u[0])
  <2>a. 0 \in 0 .. LEVELS
    BY MlfqClasses
  <2>1. m.queue[0] \in Seq(System) /\ ByPriority(m.queue[0]) /\ IsInjective(m.queue[0])
        /\ 0 \in 0 .. LEVELS
    BY <1>1, <2>a DEF MlfqLinked, QueuesLinked
  <2>2. CASE l = 0
    <3>1. w \in Seq(System) /\ ByPriority(w)
      BY <1>3, <1>4, <2>1, <2>2, GetitemLeaves, LeavingByPriority
    <3> QED
      BY <1>8, <2>2, <3>1
  <2>3. CASE l # 0
    BY <1>8, <2>1, <2>3
  <2> QED
    BY <2>2, <2>3
<1>12. Leaves(m, p, "SUSP", r)
  <2>1. /\ r \in MlfqRecords(r) /\ r.prstate = [m.prstate EXCEPT ![p] = "SUSP"]
        /\ r.level = m.level /\ r.queue_time = m.queue_time /\ r.sleepq = m.sleepq
    BY <1>6, <1>10
  <2>2. \A k \in 0 .. LEVELS : k # HomeQueue(m, p) => r.queue[k] = m.queue[k]
    BY <1>2, <1>8, <1>10
  <2>3. /\ IsInjective(r.queue[HomeQueue(m, p)])
        /\ ToSet(r.queue[HomeQueue(m, p)]) = ToSet(m.queue[HomeQueue(m, p)]) \ {p}
        /\ r.queue[0] \in Seq(System) /\ ByPriority(r.queue[0])
    BY <1>2, <1>5, <1>8, <1>10, <1>11
  <2> QED
    BY <2>1, <2>2, <2>3 DEF Leaves
<1>13. MlfqLinked(r) /\ MlfqOnCpu(r) = {r.currpid}
  BY <1>1, <1>10, <1>12, LeaveLinks
<1>14. SliceFits(r)
  BY <1>10 DEF MlfqSettled, SliceFits
<1>15. HighestRuns(r)
  <2>1. \A q \in MlfqProcs : s[q] = "READY" => m.prstate[q] = "READY"
    BY <1>7
  <2> QED
    BY <1>10, <2>1 DEF MlfqSettled, HighestRuns, Outranked
<1> QED
  BY <1>13, <1>14, <1>15 DEF MlfqSettled

-----------------------------------------------------------------------------
(* The clock charges the running process a tick.                           *)
LEMMA ChargeLinks ==
  ASSUME NEW m, MlfqSettled(m), NEW r, r = mlfq_charge(m)
  PROVE  /\ MlfqLinked(r) /\ MlfqOnCpu(r) = {r.currpid} /\ HighestRuns(r)
         /\ r.currpid \in MlfqUsers =>
              r.queue_time[r.currpid] + (r.preempt - 1) <
                Allotment(r.level[r.currpid]) + TimeSlice(r.level[r.currpid])
<1>1. /\ m.prstate \in [MlfqProcs -> {"CURR", "READY", "SUSP", "SLEEP"}]
      /\ m.level \in [MlfqUsers -> Levels] /\ m.queue_time \in [MlfqUsers -> Nat]
      /\ m \in MlfqRecords(m) /\ m.preempt \in Nat \ {0} /\ m.currpid \in MlfqProcs
      /\ MlfqLinked(m) /\ MlfqOnCpu(m) = {m.currpid} /\ SliceFits(m) /\ HighestRuns(m)
  BY LinkedFacts DEF MlfqSettled
<1>2. PICK p, t, b, c :
        /\ p = m.currpid
        /\ t = [q \in MlfqUsers |-> IF q = m.currpid /\ m.level[q] < LEVELS
                                    THEN m.queue_time[q] + 1 ELSE m.queue_time[q]]
        /\ b = (IF m.boost_timer = 1 THEN PRIORITY_BOOST_PERIOD ELSE m.boost_timer - 1)
        /\ c = (m.boost_flag \/ m.boost_timer = 1)
  OBVIOUS
<1>3. t \in [MlfqUsers -> Nat]
  BY <1>1, <1>2
<1>4. c \in BOOLEAN
  BY <1>2
<1>5. r = [m EXCEPT !.queue_time = t, !.boost_timer = b, !.boost_flag = c]
  BY <1>1, <1>2 DEF mlfq_charge, MlfqRecords
<1>6. /\ r \in MlfqRecords(r) /\ r.prstate = m.prstate /\ r.queue = m.queue
      /\ r.level = m.level /\ r.queue_time = t /\ r.sleepq = m.sleepq /\ r.currpid = p
      /\ r.preempt = m.preempt
  BY <1>1, <1>2, <1>3, <1>4, <1>5 DEF MlfqRecords
<1>7. QueuesLinked(r) /\ SleepersLinked(r)
  BY <1>1, <1>6 DEF MlfqLinked, QueuesLinked, SleepersLinked, HomeQueue
<1>8. \A q \in MlfqUsers : /\ q # p \/ m.level[q] = LEVELS => t[q] = m.queue_time[q]
                           /\ q = p /\ m.level[q] # LEVELS => t[q] = m.queue_time[q] + 1
  <2>1. \A q \in MlfqUsers : m.level[q] \in 1 .. LEVELS
    BY <1>1 DEF Levels
  <2>2. LEVELS \in Nat
    BY MlfqClasses
  <2>3. \A q \in MlfqUsers : m.level[q] # LEVELS => m.level[q] < LEVELS
    BY <2>1, <2>2
  <2> QED
    BY <1>2, <2>2, <2>3
<1>9. ASSUME p \in MlfqUsers
      PROVE  /\ t[p] + (m.preempt - 1) < Allotment(m.level[p]) + TimeSlice(m.level[p])
             /\ t[p] < Allotment(m.level[p]) + TimeSlice(m.level[p])
             /\ m.prstate[p] = "CURR"
             /\ m.level[p] = LEVELS => t[p] = 0
  <2>1. m.level[p] \in 0 .. LEVELS
    BY <1>1, <1>9, MlfqClasses DEF Levels
  <2>2. PICK a, x : a = Allotment(m.level[p]) + TimeSlice(m.level[p]) /\ x = m.queue_time[p]
    OBVIOUS
  <2>3. a \in Nat /\ x \in Nat /\ t[p] \in {x, x + 1}
    BY <1>1, <1>2, <1>9, <2>1, <2>2, Slices
  <2>4. x + m.preempt < a
    BY <1>1, <1>2, <1>9, <2>2 DEF SliceFits
  <2>5. t[p] + (m.preempt - 1) < a /\ t[p] < a
    BY <1>1, <2>3, <2>4
  <2>6. m.prstate[p] = "CURR"
    BY <1>1, <1>2, <1>9 DEF MlfqOnCpu
  <2>7. m.level[p] = LEVELS => t[p] = 0
    BY <1>1, <1>8, <1>9 DEF MlfqLinked, Timed
  <2> QED
    BY <2>2, <2>5, <2>6, <2>7
<1>10. Timed(r)
  <2>1. ASSUME NEW q \in MlfqUsers
        PROVE  /\ t[q] < Allotment(m.level[q]) + TimeSlice(m.level[q])
               /\ m.level[q] = LEVELS => t[q] = 0
               /\ m.prstate[q] = "READY" => t[q] < Allotment(m.level[q])
    <3>1. CASE q = p
      BY <1>9, <3>1
    <3>2. CASE q # p
      BY <1>1, <1>8, <3>2 DEF MlfqLinked, Timed
    <3> QED
      BY <3>1, <3>2
  <2> QED
    BY <1>6, <2>1 DEF Timed
<1>11. MlfqOnCpu(r) = {r.currpid} /\ HighestRuns(r)
  BY <1>1, <1>2, <1>6 DEF MlfqOnCpu, HighestRuns, Outranked
<1> QED
  BY <1>6, <1>7, <1>9, <1>10, <1>11 DEF MlfqLinked

(* The processes due, the first of the delta list, wake one by one.        *)
IsAwake(a, m, due, n) ==
  a = [i \in 0 .. n |-> IF i = 0 THEN m ELSE mlfq_make_ready(a[i-1], due[i])]

AreDue(m, due, n) ==
  /\ due \in Seq(MlfqProcs) /\ n \in Nat /\ Len(due) = n /\ IsInjective(due)
  /\ \A q \in ToSet(due) : m.prstate[q] = "SLEEP" /\ q \notin ToSet(m.sleepq)

LEMMA WakingLinks ==
  ASSUME NEW m, MlfqLinked(m), MlfqOnCpu(m) = {m.currpid}, NEW n, NEW due, AreDue(m, due, n),
         NEW a, IsAwake(a, m, due, n)
  PROVE  MlfqLinked(a[n]) /\ MlfqOnCpu(a[n]) = {a[n].currpid}
<1> DEFINE Good(k) ==
      /\ MlfqLinked(a[k]) /\ MlfqOnCpu(a[k]) = {m.currpid} /\ a[k].currpid = m.currpid
      /\ a[k].sleepq = m.sleepq
      /\ \A i \in 1 .. n : i > k => a[k].prstate[due[i]] = "SLEEP"
<1> USE DEF AreDue
<1>1. ASSUME NEW i \in 0 .. n
      PROVE  a[i] = IF i = 0 THEN m ELSE mlfq_make_ready(a[i-1], due[i])
  BY DEF IsAwake
<1>2. \A i \in 1 .. n : /\ due[i] \in MlfqProcs /\ m.prstate[due[i]] = "SLEEP"
                        /\ due[i] \notin ToSet(m.sleepq)
  <2>1. \A i \in 1 .. n : due[i] \in MlfqProcs /\ due[i] \in ToSet(due)
    BY DEF ToSet
  <2> QED
    BY <2>1
<1>3. PICK Bad : Bad = {k \in 0 .. n : ~Good(k)}
  OBVIOUS
<1>4. Bad = {}
  <2>1. SUFFICES ASSUME Bad # {} PROVE FALSE
    OBVIOUS
  <2>2. PICK k \in Bad : \A j \in Bad : k <= j
    <3>1. Bad \in SUBSET Nat
      BY <1>3
    <3> QED
      BY <2>1, <3>1, LeastOfNaturals
  <2>3. k \in 0 .. n
    BY <1>3, <2>2
  <2>4. CASE k = 0
    <3>1. a[k] = m
      BY <1>1, <2>3, <2>4
    <3>2. Good(k)
      BY <1>2, <3>1
    <3> QED
      BY <1>3, <2>2, <3>2
  <2>5. CASE k # 0
    <3>1. k - 1 \in 0 .. n /\ k - 1 \notin Bad /\ k \in 1 .. n
      <4>1. k - 1 \in 0 .. n /\ k \in 1 .. n
        BY <2>3, <2>5
      <4> QED
        BY <2>2, <2>3, <4>1
    <3>2. Good(k - 1)
      BY <1>3, <3>1
    <3>3. PICK b, c, p : b = a[k-1] /\ c = a[k] /\ p = due[k]
      OBVIOUS
    <3>4. c = mlfq_make_ready(b, p)
      BY <1>1, <2>3, <2>5, <3>3
    <3>5. /\ MlfqLinked(b) /\ MlfqOnCpu(b) = {m.currpid} /\ b.currpid = m.currpid
          /\ b.sleepq = m.sleepq /\ p \in MlfqProcs /\ b.prstate[p] = "SLEEP"
          /\ p \notin ToSet(b.sleepq)
      BY <1>2, <3>1, <3>2, <3>3
    <3>6. /\ MlfqLinked(c) /\ MlfqOnCpu(c) = MlfqOnCpu(b) \ {p}
          /\ \A q \in MlfqProcs : q # p => c.prstate[q] = b.prstate[q]
          /\ c.currpid = b.currpid /\ c.sleepq = b.sleepq
      BY <3>4, <3>5, PutLinks
    <3>7. p # m.currpid
      BY <3>5 DEF MlfqOnCpu
    <3>8. ASSUME NEW i \in 1 .. n, i > k PROVE c.prstate[due[i]] = "SLEEP"
      <4>1. due[i] # p /\ due[i] \in MlfqProcs
        <5>1. i \in DOMAIN due /\ k \in DOMAIN due /\ i # k
          BY <2>3, <3>1, <3>8
        <5>2. due[i] # due[k]
          BY <5>1 DEF IsInjective
        <5> QED
          BY <1>2, <3>3, <5>2
      <4>2. b.prstate[due[i]] = "SLEEP"
        <5>1. i > k - 1
          BY <2>3, <3>8
        <5> QED
          BY <3>2, <3>3, <5>1
      <4> QED
        BY <3>6, <4>1, <4>2
    <3>9. Good(k)
      BY <3>3, <3>5, <3>6, <3>7, <3>8
    <3> QED
      BY <1>3, <2>2, <3>9
  <2> QED
    BY <2>4, <2>5
<1>5. Good(n)
  <2>1. n \in 0 .. n
    OBVIOUS
  <2> QED
    BY <1>3, <1>4, <2>1
<1> QED
  BY <1>5

LEMMA AwakeExists ==
  ASSUME NEW m, NEW due, NEW n \in Nat
  PROVE  \E a : IsAwake(a, m, due, n)
<1> DEFINE Awake(a, k) == IsAwake(a, m, due, k)
<1> USE DEF IsAwake
<1>1. PICK Bad : Bad = {k \in 0 .. n : ~ \E a : Awake(a, k)}
  OBVIOUS
<1>2. SUFFICES ASSUME Bad # {} PROVE FALSE
  <2>1. n \in 0 .. n
    OBVIOUS
  <2> QED
    BY <1>1, <2>1
<1>3. PICK k \in Bad : \A j \in Bad : k <= j
  <2>1. Bad \in SUBSET Nat
    BY <1>1
  <2> QED
    BY <1>2, <2>1, LeastOfNaturals
<1>4. k \in 0 .. n
  BY <1>1, <1>3
<1>5. CASE k = 0
  <2>1. PICK a : a = [i \in 0 .. 0 |-> m]
    OBVIOUS
  <2>2. Awake(a, k)
    BY <1>5, <2>1
  <2> QED
    BY <1>1, <1>3, <2>2
<1>6. CASE k # 0
  <2>1. k - 1 \in 0 .. n /\ k - 1 \notin Bad
    <3>1. k - 1 \in 0 .. n
      BY <1>4, <1>6
    <3> QED
      BY <1>3, <1>4, <3>1
  <2>2. PICK a : Awake(a, k - 1)
    BY <1>1, <2>1
  <2>3. PICK t, d : /\ t = mlfq_make_ready(a[k-1], due[k])
                    /\ d = [i \in 0 .. k |-> IF i = k THEN t ELSE a[i]]
    OBVIOUS
  <2>4. ASSUME NEW i \in 0 .. k
        PROVE  d[i] = IF i = 0 THEN m ELSE mlfq_make_ready(d[i-1], due[i])
    <3>1. CASE i = k
      <4>1. d[i] = t /\ d[i-1] = a[k-1] /\ i # 0
        BY <1>4, <1>6, <2>3, <3>1
      <4> QED
        BY <2>3, <3>1, <4>1
    <3>2. CASE i # k
      <4>1. i \in 0 .. k - 1 /\ d[i] = a[i]
        BY <1>4, <2>3, <3>2
      <4>2. a[i] = IF i = 0 THEN m ELSE mlfq_make_ready(a[i-1], due[i])
        BY <2>2, <4>1
      <4>3. i # 0 => d[i-1] = a[i-1]
        BY <1>4, <2>3, <4>1
      <4> QED
        BY <4>1, <4>2, <4>3
    <3> QED
      BY <3>1, <3>2
  <2>5. Awake(d, k)
    BY <2>3, <2>4
  <2> QED
    BY <1>1, <1>3, <2>5
<1> QED
  BY <1>5, <1>6

(* A list cut in two.                                                      *)
LEMMA SplitLists ==
  ASSUME NEW T, NEW q \in Seq(T), IsInjective(q), NEW n \in 0 .. Len(q)
  PROVE  /\ SubSeq(q, 1, n) \in Seq(T) /\ Len(SubSeq(q, 1, n)) = n
         /\ IsInjective(SubSeq(q, 1, n))
         /\ SubSeq(q, n + 1, Len(q)) \in Seq(T) /\ IsInjective(SubSeq(q, n + 1, Len(q)))
         /\ ToSet(SubSeq(q, 1, n)) \subseteq ToSet(q)
         /\ ToSet(SubSeq(q, n + 1, Len(q))) \subseteq ToSet(q)
         /\ ToSet(SubSeq(q, 1, n)) \cap ToSet(SubSeq(q, n + 1, Len(q))) = {}
<1>a. PICK a, b : a = SubSeq(q, 1, n) /\ b = SubSeq(q, n + 1, Len(q))
  OBVIOUS
<1>1. PICK l : l = Len(q)
  OBVIOUS
<1>2. l \in Nat /\ n \in Nat /\ n <= l /\ DOMAIN q = 1 .. l /\ \A i \in 1 .. l : q[i] \in T
  BY <1>1
<1>3. \A i, j \in 1 .. l : q[i] = q[j] => i = j
  BY <1>2 DEF IsInjective
<1>4. /\ a \in Seq(T) /\ Len(a) = n /\ DOMAIN a = 1 .. n
      /\ \A i \in 1 .. n : a[i] = q[i] /\ i \in 1 .. l
  <2>1. \A i \in 1 .. n : q[i] \in T
    BY <1>2
  <2>2. /\ a \in Seq(T) /\ Len(a) = IF 1 <= n THEN n - 1 + 1 ELSE 0
        /\ \A i \in 1 .. n - 1 + 1 : a[i] = q[1 + i - 1]
    BY <1>a, <1>2, <2>1, SubSeqProperties
  <2>3. Len(a) = n
    BY <1>2, <2>2
  <2> QED
    BY <1>2, <2>2, <2>3
<1>5. /\ b \in Seq(T) /\ DOMAIN b = 1 .. l - n
      /\ \A i \in 1 .. l - n : b[i] = q[n + i] /\ n + i \in 1 .. l
  <2>1. \A i \in n + 1 .. l : q[i] \in T
    BY <1>2
  <2>2. /\ b \in Seq(T) /\ Len(b) = IF n + 1 <= l THEN l - (n + 1) + 1 ELSE 0
        /\ \A i \in 1 .. l - (n + 1) + 1 : b[i] = q[n + 1 + i - 1]
    BY <1>a, <1>1, <1>2, <2>1, SubSeqProperties
  <2>3. Len(b) = l - n
    BY <1>2, <2>2
  <2> QED
    BY <1>2, <2>2, <2>3
<1>6. IsInjective(a)
  BY <1>3, <1>4 DEF IsInjective
<1>7. IsInjective(b)
  <2>1. ASSUME NEW i \in 1 .. l - n, NEW j \in 1 .. l - n, b[i] = b[j] PROVE i = j
    <3>1. n + i = n + j
      BY <1>3, <1>5, <2>1
    <3> QED
      BY <1>2, <3>1
  <2> QED
    BY <1>5, <2>1 DEF IsInjective
<1>8. ToSet(a) = {q[i] : i \in 1 .. n}
  BY <1>4 DEF ToSet
<1>9. ToSet(b) = {q[n + i] : i \in 1 .. l - n}
  BY <1>5 DEF ToSet
<1>10. ToSet(q) = {q[i] : i \in 1 .. l}
  BY <1>2 DEF ToSet
<1>11. ToSet(a) \subseteq ToSet(q) /\ ToSet(b) \subseteq ToSet(q)
  BY <1>4, <1>5, <1>8, <1>9, <1>10
<1>12. ASSUME NEW i \in 1 .. n, NEW j \in 1 .. l - n PROVE q[i] # q[n + j]
  <2>1. i \in 1 .. l /\ n + j \in 1 .. l /\ i # n + j
    BY <1>2
  <2> QED
    BY <1>3, <2>1
<1>13. ToSet(a) \cap ToSet(b) = {}
  BY <1>8, <1>9, <1>12
<1> QED
  BY <1>a, <1>4, <1>5, <1>6, <1>7, <1>11, <1>13

LEMMA WakeupSettles ==
  ASSUME NEW m, MlfqLinked(m), MlfqOnCpu(m) = {m.currpid}, NEW r, r = mlfq_wakeup(m)
  PROVE  MlfqSettled(r)
<1>1. m \in MlfqRecords(m) /\ m.sleepq \in Seq(MlfqProcs) /\ IsInjective(m.sleepq)
      /\ \A p \in ToSet(m.sleepq) : m.prstate[p] = "SLEEP"
  BY LinkedFacts DEF MlfqLinked, SleepersLinked
<1>2. PICK S : S = {i \in DOMAIN m.sleepq : delta_sum(m.sleepq, m.qkey)[i] = 1}
  OBVIOUS
<1>3. PICK n : n = Cardinality(S)
  OBVIOUS
<1>a. PICK q, l : q = m.sleepq /\ l = Len(q)
  OBVIOUS
<1>b. q \in Seq(MlfqProcs) /\ IsInjective(q) /\ l \in Nat
  BY <1>1, <1>a
<1>4. n \in 0 .. Len(q)
  <2>1. S \in SUBSET (1 .. l)
    BY <1>a, <1>b, <1>2
  <2>2. IsFiniteSet(1 .. l) /\ Cardinality(1 .. l) = IF 1 > l THEN 0 ELSE l - 1 + 1
    <3>1. 1 \in Int /\ l \in Int
      BY <1>b
    <3> QED
      BY <3>1, FS_Interval
  <2>3. IsFiniteSet(S) /\ Cardinality(S) <= l
    <3>1. Cardinality(1 .. l) = l
      BY <1>b, <2>2
    <3>2. IsFiniteSet(S) /\ Cardinality(S) <= Cardinality(1 .. l)
      BY <2>1, <2>2, FS_Subset
    <3> QED
      BY <3>1, <3>2
  <2>4. Cardinality(S) \in Nat
    BY <2>3, FS_CardinalityType
  <2> QED
    BY <1>a, <1>b, <1>3, <2>3, <2>4
<1>5. PICK due, rest : due = SubSeq(q, 1, n) /\ rest = SubSeq(q, n + 1, Len(q))
  OBVIOUS
<1>6. /\ due \in Seq(MlfqProcs) /\ Len(due) = n /\ IsInjective(due)
      /\ rest \in Seq(MlfqProcs) /\ IsInjective(rest)
      /\ ToSet(due) \subseteq ToSet(q) /\ ToSet(rest) \subseteq ToSet(q)
      /\ ToSet(due) \cap ToSet(rest) = {}
  BY <1>b, <1>4, <1>5, SplitLists
<1>7. mlfq_due(m) = due
  BY <1>a, <1>2, <1>3, <1>5 DEF mlfq_due
<1>8. PICK c, left : /\ c = m.in_clock \cup {m.currpid}
                     /\ left = [m EXCEPT !.sleepq = rest, !.in_clock = c]
  OBVIOUS
<1>9. /\ left \in MlfqRecords(left) /\ left.prstate = m.prstate /\ left.level = m.level
      /\ left.queue_time = m.queue_time /\ left.queue = m.queue /\ left.sleepq = rest
      /\ left.currpid = m.currpid
  BY <1>1, <1>6, <1>8 DEF MlfqRecords
<1>10. MlfqLinked(left) /\ MlfqOnCpu(left) = {left.currpid}
  BY <1>a, <1>6, <1>9, LinkedAlike
<1>11. n \in Nat
  BY <1>4
<1>12. PICK x : x = [m EXCEPT !.sleepq = SubSeq(@, Len(mlfq_due(m)) + 1, Len(@)),
                              !.in_clock = @ \cup {m.currpid}]
  OBVIOUS
<1>13. x = left
  BY <1>1, <1>a, <1>5, <1>6, <1>7, <1>8, <1>12 DEF MlfqRecords
<1>14. PICK a : a = CHOOSE f : f = [i \in 0 .. Len(mlfq_due(m)) |->
                                     IF i = 0 THEN x
                                     ELSE mlfq_make_ready(f[i-1], mlfq_due(m)[i])]
  OBVIOUS
<1>15. r = mlfq_resched(a[Len(mlfq_due(m))])
  BY <1>12, <1>14 DEF mlfq_wakeup
<1>16. IsAwake(a, x, mlfq_due(m), Len(mlfq_due(m)))
  <2>1. Len(mlfq_due(m)) \in Nat
    BY <1>6, <1>7, <1>11
  <2>2. \E f : IsAwake(f, x, mlfq_due(m), Len(mlfq_due(m)))
    BY <2>1, AwakeExists
  <2> QED
    BY <1>14, <2>2 DEF IsAwake
<1>17. IsAwake(a, left, due, n)
  BY <1>6, <1>7, <1>13, <1>16
<1>18. MlfqLinked(a[n]) /\ MlfqOnCpu(a[n]) = {a[n].currpid}
  <2>1. \A p \in ToSet(due) : left.prstate[p] = "SLEEP" /\ p \notin ToSet(left.sleepq)
    BY <1>1, <1>a, <1>6, <1>9
  <2>2. AreDue(left, due, n)
    BY <1>6, <1>11, <2>1 DEF AreDue
  <2> QED
    BY <1>10, <1>17, <2>2, WakingLinks
<1>19. r = mlfq_resched(a[n])
  BY <1>6, <1>7, <1>15
<1> QED
  BY <1>18, <1>19, ReschedSettles

LEMMA EndOfTickSettles ==
  ASSUME NEW m, MlfqLinked(m), MlfqOnCpu(m) = {m.currpid}, HighestRuns(m),
         m.currpid \in MlfqUsers =>
           m.queue_time[m.currpid] + (m.preempt - 1) <
             Allotment(m.level[m.currpid]) + TimeSlice(m.level[m.currpid]),
         NEW r, r = mlfq_end_of_tick(m)
  PROVE  MlfqSettled(r)
<1>1. m \in MlfqRecords(m) /\ m.preempt \in Nat \ {0} /\ IsInjective(m.sleepq)
  BY LinkedFacts DEF MlfqLinked, SleepersLinked
<1>2. CASE m.preempt = 1
  <2>1. PICK t : t = [m EXCEPT !.preempt = MLFQ_QUANTUM]
    OBVIOUS
  <2>2. /\ t \in MlfqRecords(t) /\ t.prstate = m.prstate /\ t.level = m.level
        /\ t.queue_time = m.queue_time /\ t.queue = m.queue /\ t.sleepq = m.sleepq
        /\ t.currpid = m.currpid
    BY <1>1, <2>1, MlfqClasses DEF MlfqRecords
  <2>3. MlfqLinked(t) /\ MlfqOnCpu(t) \subseteq {t.currpid}
    BY <1>1, <2>2, LinkedAlike
  <2>4. r = mlfq_resched(t)
    BY <1>2, <2>1 DEF mlfq_end_of_tick
  <2> QED
    BY <2>3, <2>4, ReschedSettles
<1>3. CASE m.preempt # 1
  <2>1. PICK n : n = m.preempt - 1 /\ n \in Nat \ {0}
    BY <1>1, <1>3
  <2>2. r = [m EXCEPT !.preempt = n]
    BY <1>1, <1>3, <2>1 DEF mlfq_end_of_tick, MlfqRecords
  <2>3. /\ r \in MlfqRecords(r) /\ r.prstate = m.prstate /\ r.level = m.level
        /\ r.queue_time = m.queue_time /\ r.queue = m.queue /\ r.sleepq = m.sleepq
        /\ r.currpid = m.currpid /\ r.preempt = m.preempt - 1
    BY <1>1, <2>1, <2>2 DEF MlfqRecords
  <2>4. MlfqLinked(r) /\ MlfqOnCpu(r) = {r.currpid}
    BY <1>1, <2>3, LinkedAlike
  <2>5. SliceFits(r) /\ HighestRuns(r)
    BY <2>3 DEF SliceFits, HighestRuns, Outranked
  <2> QED
    BY <2>4, <2>5 DEF MlfqSettled
<1> QED
  BY <1>2, <1>3

-----------------------------------------------------------------------------
LEMMA MlfqInitSettles == MlfqInit => MlfqSettled(mlfq)
<1>1. SUFFICES ASSUME MlfqInit PROVE MlfqSettled(mlfq)
  OBVIOUS
<1>2. PICK p, s, q, k, v, t :
        /\ p \in DOMAIN SysPrio /\ s = start_state(MlfqUsers, p)
        /\ q = [l \in 0 .. LEVELS |-> IF l = 0 THEN <<Null>> ELSE << >>]
        /\ k = [x \in MlfqProcs |-> 0]
        /\ v = [x \in MlfqUsers |-> 1] /\ t = [x \in MlfqUsers |-> 0]
        /\ mlfq = [prstate |-> s, level |-> v, queue_time |-> t, queue |-> q,
                   sleepq |-> << >>, qkey |-> k, currpid |-> p, preempt |-> MLFQ_QUANTUM,
                   boost_timer |-> PRIORITY_BOOST_PERIOD, boost_flag |-> FALSE,
                   in_clock |-> {}]
  BY <1>1 DEF MlfqInit
<1>3. PICK m : m = mlfq
  OBVIOUS
<1>4. p \in System /\ p # Null /\ p \in MlfqProcs /\ Null \in MlfqProcs
  BY <1>2, ClassesAssumption DEF System, Null, MlfqProcs
<1>5. /\ s \in [MlfqProcs -> {"CURR", "READY", "SUSP", "SLEEP"}]
      /\ \A x \in MlfqProcs : /\ s[x] = "CURR" <=> x = p
                              /\ s[x] = "READY" <=> x = Null
  BY <1>2, <1>4 DEF start_state, MlfqProcs
<1>6. /\ q[0] = <<Null>> /\ \A l \in 0 .. LEVELS : l # 0 => q[l] = << >>
      /\ q \in [0 .. LEVELS -> Seq(MlfqProcs)]
  <2>1. 0 \in 0 .. LEVELS
    BY MlfqClasses
  <2>2. <<Null>> \in Seq(MlfqProcs)
    BY <1>4
  <2>3. << >> \in Seq(MlfqProcs)
    OBVIOUS
  <2> QED
    BY <1>2, <2>1, <2>2, <2>3
<1>7. v \in [MlfqUsers -> Levels] /\ t \in [MlfqUsers -> Nat]
  <2>1. 1 \in Levels
    BY MlfqClasses DEF Levels
  <2> QED
    BY <1>2, <2>1
<1>8. /\ m \in MlfqRecords(m) /\ m.prstate = s /\ m.level = v /\ m.queue_time = t
      /\ m.queue = q /\ m.sleepq = << >> /\ m.currpid = p
  <2>1. << >> \in Seq(MlfqProcs)
    OBVIOUS
  <2> QED
    BY <1>2, <1>3, <1>4, <1>5, <1>6, <1>7, <2>1, MlfqClasses DEF MlfqRecords
<1>9. /\ ToSet(<< >>) = {} /\ IsInjective(<< >>)
      /\ ToSet(<<Null>>) = {Null} /\ IsInjective(<<Null>>)
  BY DEF ToSet, IsInjective
<1>10. QueuesLinked(m)
  <2>1. <<Null>> \in Seq(System) /\ ByPriority(<<Null>>)
    <3>1. <<Null>> \in Seq(System)
      BY MlfqClasses
    <3>2. ByPriority(<<Null>>)
      BY DEF ByPriority, Descending
    <3> QED
      BY <3>1, <3>2
  <2>2. \A l \in 0 .. LEVELS : IsInjective(q[l])
    BY <1>6, <1>9
  <2>3. ASSUME NEW x \in MlfqProcs, NEW l \in 0 .. LEVELS
        PROVE  x \in ToSet(q[l]) <=> s[x] = "READY" /\ l = HomeQueue(m, x)
    <3>1. HomeQueue(m, Null) = 0
      BY MlfqClasses DEF HomeQueue
    <3>2. x \in ToSet(q[l]) <=> x = Null /\ l = 0
      BY <1>6, <1>9
    <3> QED
      BY <1>5, <3>1, <3>2
  <2>4. s[Null] = "READY"
    BY <1>4, <1>5
  <2> QED
    BY <1>6, <1>8, <2>1, <2>2, <2>3, <2>4 DEF QueuesLinked
<1>11. SleepersLinked(m)
  BY <1>8, <1>9 DEF SleepersLinked
<1>12. Timed(m)
  <2>1. Allotment(1) \in Nat \ {0} /\ TimeSlice(1) \in Nat \ {0}
    <3>1. 1 \in 0 .. LEVELS
      BY MlfqClasses
    <3> QED
      BY <3>1, Slices
  <2>2. \A x \in MlfqUsers : v[x] = 1 /\ t[x] = 0
    BY <1>2
  <2> QED
    BY <1>8, <2>1, <2>2 DEF Timed
<1>13. MlfqOnCpu(m) = {p}
  BY <1>4, <1>5, <1>8 DEF MlfqOnCpu
<1>14. SliceFits(m) /\ HighestRuns(m)
  BY <1>4, <1>5, <1>8, MlfqClasses DEF SliceFits, HighestRuns, Outranked
<1> QED
  BY <1>3, <1>8, <1>10, <1>11, <1>12, <1>13, <1>14 DEF MlfqSettled, MlfqLinked

(* The inductive invariant.                                                *)
MlfqIInv == MlfqSettled(mlfq)

LEMMA MlfqStepSettles ==
  MlfqSettled(mlfq) /\ [MlfqNext]_mlfq => MlfqSettled(mlfq')
<1>1. SUFFICES ASSUME MlfqSettled(mlfq), [MlfqNext]_mlfq PROVE MlfqSettled(mlfq')
  OBVIOUS
<1>2. PICK m, r : m = mlfq /\ r = mlfq'
  OBVIOUS
<1>3. /\ MlfqSettled(m) /\ MlfqLinked(m) /\ MlfqOnCpu(m) = {m.currpid}
      /\ m \in MlfqRecords(m) /\ m.sleepq \in Seq(MlfqProcs) /\ m.currpid \in MlfqProcs
      /\ IsInjective(m.sleepq) /\ m.preempt \in Nat \ {0}
      /\ m.queue_time \in [MlfqUsers -> Nat]
      /\ m.currpid \notin ToSet(m.sleepq)
  <2>1. MlfqSettled(m) /\ MlfqLinked(m) /\ MlfqOnCpu(m) = {m.currpid}
    BY <1>1, <1>2 DEF MlfqSettled
  <2>2. IsInjective(m.sleepq) /\ m.currpid \notin ToSet(m.sleepq)
    BY <2>1 DEF MlfqLinked, SleepersLinked, MlfqOnCpu
  <2> QED
    BY <2>1, <2>2, LinkedFacts
<1>4. ASSUME NEW p \in MlfqProcs, mlfq_resume(p) PROVE MlfqSettled(r)
  BY <1>2, <1>3, <1>4, ResumeSettles DEF mlfq_resume
<1>5. ASSUME NEW p \in MlfqProcs, mlfq_suspend(p) PROVE MlfqSettled(r)
  <2>1. r = [m EXCEPT !.prstate[p] = "SUSP",
                      !.queue[IF p \in System THEN 0 ELSE m.level[p]] = getitem(@, p)]
    BY <1>2, <1>5 DEF mlfq_suspend
  <2>2. m.prstate[p] = "READY" /\ p # Null
    BY <1>2, <1>5 DEF mlfq_suspend
  <2> QED
    BY <1>3, <2>1, <2>2, SuspendSettles
<1>6. CASE mlfq_suspend_self
  <2>1. m.currpid # Null /\ r = mlfq_block(m, "SUSP")
    BY <1>2, <1>6 DEF mlfq_suspend_self, mlfq_InCall, mlfq_Running
  <2> QED
    BY <1>2, <1>3, <2>1, BlockSettles
<1>7. CASE mlfq_yield
  <2>1. r = mlfq_resched(m)
    BY <1>2, <1>7 DEF mlfq_yield
  <2> QED
    BY <1>2, <1>3, <2>1, ReschedSettles
<1>8. ASSUME NEW d \in SleepTimes, mlfq_sleepms(d) PROVE MlfqSettled(r)
  <2>1. PICK p, w, k, n : /\ p = m.currpid /\ w = insertd(m.sleepq, m.qkey, p, d)
                          /\ k = insertd_key(m.sleepq, m.qkey, p, d)
                          /\ n = [m EXCEPT !.sleepq = w, !.qkey = k]
    OBVIOUS
  <2>2. PICK q : q = m.sleepq
    OBVIOUS
  <2>3. w \in Seq(MlfqProcs) /\ IsInjective(w) /\ ToSet(w) = ToSet(q) \cup {p}
    <3>1. PICK i : i = insertd_place(q, m.qkey, d)
      OBVIOUS
    <3>2. i \in 1 .. Len(q) + 1
      BY <1>3, <2>2, <3>1, DelayPlaceInQueue
    <3>3. w = InsertAt(q, i, p)
      BY <2>1, <2>2, <3>1 DEF insertd
    <3> QED
      BY <1>3, <2>1, <2>2, <3>2, <3>3, InsertAtJoins
  <2>4. /\ n \in MlfqRecords(n) /\ n.prstate = m.prstate /\ n.level = m.level
        /\ n.queue_time = m.queue_time /\ n.queue = m.queue /\ n.currpid = m.currpid
        /\ n.sleepq = w
    BY <1>3, <2>1, <2>3 DEF MlfqRecords
  <2>5. m.currpid # Null /\ r = mlfq_block(n, "SLEEP")
    <3>1. m.currpid # Null
      BY <1>2, <1>8 DEF mlfq_sleepms, mlfq_InCall, mlfq_Running
    <3>2. r = mlfq_block([m EXCEPT !.sleepq = insertd(@, m.qkey, m.currpid, d),
                                   !.qkey   = insertd_key(m.sleepq, @, m.currpid, d)], "SLEEP")
      BY <1>2, <1>8 DEF mlfq_sleepms, mlfq_Running
    <3>3. n = [m EXCEPT !.sleepq = insertd(@, m.qkey, m.currpid, d),
                        !.qkey   = insertd_key(m.sleepq, @, m.currpid, d)]
      BY <1>3, <2>1 DEF MlfqRecords
    <3> QED
      BY <3>1, <3>2, <3>3
  <2>6. ToSet(n.sleepq) \subseteq
          ToSet(m.sleepq) \cup (IF "SLEEP" = "SLEEP" THEN {m.currpid} ELSE {})
    BY <2>1, <2>2, <2>3, <2>4
  <2>7. IsInjective(n.sleepq)
    BY <2>3, <2>4
  <2> QED
    BY <1>3, <2>4, <2>5, <2>6, <2>7, BlockSettles
<1>9. CASE mlfq_clock
  <2>1. PICK c : c = mlfq_charge(m)
    OBVIOUS
  <2>2. /\ MlfqLinked(c) /\ MlfqOnCpu(c) = {c.currpid} /\ HighestRuns(c)
        /\ c.currpid \in MlfqUsers =>
             c.queue_time[c.currpid] + (c.preempt - 1) <
               Allotment(c.level[c.currpid]) + TimeSlice(c.level[c.currpid])
    BY <1>3, <2>1, ChargeLinks
  <2>3. r = IF mlfq_due(c) # << >> THEN mlfq_wakeup(c)
                                   ELSE mlfq_end_of_tick(mlfq_tick_sleepq(c))
    BY <1>2, <1>9, <2>1 DEF mlfq_clock
  <2>4. CASE mlfq_due(c) # << >>
    BY <1>2, <2>2, <2>3, <2>4, WakeupSettles
  <2>5. CASE mlfq_due(c) = << >>
    <3>1. PICK t : t = mlfq_tick_sleepq(c)
      OBVIOUS
    <3>2. c \in MlfqRecords(c) /\ IsInjective(c.sleepq)
      BY <2>2, LinkedFacts DEF MlfqLinked, SleepersLinked
    <3>3. /\ t \in MlfqRecords(t) /\ t.prstate = c.prstate /\ t.level = c.level
          /\ t.queue_time = c.queue_time /\ t.queue = c.queue /\ t.sleepq = c.sleepq
          /\ t.currpid = c.currpid /\ t.preempt = c.preempt
      <4>1. CASE c.sleepq = << >>
        <5>1. t = c
          BY <3>1, <4>1 DEF mlfq_tick_sleepq
        <5> QED
          BY <3>2, <5>1
      <4>2. CASE c.sleepq # << >>
        <5>1. PICK k : k = [c.qkey EXCEPT ![Head(c.sleepq)] = @ - 1]
          OBVIOUS
        <5>2. t = [c EXCEPT !.qkey = k]
          BY <3>1, <3>2, <4>2, <5>1 DEF mlfq_tick_sleepq, MlfqRecords
        <5> QED
          BY <3>2, <5>2 DEF MlfqRecords
      <4> QED
        BY <4>1, <4>2
    <3>4. MlfqLinked(t) /\ MlfqOnCpu(t) = {t.currpid}
      BY <2>2, <3>2, <3>3, LinkedAlike
    <3>5. HighestRuns(t)
      BY <2>2, <3>3 DEF HighestRuns, Outranked
    <3>6. t.currpid \in MlfqUsers =>
            t.queue_time[t.currpid] + (t.preempt - 1) <
              Allotment(t.level[t.currpid]) + TimeSlice(t.level[t.currpid])
      BY <2>2, <3>3
    <3>7. r = mlfq_end_of_tick(t)
      BY <2>3, <2>5, <3>1
    <3> QED
      BY <1>2, <3>4, <3>5, <3>6, <3>7, EndOfTickSettles
  <2> QED
    BY <1>2, <2>4, <2>5
<1>10. CASE mlfq_clock_after_wakeup
  <2>1. PICK c, t : /\ c = m.in_clock \ {m.currpid} /\ t = [m EXCEPT !.in_clock = c]
                    /\ r = mlfq_end_of_tick(t)
    <3>1. r = mlfq_end_of_tick([m EXCEPT !.in_clock = @ \ {m.currpid}])
      BY <1>2, <1>10 DEF mlfq_clock_after_wakeup, mlfq_Running
    <3> QED
      BY <1>3, <3>1 DEF MlfqRecords
  <2>2. /\ t \in MlfqRecords(t) /\ t.prstate = m.prstate /\ t.level = m.level
        /\ t.queue_time = m.queue_time /\ t.queue = m.queue /\ t.sleepq = m.sleepq
        /\ t.currpid = m.currpid /\ t.preempt = m.preempt
    BY <1>3, <2>1 DEF MlfqRecords
  <2>3. MlfqLinked(t) /\ MlfqOnCpu(t) = {t.currpid}
    BY <1>3, <2>2, LinkedAlike
  <2>4. HighestRuns(t)
    BY <1>3, <2>2 DEF MlfqSettled, HighestRuns, Outranked
  <2>5. ASSUME m.currpid \in MlfqUsers
        PROVE  m.queue_time[m.currpid] + (m.preempt - 1) <
                 Allotment(m.level[m.currpid]) + TimeSlice(m.level[m.currpid])
    <3>1. PICK l, a : l = m.level[m.currpid] /\ a = Allotment(l) + TimeSlice(l)
      OBVIOUS
    <3>2. l \in 0 .. LEVELS
      <4>1. m.level \in [MlfqUsers -> Levels]
        BY <1>3, LinkedFacts
      <4>2. l \in 1 .. LEVELS
        BY <2>5, <3>1, <4>1 DEF Levels
      <4> QED
        BY <4>2, MlfqClasses
    <3>3. a \in Nat
      BY <3>1, <3>2, Slices
    <3>4. m.queue_time[m.currpid] + m.preempt < a
      BY <1>3, <2>5, <3>1 DEF MlfqSettled, SliceFits
    <3>5. m.queue_time[m.currpid] \in Nat
      BY <1>3, <2>5
    <3> QED
      BY <1>3, <3>1, <3>3, <3>4, <3>5
  <2> QED
    BY <1>2, <2>1, <2>2, <2>3, <2>4, <2>5, EndOfTickSettles
<1>11. CASE UNCHANGED mlfq
  BY <1>2, <1>3, <1>11
<1> QED
  BY <1>1, <1>2, <1>4, <1>5, <1>6, <1>7, <1>8, <1>9, <1>10, <1>11 DEF MlfqNext

LEMMA SpecMlfqIInv == MlfqSpec => []MlfqIInv
<1>1. MlfqInit => MlfqIInv
  BY MlfqInitSettles DEF MlfqIInv
<1>2. MlfqIInv /\ [MlfqNext]_mlfq => MlfqIInv'
  BY MlfqStepSettles DEF MlfqIInv
<1> QED
  BY <1>1, <1>2, PTL DEF MlfqSpec

(* Every process is on the one queue its state and level name, whatever    *)
(* the levels, the allotments and the boost period: resched.c, ready.c.    *)
THEOREM SpecLevelsMatchQueues == MlfqSpec => []LevelsMatchQueues
<1>1. MlfqIInv => LevelsMatchQueues
  BY DEF MlfqIInv, MlfqSettled, MlfqLinked, MlfqOnCpu, QueuesLinked, HomeQueue, LevelsMatchQueues,
         mlfq_Running
<1> QED
  BY <1>1, SpecMlfqIInv, PTL

(* resched never leaves a process waiting that it ranks above the one it   *)
(* runs, also across boosts, wakeups and demotions.                        *)
THEOREM SpecHighestLevelRuns == MlfqSpec => []HighestLevelRuns
<1>1. MlfqIInv => HighestLevelRuns
  BY DEF MlfqIInv, MlfqSettled, HighestRuns, Outranked, HighestLevelRuns, mlfq_Running
<1> QED
  BY <1>1, SpecMlfqIInv, PTL

(* No process gets more of a level than its allotment and one slice,       *)
(* however it gives up the CPU: clkhandler.c, resched.c.                   *)
THEOREM SpecNoOverstay == MlfqSpec => []NoOverstay
<1>1. MlfqIInv => NoOverstay
  BY DEF MlfqIInv, MlfqSettled, MlfqLinked, Timed, NoOverstay
<1> QED
  BY <1>1, SpecMlfqIInv, PTL

-----------------------------------------------------------------------------
(***************************************************************************)
(* The ready list in the order of priorities, and of arrival among equals. *)
(* No process is made with a priority below main's, INITPRIO: only the     *)
(* null process has a lower one.                                           *)
(***************************************************************************)
RunStates == {"FREE", "CURR", "READY", "RECV", "SUSP"}

Precedes(L, a, b) == \E i, j \in 1 .. Len(L) : i < j /\ L[i] = a /\ L[j] = b

InTurn(S) ==
  /\ \A p \in ToSet(S.readylist) : S.qkey[p] = S.prprio[p]
  /\ Descending(S.readylist, S.prprio)

HighestFirst(S) == \A p \in ToSet(S.readylist) : S.prprio[p] <= S.prprio[S.currpid]

MainLowest(S) ==
  /\ \A p \in Pids : S.prstate[p] # "FREE" =>
       IF p = NULLPROC THEN S.prprio[p] = 0 ELSE S.prprio[p] >= INITPRIO
  /\ S.prprio[Root] = INITPRIO

InLine(S) ==
  /\ SchedOK(S) /\ Running(S) /\ S.ndefers = 0
  /\ \A p \in Pids : S.prstate[p] \in RunStates
  /\ MainLowest(S) /\ InTurn(S)

Fifo(S) == InLine(S) /\ HighestFirst(S)

(* p is ready, and of main's priority nobody runs between main and p.      *)
InGap(S, p) ==
  /\ p \in ToSet(S.readylist) /\ S.prstate[Root] \in Eligible
  /\ \A q \in Pids : Precedes(S.readylist, q, p) /\ S.prprio[q] = INITPRIO =>
       S.currpid # Root /\ ~Precedes(S.readylist, Root, q)

(* Who comes right after main does so till it runs.                        *)
GapsPass(S, T) == \A p \in Pids \ {NULLPROC} : InGap(S, p) => InGap(T, p) \/ T.currpid = p
GapsStay(S, T) == \A p \in Pids \ {NULLPROC} : InGap(S, p) => InGap(T, p)

-----------------------------------------------------------------------------
(* Who precedes whom, when the queue changes.                              *)
LEMMA InsertPrecedes ==
  ASSUME NEW T, NEW f \in [T -> Nat], NEW L \in Seq(T), Descending(L, f),
         NEW key, \A p \in ToSet(L) : key[p] = f[p],
         NEW x \in T, x \notin ToSet(L), NEW M, M = insert(L, key, x, f[x])
  PROVE  /\ \A a, b \in T : a # x /\ b # x /\ Precedes(M, a, b) => Precedes(L, a, b)
         /\ \A b \in T : Precedes(M, x, b) => f[b] < f[x]
<1>1. PICK n, k : n = Len(L) /\ k = insert_place(L, key, f[x])
  OBVIOUS
<1>2. n \in Nat /\ k \in 1 .. n + 1
  BY <1>1, PlaceInQueue
<1>3. /\ Len(M) = n + 1
      /\ \A j \in 1 .. n + 1 : M[j] = IF j < k THEN L[j] ELSE IF j = k THEN x ELSE L[j-1]
  <2>1. M = InsertAt(L, k, x)
    BY <1>1 DEF insert
  <2>2. k \in 1 .. Len(L) + 1
    BY <1>1, <1>2
  <2>3. LET r == InsertAt(L, k, x) IN
        /\ r \in Seq(T) /\ Len(r) = Len(L) + 1 /\ DOMAIN r = 1 .. Len(L) + 1
        /\ \A j \in 1 .. Len(L) + 1 :
             r[j] = IF j < k THEN L[j] ELSE IF j = k THEN x ELSE L[j-1]
    BY <2>2, InsertAtPlaces
  <2> QED
    BY <1>1, <2>1, <2>3
<1>4. \A j \in 1 .. n : L[j] \in T /\ L[j] # x /\ key[L[j]] = f[L[j]]
  BY <1>1 DEF ToSet
<1>5. ASSUME NEW a \in T, NEW b \in T, a # x, b # x, Precedes(M, a, b)
      PROVE  Precedes(L, a, b)
  <2>1. PICK i, j \in 1 .. n + 1 : i < j /\ M[i] = a /\ M[j] = b
    BY <1>3, <1>5 DEF Precedes
  <2>2. PICK h, l : h = (IF i < k THEN i ELSE i - 1) /\ l = (IF j < k THEN j ELSE j - 1)
    OBVIOUS
  <2>3. i # k /\ j # k
    BY <1>2, <1>3, <1>5, <2>1
  <2>4. h \in 1 .. n /\ l \in 1 .. n /\ h < l
    BY <1>2, <2>1, <2>2, <2>3
  <2>5. L[h] = a /\ L[l] = b
    BY <1>3, <2>1, <2>2, <2>3
  <2> QED
    BY <1>1, <2>4, <2>5 DEF Precedes
<1>6. \E i \in 1 .. n + 1 : i = k /\ (i = n + 1 \/ key[L[i]] < f[x])
  <2> DEFINE I == {i \in 1 .. Len(L) : key[L[i]] < f[x]} \cup {Len(L) + 1}
  <2>1. I \in SUBSET Nat /\ I # {}
    OBVIOUS
  <2>2. k = Min(I)
    BY <1>1 DEF insert_place
  <2> HIDE DEF I
  <2>3. k \in I
    BY <2>1, <2>2, MinOfNaturals
  <2> QED
    BY <1>1, <1>2, <2>3 DEF I
<1>7. ASSUME NEW b \in T, Precedes(M, x, b)
      PROVE  f[b] < f[x]
  <2>1. PICK i, j \in 1 .. n + 1 : i < j /\ M[i] = x /\ M[j] = b
    BY <1>3, <1>7 DEF Precedes
  <2>2. i = k
    <3>1. i < k => i \in 1 .. n /\ M[i] = L[i]
      BY <1>2, <1>3, <2>1
    <3>2. i > k => i - 1 \in 1 .. n /\ M[i] = L[i - 1]
      BY <1>2, <1>3, <2>1
    <3> QED
      BY <1>2, <1>4, <2>1, <3>1, <3>2
  <2>3. k \in 1 .. n /\ j - 1 \in 1 .. n /\ k <= j - 1 /\ b = L[j - 1]
    BY <1>2, <1>3, <2>1, <2>2
  <2>4. f[L[k]] < f[x]
    BY <1>2, <1>4, <1>6, <2>3
  <2>5. f[b] <= f[L[k]]
    <3>1. CASE k = j - 1
      BY <1>4, <2>3, <3>1
    <3>2. CASE k # j - 1
      BY <1>1, <2>3, <3>2 DEF Descending
    <3> QED
      BY <3>1, <3>2
  <2>6. f[L[k]] \in Nat /\ f[b] \in Nat /\ f[x] \in Nat
    BY <1>4, <2>3
  <2> QED
    BY <2>4, <2>5, <2>6
<1> QED
  BY <1>5, <1>7

LEMMA TailPrecedes ==
  ASSUME NEW T, NEW L \in Seq(T), L # << >>, NEW M, M = Tail(L)
  PROVE  /\ \A a, b : Precedes(M, a, b) => Precedes(L, a, b)
         /\ \A b \in ToSet(M) : Precedes(L, Head(L), b)
<1>1. PICK n : n = Len(L) /\ n \in Nat \ {0} /\ Head(L) = L[1]
  OBVIOUS
<1>2. Len(M) = n - 1 /\ \A j \in 1 .. n - 1 : M[j] = L[j + 1]
  BY <1>1, HeadTailProperties
<1>3. ASSUME NEW a, NEW b, Precedes(M, a, b)
      PROVE  Precedes(L, a, b)
  <2>1. PICK i, j \in 1 .. n - 1 : i < j /\ M[i] = a /\ M[j] = b
    BY <1>2, <1>3 DEF Precedes
  <2>2. i + 1 \in 1 .. n /\ j + 1 \in 1 .. n /\ i + 1 < j + 1 /\ L[i + 1] = a /\ L[j + 1] = b
    BY <1>1, <1>2, <2>1
  <2> QED
    BY <1>1, <2>2 DEF Precedes
<1>4. ASSUME NEW b \in ToSet(M)
      PROVE  Precedes(L, Head(L), b)
  <2>1. PICK j \in 1 .. n - 1 : M[j] = b
    BY <1>2 DEF ToSet
  <2>2. 1 \in 1 .. n /\ j + 1 \in 1 .. n /\ 1 < j + 1 /\ L[j + 1] = b
    BY <1>1, <1>2, <2>1
  <2> QED
    BY <1>1, <2>2 DEF Precedes
<1> QED
  BY <1>3, <1>4

LEMMA GetitemPrecedes ==
  ASSUME NEW T, NEW L \in Seq(T), NEW x \in ToSet(L), NEW M, M = getitem(L, x),
         NEW a, NEW b, Precedes(M, a, b)
  PROVE  Precedes(L, a, b)
<1>1. PICK n : n = Len(L) /\ n \in Nat
  OBVIOUS
<1>2. PICK k \in 1 .. n : /\ Len(M) = n - 1
                          /\ \A j \in 1 .. n - 1 : M[j] = IF j < k THEN L[j] ELSE L[j + 1]
  <2>1. LET r == getitem(L, x) IN
        \E i \in 1 .. Len(L) :
          /\ L[i] = x /\ r \in Seq(T) /\ Len(r) = Len(L) - 1
          /\ DOMAIN r = 1 .. Len(L) - 1
          /\ \A j \in 1 .. Len(L) - 1 : r[j] = IF j < i THEN L[j] ELSE L[j+1]
    BY GetitemPlaces
  <2> QED
    BY <1>1, <2>1
<1>3. PICK i, j \in 1 .. n - 1 : i < j /\ M[i] = a /\ M[j] = b
  BY <1>2 DEF Precedes
<1>4. PICK h, l : h = (IF i < k THEN i ELSE i + 1) /\ l = (IF j < k THEN j ELSE j + 1)
  OBVIOUS
<1>5. h \in 1 .. n /\ l \in 1 .. n /\ h < l
  BY <1>1, <1>2, <1>3, <1>4
<1>6. L[h] = a /\ L[l] = b
  BY <1>2, <1>3, <1>4
<1> QED
  BY <1>1, <1>5, <1>6 DEF Precedes

(* In descending order who precedes ranks at least as high.                *)
LEMMA PrecedesDescends ==
  ASSUME NEW L, NEW f, Descending(L, f), NEW a, NEW b, Precedes(L, a, b)
  PROVE  f[b] <= f[a]
BY DEF Precedes, Descending

-----------------------------------------------------------------------------
(* The fields of a record in line.                                         *)
LEMMA FifoFields ==
  ASSUME NEW S, InLine(S)
  PROVE  /\ S.prstate \in [Pids -> PrStates] /\ S.readylist \in Seq(Pids) /\ S.currpid \in Pids
         /\ S.prprio \in [Pids -> Nat] /\ S.prstate[S.currpid] = "CURR"
         /\ ToSet(S.readylist) \subseteq Pids /\ Coherent(S) /\ IsSched(S)
         /\ \A p \in Pids : S.prstate[p] = "READY" <=> p \in ToSet(S.readylist)
<1>1. Coherent(S) /\ IsSched(S) /\ Running(S)
  BY DEF InLine, SchedOK, Coherent
<1>2. /\ S.prstate \in [Pids -> PrStates] /\ S.readylist \in Seq(Pids) /\ S.currpid \in Pids
      /\ S.prprio \in [Pids -> Nat]
  BY <1>1, SchedFields
<1>3. \A L \in Seq(Pids) : ToSet(L) \subseteq Pids
  BY DEF ToSet
<1> QED
  BY <1>1, <1>2, <1>3 DEF Coherent, Running

(* The fields of make_ready.                                               *)
LEMMA ReadyFields ==
  ASSUME NEW S, IsSched(S), NEW p
  PROVE  /\ make_ready(S, p).readylist = insert(S.readylist, S.qkey, p, S.prprio[p])
         /\ make_ready(S, p).qkey = [S.qkey EXCEPT ![p] = S.prprio[p]]
         /\ make_ready(S, p).prprio = S.prprio
BY DEF make_ready, IsSched, SchedRecords

(* A process that gets on the ready list leaves the order of the others,   *)
(* and all that it precedes are lower.                                     *)
LEMMA GetsInLine ==
  ASSUME NEW S, Coherent(S), InTurn(S), NEW p \in Pids, S.prstate[p] # "READY",
         NEW T, T = make_ready(S, p)
  PROVE  /\ InTurn(T) /\ T.prprio = S.prprio /\ T.currpid = S.currpid
         /\ ToSet(T.readylist) = ToSet(S.readylist) \cup {p}
         /\ \A a, b \in Pids :
              a # p /\ b # p /\ Precedes(T.readylist, a, b) => Precedes(S.readylist, a, b)
         /\ \A b \in Pids : Precedes(T.readylist, p, b) => S.prprio[b] < S.prprio[p]
<1>1. PICK L, f, M : L = S.readylist /\ f = S.prprio /\ M = T.readylist
  OBVIOUS
<1>2. IsSched(S) /\ L \in Seq(Pids) /\ f \in [Pids -> Nat] /\ IsInjective(L) /\ p \notin ToSet(L)
  BY <1>1, SchedFields DEF Coherent
<1>3. M = insert(L, S.qkey, p, f[p]) /\ T.qkey = [S.qkey EXCEPT ![p] = f[p]] /\ T.prprio = f
  BY <1>1, <1>2, ReadyFields
<1>4. T.currpid = S.currpid
  BY MakeReadyJoins
<1>5. /\ Descending(L, f) /\ \A q \in ToSet(L) : S.qkey[q] = f[q]
  BY <1>1 DEF InTurn
<1>6. Descending(M, f)
  <2>1. \A i \in 1 .. Len(L) : S.qkey[L[i]] = f[L[i]]
    BY <1>5 DEF ToSet
  <2> QED
    BY <1>2, <1>3, <1>5, <2>1, InsertDescends
<1>7. ToSet(M) = ToSet(L) \cup {p}
  <2>1. insert_place(L, S.qkey, f[p]) \in 1 .. Len(L) + 1
    BY <1>2, PlaceInQueue
  <2> QED
    BY <1>2, <1>3, <2>1, InsertAtJoins DEF insert
<1>8. \A q \in ToSet(M) : T.qkey[q] = f[q]
  <2>1. S.qkey = [q \in Pids |-> S.qkey[q]] /\ ToSet(L) \subseteq Pids
    BY <1>2, SchedFields DEF ToSet
  <2> QED
    BY <1>3, <1>5, <1>7, <2>1
<1>9. /\ \A a, b \in Pids : a # p /\ b # p /\ Precedes(M, a, b) => Precedes(L, a, b)
      /\ \A b \in Pids : Precedes(M, p, b) => f[b] < f[p]
  BY <1>2, <1>3, <1>5, InsertPrecedes
<1> QED
  BY <1>1, <1>3, <1>4, <1>6, <1>7, <1>8, <1>9 DEF InTurn

(* A process beside main that gets on the list comes into nobody's gap.    *)
LEMMA GapsWithOneMore ==
  ASSUME NEW S, Coherent(S), InTurn(S), MainLowest(S),
         NEW p \in Pids \ {NULLPROC}, S.prstate[p] \notin {"READY", "FREE"},
         p = Root => S.currpid = Root,
         NEW T, T = make_ready(S, p)
  PROVE  GapsStay(S, T)
<1>1. /\ T.prprio = S.prprio /\ T.currpid = S.currpid
      /\ ToSet(T.readylist) = ToSet(S.readylist) \cup {p}
      /\ \A a, b \in Pids :
           a # p /\ b # p /\ Precedes(T.readylist, a, b) => Precedes(S.readylist, a, b)
      /\ \A b \in Pids : Precedes(T.readylist, p, b) => S.prprio[b] < S.prprio[p]
  BY GetsInLine
<1>2. T.prstate = [S.prstate EXCEPT ![p] = "READY"] /\ S.prstate \in [Pids -> PrStates]
  BY MakeReadyJoins, SchedFields DEF Coherent
<1>3. SUFFICES ASSUME NEW r \in Pids \ {NULLPROC}, InGap(S, r)
               PROVE  InGap(T, r)
  BY DEF GapsStay
<1>4. r # p /\ S.prstate[r] = "READY" /\ T.prstate[Root] \in Eligible
  BY <1>2, <1>3 DEF InGap, Coherent, Eligible
<1>5. S.prprio[r] >= INITPRIO /\ S.prprio[p] >= INITPRIO /\ S.prprio[Root] = INITPRIO
  BY <1>3, <1>4 DEF MainLowest
<1>6. S.prprio[r] \in Nat /\ S.prprio[p] \in Nat /\ INITPRIO \in Nat /\ Root \in Pids
  <2>1. S.prprio \in [Pids -> Nat]
    BY SchedFields DEF Coherent
  <2> QED
    BY <2>1, CascadeAssumption, SchedAssumption DEF Root, Pids
<1>7. ASSUME NEW q \in Pids, Precedes(T.readylist, q, r), S.prprio[q] = INITPRIO
      PROVE  S.currpid # Root /\ ~Precedes(T.readylist, Root, q)
  <2>1. q # p
    BY <1>1, <1>5, <1>6, <1>7
  <2>2. S.currpid # Root /\ ~Precedes(S.readylist, Root, q)
    BY <1>1, <1>3, <1>4, <1>7, <2>1 DEF InGap
  <2> QED
    BY <1>1, <1>6, <2>1, <2>2
<1> QED
  BY <1>1, <1>3, <1>4, <1>7 DEF InGap

-----------------------------------------------------------------------------
(* The first in line runs, and no one else is higher.                      *)
LEMMA FirstRuns ==
  ASSUME NEW S, Coherent(S), InTurn(S), S.readylist # << >>, NEW T, T = dispatch(S)
  PROVE  /\ InTurn(T) /\ HighestFirst(T) /\ T.prprio = S.prprio /\ T.currpid = Head(S.readylist)
         /\ \A p \in ToSet(S.readylist) : S.prprio[p] <= S.prprio[T.currpid]
         /\ GapsPass(S, T)
<1>1. PICK L, f, M : L = S.readylist /\ f = S.prprio /\ M = Tail(L)
  OBVIOUS
<1>2. /\ IsSched(S) /\ L \in Seq(Pids) /\ f \in [Pids -> Nat] /\ IsInjective(L) /\ L # << >>
      /\ S.prstate \in [Pids -> PrStates]
  BY <1>1, SchedFields DEF Coherent
<1>3. /\ T.readylist = M /\ T.prprio = f /\ T.qkey = S.qkey /\ T.currpid = Head(L)
      /\ T.prstate = [S.prstate EXCEPT ![Head(L)] = "CURR"]
  BY <1>1, <1>2 DEF dispatch, IsSched, SchedRecords
<1>4. /\ Head(L) \in ToSet(L) /\ Head(L) \in Pids /\ M \in Seq(Pids)
      /\ ToSet(M) = ToSet(L) \ {Head(L)}
  BY <1>1, <1>2, TailLeaves
<1>5. Descending(L, f) /\ Descending(M, f)
  <2>1. Descending(L, f)
    BY <1>1 DEF InTurn
  <2> QED
    BY <1>1, <1>2, <2>1, TailDescends
<1>6. /\ \A a, b : Precedes(M, a, b) => Precedes(L, a, b)
      /\ \A b \in ToSet(M) : Precedes(L, Head(L), b)
  BY <1>1, <1>2, TailPrecedes
<1>7. \A p \in ToSet(L) : f[p] <= f[Head(L)]
  <2>1. f[Head(L)] \in Nat
    BY <1>2, <1>4
  <2> QED
    BY <1>4, <1>5, <1>6, <2>1, PrecedesDescends
<1>8. InTurn(T) /\ HighestFirst(T)
  BY <1>1, <1>3, <1>4, <1>5, <1>7 DEF InTurn, HighestFirst
<1>9. ASSUME NEW p \in Pids \ {NULLPROC}, InGap(S, p)
      PROVE  InGap(T, p) \/ T.currpid = p
  <2>1. SUFFICES ASSUME p # Head(L)
                 PROVE  InGap(T, p)
    BY <1>3
  <2>2. p \in ToSet(M) /\ T.prstate[Root] \in Eligible
    <3>1. p \in ToSet(L) /\ S.prstate[Root] \in Eligible
      BY <1>1, <1>9 DEF InGap
    <3>2. Root \in Pids
      BY SchedAssumption, CascadeAssumption DEF Root, Pids
    <3> QED
      BY <1>2, <1>3, <1>4, <2>1, <3>1, <3>2 DEF Eligible
  <2>3. ASSUME NEW q \in Pids, Precedes(M, q, p), f[q] = INITPRIO
        PROVE  T.currpid # Root /\ ~Precedes(M, Root, q)
    <3>1. ~Precedes(L, Root, q)
      BY <1>1, <1>6, <1>9, <2>3 DEF InGap
    <3>2. q \in ToSet(M)
      BY <2>3 DEF Precedes, ToSet
    <3> QED
      BY <1>3, <1>6, <3>1, <3>2
  <2> QED
    BY <1>3, <2>2, <2>3 DEF InGap
<1> QED
  BY <1>1, <1>3, <1>7, <1>8, <1>9 DEF GapsPass

(* States and priorities follow from whose turn it is.                     *)
LEMMA TurnsAlike ==
  ASSUME NEW S, NEW T, Turns({}, S, T), T.prprio = S.prprio,
         \A p \in Pids : S.prstate[p] \in RunStates, MainLowest(S)
  PROVE  (\A p \in Pids : T.prstate[p] \in RunStates) /\ MainLowest(T)
<1>1. ASSUME NEW p \in Pids
      PROVE  /\ T.prstate[p] \in RunStates
             /\ T.prstate[p] = "FREE" <=> S.prstate[p] = "FREE"
  BY DEF Turns, Eligible, RunStates
<1> QED
  BY <1>1 DEF MainLowest

-----------------------------------------------------------------------------
(* The end of a turn.                                                      *)
NobodyFollowsMain(S) == \A q \in Pids : Precedes(S.readylist, Root, q) => S.prprio[q] < INITPRIO

(* The steps of a reschedule that switches.                                *)
LEMMA SwitchTurns ==
  ASSUME NEW S, InLine(S), S.currpid # NULLPROC, NEW T, T = dispatch(make_ready(S, S.currpid))
  PROVE  /\ InTurn(T) /\ HighestFirst(T) /\ T.prprio = S.prprio
         /\ GapsPass(S, T) /\ T.currpid # NULLPROC
         /\ NobodyFollowsMain(S) /\ S.prstate[Root] = "READY" =>
              InGap(T, S.currpid) \/ T.currpid = S.currpid
<1>1. PICK c, f, R : c = S.currpid /\ f = S.prprio /\ R = make_ready(S, c)
  OBVIOUS
<1>2. /\ c \in Pids \ {NULLPROC} /\ S.prstate[c] = "CURR" /\ Coherent(S) /\ InTurn(S)
      /\ f \in [Pids -> Nat] /\ MainLowest(S)
  BY <1>1, FifoFields DEF InLine
<1>3. /\ Coherent(R) /\ R.prstate = [S.prstate EXCEPT ![c] = "READY"]
  BY <1>1, <1>2, MakeReadyJoins
<1>4. /\ InTurn(R) /\ R.prprio = f /\ R.currpid = c
      /\ ToSet(R.readylist) = ToSet(S.readylist) \cup {c}
      /\ \A a, b \in Pids :
           a # c /\ b # c /\ Precedes(R.readylist, a, b) => Precedes(S.readylist, a, b)
      /\ \A b \in Pids : Precedes(R.readylist, c, b) => f[b] < f[c]
  BY <1>1, <1>2, GetsInLine
<1>5. GapsStay(S, R)
  BY <1>1, <1>2, GapsWithOneMore
<1>6. R.readylist # << >> /\ c \in ToSet(R.readylist)
  BY <1>4 DEF ToSet
<1>7. /\ InTurn(T) /\ HighestFirst(T) /\ T.prprio = R.prprio
      /\ \A p \in ToSet(R.readylist) : f[p] <= f[T.currpid]
      /\ GapsPass(R, T)
  BY <1>1, <1>3, <1>4, <1>6, FirstRuns
<1>8. T.currpid # NULLPROC
  <2>1. f[c] >= INITPRIO /\ f[c] <= f[T.currpid] /\ INITPRIO \in Nat \ {0} /\ f[c] \in Nat
    BY <1>1, <1>2, <1>6, <1>7, CascadeAssumption DEF MainLowest
  <2>2. f[NULLPROC] = 0
    <3>1. NULLPROC \in Pids /\ S.prstate[NULLPROC] # "FREE"
      BY <1>2, NullIsAProcess DEF Coherent, Eligible
    <3> QED
      BY <1>1, <1>2, <3>1 DEF MainLowest
  <2> QED
    BY <2>1, <2>2
<1>9. GapsPass(S, T)
  BY <1>5, <1>7 DEF GapsPass, GapsStay
<1>10. ASSUME NobodyFollowsMain(S), S.prstate[Root] = "READY"
       PROVE  InGap(R, c)
  <2>1. c # Root /\ Root \in Pids /\ R.prstate[Root] \in Eligible
    <3>1. Root \in Pids /\ S.prstate \in [Pids -> PrStates]
      BY FifoFields, SchedAssumption, CascadeAssumption DEF Root, Pids
    <3> QED
      BY <1>2, <1>3, <1>10, <3>1 DEF Eligible
  <2>2. ASSUME NEW q \in Pids, Precedes(R.readylist, q, c), f[q] = INITPRIO
        PROVE  ~Precedes(R.readylist, Root, q)
    <3>1. f[q] \in Nat /\ f[c] \in Nat
      BY <1>2
    <3>2. q # c
      BY <1>4, <2>2, <3>1
    <3>3. ASSUME Precedes(R.readylist, Root, q) PROVE FALSE
      <4>1. Precedes(S.readylist, Root, q)
        BY <1>4, <2>1, <3>2, <3>3
      <4>2. f[q] < INITPRIO
        BY <1>1, <1>10, <4>1 DEF NobodyFollowsMain
      <4> QED
        BY <2>2, <3>1, <4>2
    <3> QED
      BY <3>3
  <2> QED
    BY <1>4, <1>6, <2>1, <2>2 DEF InGap
<1> QED
  BY <1>1, <1>2, <1>4, <1>7, <1>8, <1>9, <1>10 DEF GapsPass

LEMMA Rotates ==
  ASSUME NEW S, InLine(S), S.currpid # NULLPROC, NEW T, T = resched(S)
  PROVE  /\ Fifo(T) /\ Turns({}, S, T) /\ GapsPass(S, T) /\ T.currpid # NULLPROC
         /\ NobodyFollowsMain(S) /\ S.prstate[Root] = "READY" =>
              InGap(T, S.currpid) \/ T.currpid = S.currpid
<1>1. SchedOK(T) /\ OnlyTurns(S, T) /\ Running(T)
  BY ReschedOK DEF InLine
<1>2. /\ S.ndefers = 0 /\ S.prstate[S.currpid] = "CURR" /\ S.readylist \in Seq(Pids)
      /\ S.prprio \in [Pids -> Nat] /\ S.currpid \in Pids /\ InTurn(S)
  BY FifoFields DEF InLine
<1>3. CASE keeps_cpu(S)
  <2>1. T = S
    BY <1>2, <1>3 DEF resched
  <2>2. HighestFirst(S)
    <3>1. CASE S.readylist = << >>
      BY <3>1 DEF HighestFirst, ToSet
    <3>2. CASE S.readylist # << >>
      <4>1. PICK L, h, c, f : /\ L = S.readylist /\ h = Head(L) /\ c = S.currpid
                              /\ f = S.prprio
        OBVIOUS
      <4>2. f[c] > S.qkey[h]
        BY <1>3, <3>2, <4>1 DEF keeps_cpu
      <4>3. h \in ToSet(L) /\ h = L[1] /\ h \in Pids
        BY <1>2, <3>2, <4>1 DEF ToSet
      <4>4. f[h] < f[c] /\ f \in [Pids -> Nat] /\ c \in Pids
        BY <1>2, <4>1, <4>2, <4>3 DEF InTurn
      <4>5. ASSUME NEW p \in ToSet(L)
            PROVE  f[p] <= f[c]
        <5>1. PICK i \in 1 .. Len(L) : L[i] = p
          BY DEF ToSet
        <5>2. p \in Pids /\ Len(L) \in Nat
          BY <1>2, <4>1, <5>1
        <5>3. CASE i = 1
          BY <4>3, <4>4, <5>1, <5>3
        <5>4. CASE i # 1
          <6>1. 1 \in 1 .. Len(L) /\ 1 < i
            BY <5>2, <5>4
          <6>2. f[L[i]] <= f[L[1]]
            BY <1>2, <4>1, <6>1 DEF InTurn, Descending
          <6>3. f[p] \in Nat /\ f[h] \in Nat /\ f[c] \in Nat
            BY <4>3, <4>4, <5>2
          <6> QED
            BY <4>3, <4>4, <5>1, <6>2, <6>3
        <5> QED
          BY <5>3, <5>4
      <4> QED
        BY <4>1, <4>5 DEF HighestFirst
    <3> QED
      BY <3>1, <3>2
  <2> QED
    BY <1>1, <2>1, <2>2 DEF Fifo, GapsPass, OnlyTurns
<1>4. CASE ~keeps_cpu(S)
  <2>1. T = dispatch(make_ready(S, S.currpid))
    BY <1>2, <1>4 DEF resched
  <2>2. /\ InTurn(T) /\ HighestFirst(T) /\ T.prprio = S.prprio
        /\ GapsPass(S, T) /\ T.currpid # NULLPROC
        /\ NobodyFollowsMain(S) /\ S.prstate[Root] = "READY" =>
             InGap(T, S.currpid) \/ T.currpid = S.currpid
    BY <2>1, SwitchTurns
  <2>3. (\A p \in Pids : T.prstate[p] \in RunStates) /\ MainLowest(T)
    BY <1>1, <2>2, TurnsAlike DEF InLine, OnlyTurns
  <2>4. T.ndefers = 0
    BY <1>1, <1>2 DEF OnlyTurns
  <2> QED
    BY <1>1, <2>2, <2>3, <2>4 DEF Fifo, InLine, OnlyTurns
<1> QED
  BY <1>3, <1>4

-----------------------------------------------------------------------------
(* A process joins the line.                                               *)
LEMMA JoinsLine ==
  ASSUME NEW S, InLine(S), S.currpid # NULLPROC,
         NEW p \in Pids \ {NULLPROC}, S.prstate[p] \in {"SUSP", "RECV"},
         NEW T, T = make_ready(S, p)
  PROVE  /\ InLine(T) /\ T.currpid = S.currpid /\ T.prstate = [S.prstate EXCEPT ![p] = "READY"]
         /\ GapsStay(S, T)
         /\ HighestFirst(S) /\ S.prprio[p] <= S.prprio[S.currpid] => HighestFirst(T)
         /\ p = Root => NobodyFollowsMain(T)
<1>1. Coherent(S) /\ InTurn(S) /\ MainLowest(S) /\ SchedOK(S) /\ Running(S) /\ S.ndefers = 0
  BY DEF InLine, SchedOK
<1>2. /\ Coherent(T) /\ T.prstate = [S.prstate EXCEPT ![p] = "READY"]
      /\ T.sleepq = S.sleepq /\ T.ndefers = S.ndefers /\ T.currpid = S.currpid
  BY <1>1, MakeReadyJoins
<1>3. /\ InTurn(T) /\ T.prprio = S.prprio
      /\ ToSet(T.readylist) = ToSet(S.readylist) \cup {p}
      /\ \A b \in Pids : Precedes(T.readylist, p, b) => S.prprio[b] < S.prprio[p]
  BY <1>1, GetsInLine
<1>4. S.prstate \in [Pids -> PrStates] /\ S.currpid \in Pids
  BY FifoFields
<1>5. \A r \in Pids : T.prstate[r] = IF r = p THEN "READY" ELSE S.prstate[r]
  BY <1>2, <1>4
<1>6. SchedOK(T) /\ Running(T)
  BY <1>1, <1>2, <1>4, <1>5 DEF SchedOK, Running, Delayed
<1>7. (\A r \in Pids : T.prstate[r] \in RunStates) /\ MainLowest(T)
  BY <1>1, <1>3, <1>5 DEF InLine, RunStates, MainLowest
<1>8. InLine(T)
  BY <1>1, <1>2, <1>3, <1>6, <1>7 DEF InLine
<1>9. S.prstate[p] # "CURR" /\ p # S.currpid
  BY <1>1 DEF Running
<1>10. GapsStay(S, T)
  <2>1. CASE p # Root
    BY <1>1, <2>1, GapsWithOneMore
  <2>2. CASE p = Root
    BY <2>2 DEF GapsStay, InGap, Eligible
  <2> QED
    BY <2>1, <2>2
<1>11. p = Root => NobodyFollowsMain(T)
  BY <1>1, <1>3 DEF NobodyFollowsMain, MainLowest
<1> QED
  BY <1>2, <1>3, <1>8, <1>10, <1>11 DEF HighestFirst

(* ready: it joins the line and the turn ends.  If it is main, who made it *)
(* ready goes on or comes right after it.                                  *)
LEMMA ReadyTurns ==
  ASSUME NEW S, Fifo(S), S.currpid # NULLPROC,
         NEW p \in Pids \ {NULLPROC}, S.prstate[p] \in {"SUSP", "RECV"},
         NEW T, T = ready(S, p)
  PROVE  /\ Fifo(T) /\ Turns({p}, S, T) /\ T.prstate[p] \in Eligible
         /\ GapsPass(S, T) /\ T.currpid # NULLPROC
         /\ p = Root => InGap(T, S.currpid) \/ T.currpid = S.currpid
<1>1. PICK R : R = make_ready(S, p)
  OBVIOUS
<1>2. /\ InLine(R) /\ R.currpid = S.currpid /\ R.prstate = [S.prstate EXCEPT ![p] = "READY"]
      /\ GapsStay(S, R) /\ (p = Root => NobodyFollowsMain(R))
  BY <1>1, JoinsLine DEF Fifo
<1>3. T = resched(R)
  BY <1>1 DEF ready
<1>4. /\ Fifo(T) /\ Turns({}, R, T) /\ GapsPass(R, T) /\ T.currpid # NULLPROC
      /\ NobodyFollowsMain(R) /\ R.prstate[Root] = "READY" =>
           InGap(T, R.currpid) \/ T.currpid = R.currpid
  BY <1>2, <1>3, Rotates
<1>5. S.prstate \in [Pids -> PrStates]
  BY FifoFields DEF Fifo
<1>6. \A r \in Pids : R.prstate[r] = IF r = p THEN "READY" ELSE S.prstate[r]
  BY <1>2, <1>5
<1>7. Turns({p}, S, T) /\ T.prstate[p] \in Eligible
  BY <1>4, <1>6 DEF Turns, Eligible
<1>8. GapsPass(S, T)
  BY <1>2, <1>4 DEF GapsPass, GapsStay
<1> QED
  BY <1>2, <1>4, <1>6, <1>7, <1>8
-----------------------------------------------------------------------------
(* The running process gives up the CPU, and the first in line runs.  If   *)
(* it is main, who is to come after main is the first.                     *)
LEMMA BlockTurns ==
  ASSUME NEW S, Fifo(S), S.currpid # NULLPROC, NEW st \in {"RECV", "FREE"},
         NEW T, T = block(S, st)
  PROVE  /\ Fifo(T) /\ Turns({S.currpid}, S, T) /\ T.prstate[S.currpid] = st
         /\ GapsPass(S, T)
<1>1. /\ SchedOK(S) /\ Running(S) /\ S.ndefers = 0 /\ S.prstate[S.currpid] = "CURR"
      /\ InTurn(S) /\ MainLowest(S) /\ HighestFirst(S)
  BY DEF Fifo, InLine, Running
<1>2. SchedOK(T) /\ Turns({S.currpid}, S, T) /\ T.ndefers = 0 /\ T.prstate[S.currpid] = st /\ Running(T)
  <2>1. st \in {"RECV", "SUSP", "WAIT", "FREE"}
    OBVIOUS
  <2> QED
    BY <1>1, <2>1, BlockOK
<1>3. PICK R : R = [S EXCEPT !.prstate[S.currpid] = st]
  OBVIOUS
<1>4. /\ SchedOK(R) /\ SameReady(S, R)
      /\ R.prstate = [S.prstate EXCEPT ![S.currpid] = st] /\ R.ndefers = 0
  <2>1. st \in {"RECV", "SUSP", "WAIT", "FREE"}
    OBVIOUS
  <2> QED
    BY <1>1, <1>3, <2>1, GivesUpOK
<1>5. R.currpid = S.currpid /\ R.qkey = S.qkey
  BY <1>1, <1>3 DEF SchedOK, Coherent, IsSched, SchedRecords
<1>6. /\ S.prstate \in [Pids -> PrStates] /\ S.currpid \in Pids /\ S.readylist \in Seq(Pids)
      /\ S.prprio \in [Pids -> Nat]
      /\ \A p \in Pids : S.prstate[p] = "READY" <=> p \in ToSet(S.readylist)
  BY FifoFields DEF Fifo
<1>7. T = dispatch(R)
  <2>1. R.prstate[R.currpid] # "CURR"
    BY <1>4, <1>5, <1>6
  <2>2. T = resched(R)
    BY <1>3 DEF block
  <2> QED
    BY <1>4, <2>1, <2>2 DEF resched, keeps_cpu
<1>8. Coherent(R) /\ InTurn(R) /\ R.prprio = S.prprio /\ R.readylist = S.readylist
  <2>1. R.prprio = S.prprio /\ R.readylist = S.readylist
    BY <1>4 DEF SameReady
  <2> QED
    BY <1>1, <1>4, <1>5, <2>1 DEF InTurn, SchedOK
<1>9. S.readylist # << >>
  <2>1. NULLPROC \in ToSet(S.readylist)
    BY <1>1, <1>6, NullIsAProcess DEF SchedOK, Coherent, Running, Eligible
  <2> QED
    BY <2>1 DEF ToSet
<1>10. /\ InTurn(T) /\ HighestFirst(T) /\ T.prprio = R.prprio /\ T.currpid = Head(R.readylist)
       /\ GapsPass(R, T)
  BY <1>7, <1>8, <1>9, FirstRuns
<1>11. (\A p \in Pids : T.prstate[p] \in RunStates) /\ MainLowest(T)
  <2>1. ASSUME NEW p \in Pids
        PROVE  /\ T.prstate[p] \in RunStates
               /\ T.prstate[p] # "FREE" => S.prstate[p] # "FREE"
    <3>1. CASE p = S.currpid
      BY <1>1, <1>2, <3>1 DEF RunStates
    <3>2. CASE p # S.currpid
      BY <1>2, <3>2 DEF Turns, Eligible, RunStates, Fifo, InLine
    <3> QED
      BY <3>1, <3>2
  <2> QED
    BY <1>1, <1>8, <1>10, <2>1 DEF MainLowest
<1>12. Fifo(T)
  BY <1>2, <1>10, <1>11 DEF Fifo, InLine
<1>13. CASE S.currpid # Root
  <2>1. Root \in Pids
    BY SchedAssumption, CascadeAssumption DEF Root, Pids
  <2>2. R.prstate[Root] = S.prstate[Root]
    BY <1>4, <1>6, <1>13, <2>1
  <2>3. GapsStay(S, R)
    BY <1>5, <1>8, <2>2 DEF GapsStay, InGap
  <2> QED
    BY <1>2, <1>10, <1>12, <2>3 DEF GapsPass, GapsStay
<1>14. CASE S.currpid = Root
  <2>1. SUFFICES ASSUME NEW p \in Pids \ {NULLPROC}, InGap(S, p)
                 PROVE  T.currpid = p
    BY <1>2, <1>12 DEF GapsPass
  <2>2. PICK L, f : L = S.readylist /\ f = S.prprio
    OBVIOUS
  <2>3. PICK i \in 1 .. Len(L) : L[i] = p
    <3>1. L \in Seq(Pids) /\ p \in ToSet(L)
      BY <1>6, <2>1, <2>2 DEF InGap
    <3> QED
      BY <3>1 DEF ToSet
  <2>4. Len(L) \in Nat /\ L \in Seq(Pids) /\ 1 \in 1 .. Len(L) /\ L # << >>
    BY <1>6, <1>9, <2>2, <2>3
  <2>5. Head(L) = L[1] /\ L[1] \in Pids /\ L[1] \in ToSet(L)
    BY <2>4 DEF ToSet
  <2>6. ASSUME i # 1 PROVE FALSE
    <3>1. Precedes(L, L[1], p)
      BY <2>3, <2>4, <2>6 DEF Precedes
    <3>2. f[p] <= f[L[1]]
      BY <1>1, <2>2, <3>1, PrecedesDescends DEF InTurn
    <3>3. f[p] >= INITPRIO /\ f[L[1]] <= INITPRIO
      <4>1. S.prstate[p] # "FREE"
        BY <1>6, <2>1 DEF InGap
      <4> QED
        BY <1>1, <1>14, <2>1, <2>2, <2>5, <4>1 DEF MainLowest, HighestFirst
    <3>4. f[p] \in Nat /\ f[L[1]] \in Nat /\ INITPRIO \in Nat
      BY <1>6, <2>1, <2>2, <2>5, CascadeAssumption
    <3>5. f[L[1]] = INITPRIO
      BY <3>2, <3>3, <3>4
    <3> QED
      BY <1>14, <2>1, <2>2, <2>5, <3>1, <3>5 DEF InGap
  <2> QED
    BY <1>8, <1>10, <2>2, <2>3, <2>5, <2>6
<1> QED
  BY <1>13, <1>14

(* A process leaves the line.                                              *)
LEMMA LeaveTurns ==
  ASSUME NEW S, Fifo(S), S.currpid # NULLPROC,
         NEW p \in Pids \ {NULLPROC, Root}, S.prstate[p] = "READY",
         NEW T, T = [S EXCEPT !.readylist = getitem(S.readylist, p), !.prstate[p] = "FREE"]
  PROVE  /\ Fifo(T) /\ T.prstate = [S.prstate EXCEPT ![p] = "FREE"] /\ T.currpid = S.currpid
         /\ \A r \in Pids \ {NULLPROC, p} : InGap(S, r) => InGap(T, r)
<1>1. /\ S.prstate \in [Pids -> PrStates] /\ S.readylist \in Seq(Pids) /\ SchedOK(S)
      /\ S.prprio \in [Pids -> Nat] /\ p \in ToSet(S.readylist)
      /\ InTurn(S) /\ MainLowest(S) /\ HighestFirst(S) /\ Running(S) /\ S.ndefers = 0
  BY FifoFields DEF Fifo, InLine
<1>2. T = [S EXCEPT !.readylist = getitem(S.readylist, p),
                    !.prstate   = [S.prstate EXCEPT ![p] = "FREE"]]
  OBVIOUS
<1>3. SchedOK(T) /\ Running(T) /\ T.currpid = S.currpid /\ T.ndefers = S.ndefers
  <2>1. "FREE" \in Idle
    BY DEF Idle
  <2>2. LET U == [S EXCEPT !.readylist = getitem(S.readylist, p),
                           !.prstate   = [S.prstate EXCEPT ![p] = "FREE"]]
        IN  SchedOK(U) /\ (Running(S) => Running(U)) /\ U.currpid = S.currpid /\ U.ndefers = S.ndefers
    BY <1>1, <2>1, LeaveReadyOK, Zenon
  <2> QED
    BY <1>1, <1>2, <2>2
<1>4. /\ T.prstate = [S.prstate EXCEPT ![p] = "FREE"] /\ T.prprio = S.prprio /\ T.qkey = S.qkey
      /\ T.readylist = getitem(S.readylist, p)
  BY <1>1 DEF SchedOK, Coherent, IsSched, SchedRecords
<1>5. PICK L, M, f : L = S.readylist /\ M = T.readylist /\ f = S.prprio
  OBVIOUS
<1>6. /\ L \in Seq(Pids) /\ IsInjective(L) /\ p \in ToSet(L) /\ M = getitem(L, p)
      /\ Descending(L, f) /\ f \in [Pids -> Nat]
  BY <1>1, <1>4, <1>5 DEF SchedOK, Coherent, InTurn
<1>7. ToSet(M) = ToSet(L) \ {p} /\ Descending(M, f)
  BY <1>6, GetitemLeaves, GetitemDescends
<1>8. \A a, b : Precedes(M, a, b) => Precedes(L, a, b)
  BY <1>6, GetitemPrecedes
<1>9. \A r \in Pids : T.prstate[r] = IF r = p THEN "FREE" ELSE S.prstate[r]
  BY <1>1, <1>4
<1>10. InTurn(T) /\ HighestFirst(T)
  BY <1>1, <1>3, <1>4, <1>5, <1>7 DEF InTurn, HighestFirst
<1>11. (\A r \in Pids : T.prstate[r] \in RunStates) /\ MainLowest(T)
  BY <1>1, <1>4, <1>9 DEF Fifo, InLine, RunStates, MainLowest
<1>12. Fifo(T)
  BY <1>1, <1>3, <1>10, <1>11 DEF Fifo, InLine
<1>13. Root \in Pids /\ T.prstate[Root] = S.prstate[Root]
  BY <1>9, SchedAssumption, CascadeAssumption DEF Root, Pids
<1>14. ASSUME NEW r \in Pids \ {NULLPROC, p}, InGap(S, r)
       PROVE  InGap(T, r)
  BY <1>3, <1>4, <1>5, <1>7, <1>8, <1>13, <1>14 DEF InGap
<1> QED
  BY <1>3, <1>4, <1>12, <1>14

(* A parked process changes to a state in which it is on no list.          *)
LEMMA ParkedTurnsIdle ==
  ASSUME NEW S, NEW p \in Pids, Parked(S, p), NEW st \in Idle,
         NEW T, T = [S EXCEPT !.prstate[p] = st]
  PROVE  /\ SchedOK(T) /\ (Running(S) => Running(T))
         /\ T.currpid = S.currpid /\ T.ndefers = S.ndefers
  BY SetIdleOK, Zenon

(* A process that is not in line dies.                                     *)
LEMMA IdleDies ==
  ASSUME NEW S, Fifo(S), NEW p \in Pids \ {NULLPROC, Root}, S.prstate[p] \in {"SUSP", "RECV"},
         NEW T, T = [S EXCEPT !.prstate[p] = "FREE"]
  PROVE  /\ Fifo(T) /\ T.prstate = [S.prstate EXCEPT ![p] = "FREE"] /\ T.currpid = S.currpid
         /\ GapsStay(S, T)
<1>1. /\ SchedOK(S) /\ Running(S) /\ S.prstate \in [Pids -> PrStates] /\ S.prstate[p] \in Idle
      /\ S.ndefers = 0
  BY FifoFields DEF Fifo, InLine, Idle
<1>2. SchedOK(T) /\ Running(T) /\ T.currpid = S.currpid /\ T.ndefers = S.ndefers
  <2>1. Parked(S, p) /\ "FREE" \in Idle
    BY <1>1, IdleIsParked DEF Idle
  <2> QED
    BY <1>1, <2>1, ParkedTurnsIdle
<1>3. /\ T.prstate = [S.prstate EXCEPT ![p] = "FREE"] /\ T.prprio = S.prprio /\ T.qkey = S.qkey
      /\ T.readylist = S.readylist
  BY <1>1 DEF SchedOK, Coherent, IsSched, SchedRecords
<1>4. \A r \in Pids : T.prstate[r] = IF r = p THEN "FREE" ELSE S.prstate[r]
  BY <1>1, <1>3
<1>5. (\A r \in Pids : T.prstate[r] \in RunStates) /\ MainLowest(T)
  BY <1>3, <1>4 DEF Fifo, InLine, RunStates, MainLowest
<1>6. InTurn(T) /\ HighestFirst(T)
  BY <1>2, <1>3 DEF Fifo, InLine, InTurn, HighestFirst
<1>7. Fifo(T)
  BY <1>1, <1>2, <1>5, <1>6 DEF Fifo, InLine
<1>8. T.prstate[Root] = S.prstate[Root]
  BY <1>4, SchedAssumption, CascadeAssumption DEF Root, Pids
<1> QED
  BY <1>2, <1>3, <1>7, <1>8 DEF GapsStay, InGap

(* A new process, suspended.                                               *)
AtLeastMain(prio) == prio \in Nat /\ prio >= INITPRIO

Newcomer(S, p, prio, T) == T = [S EXCEPT !.prstate[p] = "SUSP", !.prprio[p] = prio]

LEMMA NewcomerWaits ==
  ASSUME NEW S, Fifo(S), S.currpid # NULLPROC, NEW prio, AtLeastMain(prio),
         NEW p \in Pids \ {NULLPROC, Root}, S.prstate[p] = "FREE",
         NEW T, Newcomer(S, p, prio, T)
  PROVE  /\ Fifo(T) /\ T.prstate = [S.prstate EXCEPT ![p] = "SUSP"] /\ T.currpid = S.currpid
         /\ GapsStay(S, T) /\ T.prprio = [S.prprio EXCEPT ![p] = prio]
<1>1. /\ SchedOK(S) /\ Running(S) /\ S.prstate \in [Pids -> PrStates] /\ S.prprio \in [Pids -> Nat]
      /\ S.currpid \in Pids /\ S.prstate[S.currpid] = "CURR" /\ S.ndefers = 0
      /\ \A r \in Pids : S.prstate[r] = "READY" <=> r \in ToSet(S.readylist)
  BY FifoFields DEF Fifo, InLine
<1>a. T = [S EXCEPT !.prstate[p] = "SUSP", !.prprio[p] = prio]
  BY DEF Newcomer
<1>b. prio \in Nat /\ prio >= INITPRIO
  BY DEF AtLeastMain
<1>3. PICK R : R = [S EXCEPT !.prprio[p] = prio]
  OBVIOUS
<1>4. SchedOK(R) /\ R.prstate = S.prstate /\ R.currpid = S.currpid /\ R.ndefers = S.ndefers
  BY <1>1, <1>3, <1>b, SetPrioOK
<1>5. T = [R EXCEPT !.prstate[p] = "SUSP"]
  BY <1>1, <1>3, <1>a DEF SchedOK, Coherent, IsSched, SchedRecords
<1>6. SchedOK(T) /\ Running(T) /\ T.currpid = S.currpid /\ T.ndefers = S.ndefers
  <2>1. R.prstate[p] \in Idle /\ "SUSP" \in Idle /\ Running(R)
    BY <1>1, <1>4 DEF Idle, Running
  <2>2. Parked(R, p)
    BY <1>4, <2>1, IdleIsParked
  <2>3. PICK U : U = [R EXCEPT !.prstate[p] = "SUSP"]
    OBVIOUS
  <2>4. SchedOK(U) /\ Running(U) /\ U.currpid = R.currpid /\ U.ndefers = R.ndefers
    BY <2>1, <2>2, <2>3, ParkedTurnsIdle
  <2>5. U = T
    BY <1>5, <2>3
  <2> QED
    BY <1>4, <2>4, <2>5
<1>7. /\ T.prstate = [S.prstate EXCEPT ![p] = "SUSP"] /\ T.prprio = [S.prprio EXCEPT ![p] = prio]
      /\ T.qkey = S.qkey /\ T.readylist = S.readylist
  BY <1>1, <1>a DEF SchedOK, Coherent, IsSched, SchedRecords
<1>8. \A r \in Pids : /\ T.prstate[r] = IF r = p THEN "SUSP" ELSE S.prstate[r]
                      /\ T.prprio[r] = IF r = p THEN prio ELSE S.prprio[r]
  BY <1>1, <1>7
<1>9. Root \in Pids /\ T.prstate[Root] = S.prstate[Root]
  BY <1>8, SchedAssumption, CascadeAssumption DEF Root, Pids
<1>10. (\A r \in Pids : T.prstate[r] \in RunStates) /\ MainLowest(T)
  BY <1>8, <1>9, <1>b DEF Fifo, InLine, RunStates, MainLowest
<1>11. p \notin ToSet(S.readylist) /\ p # S.currpid /\ S.readylist \in Seq(Pids)
  BY <1>1, FifoFields DEF Fifo
<1>12. \A i \in 1 .. Len(S.readylist) :
         S.readylist[i] \in ToSet(S.readylist) /\ S.readylist[i] \in Pids
  BY <1>11 DEF ToSet
<1>13. InTurn(T) /\ HighestFirst(T)
  <2>1. \A r \in ToSet(S.readylist) : r \in Pids /\ T.prprio[r] = S.prprio[r]
    BY <1>8, <1>11, FifoFields DEF Fifo
  <2>2. T.prprio[S.currpid] = S.prprio[S.currpid]
    BY <1>1, <1>8, <1>11
  <2>3. Descending(S.readylist, T.prprio)
    BY <1>12, <2>1 DEF Fifo, InLine, InTurn, Descending
  <2> QED
    BY <1>6, <1>7, <2>1, <2>2, <2>3 DEF Fifo, InLine, InTurn, HighestFirst
<1>14. Fifo(T)
  BY <1>1, <1>6, <1>10, <1>13 DEF Fifo, InLine
<1>15. ASSUME NEW r \in Pids \ {NULLPROC}, InGap(S, r) PROVE InGap(T, r)
  <2>1. r \in ToSet(T.readylist) /\ T.prstate[Root] \in Eligible
    BY <1>7, <1>9, <1>15 DEF InGap
  <2>2. ASSUME NEW q \in Pids, Precedes(T.readylist, q, r), T.prprio[q] = INITPRIO
        PROVE  T.currpid # Root /\ ~Precedes(T.readylist, Root, q)
    <3>1. q \in ToSet(S.readylist) /\ q # p
      BY <1>7, <1>11, <2>2 DEF Precedes, ToSet
    <3> QED
      BY <1>6, <1>7, <1>8, <1>15, <2>2, <3>1 DEF InGap
  <2> QED
    BY <2>1, <2>2 DEF InGap
<1> QED
  BY <1>6, <1>7, <1>14, <1>15 DEF GapsStay
-----------------------------------------------------------------------------
(***************************************************************************)
(* Who is doomed with a process: the least set that has it and, of each    *)
(* user process it has, the children.  doomed_in computes it in rounds, as *)
(* many as there are processes, and that is enough.                        *)
(***************************************************************************)
IsIteration(f, X, a, g, n) ==
  f \in [0 .. n -> X] /\ f = [i \in 0 .. n |-> IF i = 0 THEN a ELSE g[f[i-1]]]

LEMMA IterationExists ==
  ASSUME NEW X, NEW a \in X, NEW g \in [X -> X], NEW n \in Nat
  PROVE  \E f : IsIteration(f, X, a, g, n)
<1>1. PICK Bad : Bad = {k \in 0 .. n : ~ \E f : IsIteration(f, X, a, g, k)}
  OBVIOUS
<1>2. SUFFICES ASSUME Bad # {} PROVE FALSE
  BY <1>1
<1>3. PICK k \in Bad : \A j \in Bad : k <= j
  <2>1. Bad \in SUBSET Nat
    BY <1>1
  <2> QED
    BY <1>2, <2>1, LeastOfNaturals
<1>4. k \in 0 .. n /\ ~ \E f : IsIteration(f, X, a, g, k)
  BY <1>1
<1>5. CASE k = 0
  <2>1. PICK f : f = [i \in 0 .. 0 |-> a]
    OBVIOUS
  <2>2. f \in [0 .. 0 -> X] /\ \A i \in 0 .. 0 : i = 0
    BY <2>1
  <2>3. f = [i \in 0 .. 0 |-> IF i = 0 THEN a ELSE g[f[i-1]]]
    BY <2>1, <2>2
  <2>4. IsIteration(f, X, a, g, 0)
    BY <2>2, <2>3 DEF IsIteration
  <2> QED
    BY <1>4, <1>5, <2>4
<1>6. CASE k # 0
  <2>1. k - 1 \in 0 .. n /\ k - 1 \notin Bad /\ k \in Nat \ {0} /\ k - 1 \in Nat
    BY <1>3, <1>4, <1>6
  <2>2. PICK e : IsIteration(e, X, a, g, k - 1)
    BY <1>1, <2>1
  <2>3. e \in [0 .. k - 1 -> X] /\ \A i \in 0 .. k - 1 : e[i] = IF i = 0 THEN a ELSE g[e[i-1]]
    BY <2>2 DEF IsIteration
  <2>4. PICK b : b = g[e[k - 1]] /\ b \in X
    <3>1. k - 1 \in 0 .. k - 1
      BY <2>1
    <3> QED
      BY <2>3, <3>1
  <2>5. PICK f : f = [i \in 0 .. k |-> IF i = k THEN b ELSE e[i]]
    OBVIOUS
  <2>6. \A i \in 0 .. k : i # k => i \in 0 .. k - 1
    BY <2>1
  <2>7. f \in [0 .. k -> X]
    BY <2>3, <2>4, <2>5, <2>6
  <2>8. ASSUME NEW i \in 0 .. k
        PROVE  f[i] = IF i = 0 THEN a ELSE g[f[i-1]]
    <3>1. CASE i = k
      <4>1. f[i] = b /\ k - 1 \in 0 .. k /\ k - 1 # k /\ i # 0
        BY <2>1, <2>5, <3>1
      <4>2. f[k - 1] = e[k - 1]
        BY <2>5, <4>1
      <4> QED
        BY <2>4, <3>1, <4>1, <4>2
    <3>2. CASE i # k
      <4>1. i \in 0 .. k - 1 /\ f[i] = e[i]
        BY <2>5, <2>6, <3>2
      <4>2. CASE i = 0
        BY <2>3, <4>1, <4>2
      <4>3. CASE i # 0
        <5>1. i - 1 \in 0 .. k - 1 /\ i - 1 \in 0 .. k /\ i - 1 # k
          BY <2>1, <4>1, <4>3
        <5>2. f[i - 1] = e[i - 1]
          BY <2>5, <5>1
        <5> QED
          BY <2>3, <4>1, <4>3, <5>2
      <4> QED
        BY <4>2, <4>3
    <3> QED
      BY <3>1, <3>2
  <2>9. f = [i \in 0 .. k |-> IF i = 0 THEN a ELSE g[f[i-1]]]
    BY <2>5, <2>8
  <2>10. IsIteration(f, X, a, g, k)
    BY <2>7, <2>9 DEF IsIteration
  <2> QED
    BY <1>4, <2>10
<1> QED
  BY <1>5, <1>6

Joined(k, S) ==
  S \cup {c \in Children : k.sch.prstate[c] # "FREE" /\ k.prparent[c] \in S
                            /\ k.user_process[k.prparent[c]]}

Closed(k, S) == Joined(k, S) = S

IsRounds(f, k, p) ==
  /\ f \in [0 .. NPROC -> SUBSET Pids] /\ f[0] = {p}
  /\ \A n \in 1 .. NPROC : f[n] = Joined(k, f[n - 1])
  /\ f[NPROC] = doomed_in(k, p)

LEMMA DoomedByRounds ==
  ASSUME NEW k, NEW p \in Pids
  PROVE  \E f : IsRounds(f, k, p)
<1>1. PICK g : g = [S \in SUBSET Pids |-> Joined(k, S)]
  OBVIOUS
<1>2. g \in [SUBSET Pids -> SUBSET Pids] /\ {p} \in SUBSET Pids /\ NPROC \in Nat \ {0}
  <2>1. \A S \in SUBSET Pids : Joined(k, S) \in SUBSET Pids
    BY DEF Joined, Children
  <2> QED
    BY <1>1, <2>1, SchedAssumption
<1>3. PICK e : IsIteration(e, SUBSET Pids, {p}, g, NPROC)
  BY <1>2, IterationExists
<1>4. \A n \in 0 .. NPROC : n # 0 => n - 1 \in 0 .. NPROC
  BY <1>2
<1>5. e = [n \in 0 .. NPROC |-> IF n = 0 THEN {p} ELSE Joined(k, e[n-1])]
  <2>1. e \in [0 .. NPROC -> SUBSET Pids] /\ e = [n \in 0 .. NPROC |-> IF n = 0 THEN {p} ELSE g[e[n-1]]]
    BY <1>3 DEF IsIteration
  <2>2. \A n \in 0 .. NPROC : n # 0 => g[e[n-1]] = Joined(k, e[n-1])
    BY <1>1, <1>4, <2>1
  <2> QED
    BY <2>1, <2>2
<1>6. PICK f : f = CHOOSE d : d = [n \in 0 .. NPROC |-> IF n = 0 THEN {p} ELSE Joined(k, d[n-1])]
  OBVIOUS
<1>7. doomed_in(k, p) = f[NPROC]
  BY <1>6 DEF doomed_in, Joined
<1>8. f = [n \in 0 .. NPROC |-> IF n = 0 THEN {p} ELSE Joined(k, f[n-1])]
  BY <1>5, <1>6
<1>9. \A n \in 0 .. NPROC : f[n] = IF n = 0 THEN {p} ELSE Joined(k, f[n-1])
  BY <1>8
<1>10. \A n \in 0 .. NPROC : f[n] \in SUBSET Pids
  <2>1. PICK Bad : Bad = {n \in 0 .. NPROC : f[n] \notin SUBSET Pids}
    OBVIOUS
  <2>2. SUFFICES ASSUME Bad # {} PROVE FALSE
    BY <2>1
  <2>3. PICK n \in Bad : \A j \in Bad : n <= j
    <3>1. Bad \in SUBSET Nat
      BY <1>2, <2>1
    <3> QED
      BY <2>2, <3>1, LeastOfNaturals
  <2>4. n \in 0 .. NPROC /\ n # 0 /\ f[n] \notin SUBSET Pids
    BY <1>2, <1>9, <2>1, <2>3
  <2>5. n - 1 \in 0 .. NPROC /\ n - 1 \notin Bad
    BY <1>2, <2>1, <2>3, <2>4
  <2>6. f[n - 1] \in SUBSET Pids /\ f[n] = Joined(k, f[n - 1])
    BY <1>9, <2>1, <2>4, <2>5
  <2> QED
    BY <2>4, <2>6 DEF Joined, Children
<1>11. f \in [0 .. NPROC -> SUBSET Pids]
  <2>1. f = [n \in 0 .. NPROC |-> f[n]]
    BY <1>8
  <2> QED
    BY <1>10, <2>1
<1>12. IsRounds(f, k, p)
  <2>1. 0 \in 0 .. NPROC /\ \A n \in 1 .. NPROC : n \in 0 .. NPROC /\ n # 0
    BY <1>2
  <2> QED
    BY <1>7, <1>9, <1>11, <2>1 DEF IsRounds
<1> QED
  BY <1>12

(* It is in every set that has the process and the children.               *)
LEMMA DoomedIsLeast ==
  ASSUME NEW k, NEW p \in Pids, NEW S, p \in S, Closed(k, S)
  PROVE  doomed_in(k, p) \subseteq S
<1>1. PICK f : IsRounds(f, k, p)
  BY DoomedByRounds
<1>2. NPROC \in Nat \ {0} /\ NPROC \in 0 .. NPROC
  BY SchedAssumption
<1>3. PICK Bad : Bad = {n \in 0 .. NPROC : ~(f[n] \subseteq S)}
  OBVIOUS
<1>4. CASE Bad = {}
  BY <1>1, <1>2, <1>3, <1>4 DEF IsRounds
<1>5. CASE Bad # {}
  <2>1. PICK n \in Bad : \A j \in Bad : n <= j
    <3>1. Bad \in SUBSET Nat
      BY <1>2, <1>3
    <3> QED
      BY <1>5, <3>1, LeastOfNaturals
  <2>2. n \in 0 .. NPROC /\ ~(f[n] \subseteq S) /\ n # 0
    <3>1. f[0] \subseteq S
      BY <1>1 DEF IsRounds
    <3> QED
      BY <1>3, <2>1, <3>1
  <2>3. n - 1 \in 0 .. NPROC /\ n - 1 \notin Bad /\ n \in 1 .. NPROC
    BY <1>2, <2>1, <2>2
  <2>4. f[n - 1] \subseteq S /\ f[n] = Joined(k, f[n - 1])
    BY <1>1, <1>3, <2>3 DEF IsRounds
  <2>5. Joined(k, f[n - 1]) \subseteq Joined(k, S)
    BY <2>4 DEF Joined
  <2> QED
    BY <2>2, <2>4, <2>5 DEF Closed
<1> QED
  BY <1>4, <1>5

(* The process is in it, and so are the children: a round that adds nobody *)
(* is the last that could, and each before it adds one.                    *)
LEMMA DoomedIsClosed ==
  ASSUME NEW k, NEW p \in Pids
  PROVE  p \in doomed_in(k, p) /\ Closed(k, doomed_in(k, p)) /\ doomed_in(k, p) \subseteq Pids
<1>1. PICK f : IsRounds(f, k, p)
  BY DoomedByRounds
<1>2. NPROC \in Nat \ {0} /\ NPROC \in 0 .. NPROC /\ 0 \in 0 .. NPROC
  BY SchedAssumption
<1>3. /\ f \in [0 .. NPROC -> SUBSET Pids] /\ f[0] = {p}
      /\ \A n \in 1 .. NPROC : f[n] = Joined(k, f[n - 1])
      /\ f[NPROC] = doomed_in(k, p)
  BY <1>1 DEF IsRounds
<1>4. \A n \in 0 .. NPROC : p \in f[n]
  <2>1. PICK Bad : Bad = {n \in 0 .. NPROC : p \notin f[n]}
    OBVIOUS
  <2>2. SUFFICES ASSUME Bad # {} PROVE FALSE
    BY <2>1
  <2>3. PICK n \in Bad : \A j \in Bad : n <= j
    <3>1. Bad \in SUBSET Nat
      BY <1>2, <2>1
    <3> QED
      BY <2>2, <3>1, LeastOfNaturals
  <2>4. n \in 0 .. NPROC /\ p \notin f[n] /\ n # 0
    BY <1>3, <2>1, <2>3
  <2>5. n - 1 \in 0 .. NPROC /\ n - 1 \notin Bad /\ n \in 1 .. NPROC
    BY <1>2, <2>3, <2>4
  <2>6. p \in f[n - 1] /\ f[n] = Joined(k, f[n - 1])
    BY <1>3, <2>1, <2>5
  <2> QED
    BY <2>4, <2>6 DEF Joined
<1>5. ASSUME NEW n \in 0 .. NPROC, Closed(k, f[n])
      PROVE  f[NPROC] = f[n]
  <2>1. PICK Bad : Bad = {m \in 0 .. NPROC : m >= n /\ f[m] # f[n]}
    OBVIOUS
  <2>2. CASE Bad = {}
    BY <1>2, <2>1, <2>2
  <2>3. CASE Bad # {}
    <3>1. PICK m \in Bad : \A j \in Bad : m <= j
      <4>1. Bad \in SUBSET Nat
        BY <1>2, <2>1
      <4> QED
        BY <2>3, <4>1, LeastOfNaturals
    <3>2. m \in 0 .. NPROC /\ m >= n /\ f[m] # f[n]
      BY <2>1
    <3>3. m - 1 \in 0 .. NPROC /\ m - 1 >= n /\ m \in 1 .. NPROC /\ m - 1 \notin Bad
      BY <1>2, <3>1, <3>2
    <3>4. f[m - 1] = f[n] /\ f[m] = Joined(k, f[m - 1])
      BY <1>3, <2>1, <3>3
    <3> QED
      BY <1>5, <3>2, <3>4 DEF Closed
  <2> QED
    BY <2>2, <2>3
<1>6. IsFiniteSet(Pids) /\ Cardinality(Pids) = NPROC
  BY <1>2, FS_Interval DEF Pids
<1>7. \A S \in SUBSET Pids : IsFiniteSet(S) /\ Cardinality(S) \in Nat /\ Cardinality(S) <= NPROC
  BY <1>6, FS_Subset, FS_CardinalityType
<1>8. ASSUME ~Closed(k, f[NPROC])
      PROVE  FALSE
  <2>1. \A n \in 0 .. NPROC : ~Closed(k, f[n])
    BY <1>5, <1>8
  <2>2. PICK Bad : Bad = {n \in 0 .. NPROC : Cardinality(f[n]) < n + 1}
    OBVIOUS
  <2>3. CASE Bad = {}
    <3>1. ~(Cardinality(f[NPROC]) < NPROC + 1)
      BY <1>2, <2>2, <2>3
    <3>2. f[NPROC] \in SUBSET Pids
      BY <1>2, <1>3
    <3>3. Cardinality(f[NPROC]) \in Nat /\ Cardinality(f[NPROC]) <= NPROC
      BY <1>7, <3>2
    <3> QED
      BY <1>2, <3>1, <3>3
  <2>4. CASE Bad # {}
    <3>1. PICK n \in Bad : \A j \in Bad : n <= j
      <4>1. Bad \in SUBSET Nat
        BY <1>2, <2>2
      <4> QED
        BY <2>4, <4>1, LeastOfNaturals
    <3>2. n \in 0 .. NPROC /\ Cardinality(f[n]) < n + 1
      BY <2>2
    <3>3. n # 0
      <4>1. Cardinality({p}) = 1
        BY FS_Singleton
      <4>2. SUFFICES ASSUME n = 0 PROVE FALSE
        OBVIOUS
      <4>3. f[n] = {p}
        BY <1>3, <4>2
      <4> QED
        BY <3>2, <4>1, <4>2, <4>3
    <3>4. n - 1 \in 0 .. NPROC /\ n \in 1 .. NPROC /\ n - 1 \notin Bad
      BY <1>2, <3>1, <3>2, <3>3
    <3>5. PICK A, B : A = f[n - 1] /\ B = f[n]
      OBVIOUS
    <3>6. A \in SUBSET Pids /\ B \in SUBSET Pids /\ B = Joined(k, A) /\ ~Closed(k, A)
      BY <1>3, <2>1, <3>2, <3>4, <3>5
    <3>7. A \subseteq B /\ A # B
      BY <3>6 DEF Joined, Closed
    <3>8. Cardinality(A) < Cardinality(B) /\ Cardinality(A) \in Nat /\ Cardinality(B) \in Nat
      BY <1>7, <3>6, <3>7, FS_Subset
    <3>9. ~(Cardinality(A) < (n - 1) + 1)
      BY <2>2, <3>4, <3>5
    <3> QED
      BY <3>2, <3>4, <3>5, <3>8, <3>9
  <2> QED
    BY <2>3, <2>4
<1> QED
  BY <1>2, <1>3, <1>4, <1>8

(* But for the process itself, they are alive.                             *)
LEMMA DoomedAreAlive ==
  ASSUME NEW k, NEW p \in Pids
  PROVE  \A c \in doomed_in(k, p) : c = p \/ (c \in Children /\ k.sch.prstate[c] # "FREE")
<1>1. PICK S : S = {p} \cup {c \in Children : k.sch.prstate[c] # "FREE"}
  OBVIOUS
<1>2. Closed(k, S)
  BY <1>1 DEF Closed, Joined
<1>3. doomed_in(k, p) \subseteq S
  BY <1>1, <1>2, DoomedIsLeast
<1> QED
  BY <1>1, <1>3

-----------------------------------------------------------------------------
(***************************************************************************)
(* The inductive invariant.  Each clause is about a record k such as       *)
(* cascade, so that a record in the middle of a call has it as well.  r    *)
(* ranks the processes: a parent is lower than its children.               *)
(***************************************************************************)
KillFrames == [pid : Children, i : 1 .. NPROC, doomed : SUBSET Pids]

IsCascade(k) ==
  k \in [sch : {k.sch}, prparent : [Pids -> Pids], prhasmsg : [Pids -> BOOLEAN],
         user_process : [Pids -> BOOLEAN], prcount : Int, nextpid : Pids,
         receiving : SUBSET Pids, kills : [Pids -> Seq(KillFrames)]]

Live(k)      == {p \in Pids : k.sch.prstate[p] # "FREE"}
Killers(k)   == {p \in Pids : k.kills[p] # << >>}
Victim(k, p) == k.kills[p][1].pid
Fated(k, p)  == doomed_in(k, Victim(k, p))

(* Only main waits for messages.                                           *)
MainReceives(k) ==
  k.receiving \subseteq {Root} /\ \A p \in Pids : k.sch.prstate[p] = "RECV" => p = Root

(* Every process but main comes from a live user process, or from main.    *)
TreeSound(k, r) ==
  /\ Root \in Live(k) /\ k.prparent[Root] = 1
  /\ \A p \in Shells : ~k.user_process[p]
  /\ \A c \in Live(k) \ {NULLPROC, Root} :
       /\ k.prparent[c] \in Live(k) \ {NULLPROC}
       /\ k.prparent[c] = Root \/ k.user_process[k.prparent[c]]
       /\ c \notin Shells => k.user_process[c]
       /\ r[k.prparent[c]] < r[c]

(* The calls of kill within each other: each victim is a child of the one  *)
(* before, and children that were passed over are dead, but the next one.  *)
FramesSound(k, r, D, F) ==
  /\ \A j \in 1 .. Len(F) : /\ F[j].pid \in Live(k) \ {NULLPROC, Root}
                            /\ F[j].pid \in D
                            /\ \A c \in Live(k) \ {NULLPROC} :
                                 k.prparent[c] = F[j].pid /\ c < F[j].i
                                   => j < Len(F) /\ c = F[j + 1].pid
  /\ \A i, j \in 1 .. Len(F) : i < j => r[F[i].pid] < r[F[j].pid]

KillSound(k, r, p) ==
  /\ p \in Live(k) \ {NULLPROC}
  /\ FramesSound(k, r, Fated(k, p), k.kills[p])
  /\ k.kills[p][1].doomed \cap Live(k) \subseteq Fated(k, p)
  /\ p \in Fated(k, p) => p = Victim(k, p)

(* Who lost the CPU in kill lost it to main, before it looked for a child, *)
(* and of main's priority nobody runs between main and it: so nobody else  *)
(* loses it in kill till then, and no other kill reaches it or its victim. *)
KillersWait(k) ==
  \A p \in Killers(k) \ {k.sch.currpid} :
    /\ Len(k.kills[p]) = 1 /\ k.kills[p][1].i = 1
    /\ InGap(k.sch, p)
    /\ \A q \in Killers(k) \ {p} : p \notin Fated(k, q) /\ Victim(k, p) \notin Fated(k, q)

Victims(k)    == UNION {{k.kills[p][i].pid : i \in 1 .. Len(k.kills[p])} : p \in Killers(k)}
CountRight(k) == k.prcount = Cardinality(Live(k)) - Cardinality(Victims(k))

KillsSound(k, r) == \A p \in Killers(k) : KillSound(k, r, p)

Sound(k, r) ==
  /\ IsCascade(k) /\ Fifo(k.sch) /\ MainReceives(k)
  /\ TreeSound(k, r) /\ KillsSound(k, r) /\ KillersWait(k)
  /\ CountRight(k)

CascadeIInv == \E r \in [Pids -> Nat] : Sound(cascade, r)

-----------------------------------------------------------------------------
LEMMA CascadeFields ==
  ASSUME NEW k, IsCascade(k)
  PROVE  /\ k.prparent \in [Pids -> Pids] /\ k.prhasmsg \in [Pids -> BOOLEAN]
         /\ k.user_process \in [Pids -> BOOLEAN] /\ k.prcount \in Int /\ k.nextpid \in Pids
         /\ k.receiving \in SUBSET Pids /\ k.kills \in [Pids -> Seq(KillFrames)]
BY DEF IsCascade

LEMMA RootIsAProcess ==
  Root \in Children /\ Root \in Pids /\ NPROC \in Nat /\ NPROC > 2 /\ 1 \in Children
BY SchedAssumption, CascadeAssumption DEF Root, Children, Pids, NULLPROC

(* The family of a process is a matter of who is alive and whose child.    *)
SameTree(k, m) ==
  /\ m.prparent = k.prparent /\ m.user_process = k.user_process
  /\ m.kills = k.kills /\ m.prcount = k.prcount
  /\ \A p \in Pids : m.sch.prstate[p] = "FREE" <=> k.sch.prstate[p] = "FREE"

LEMMA SameDoomed ==
  ASSUME NEW k, NEW m, NEW p \in Pids,
         m.prparent = k.prparent, m.user_process = k.user_process,
         \A c \in Pids : m.sch.prstate[c] = "FREE" <=> k.sch.prstate[c] = "FREE"
  PROVE  doomed_in(m, p) = doomed_in(k, p)
<1>1. \A S : Joined(m, S) = Joined(k, S)
  BY DEF Joined, Children
<1>2. PICK A, B : A = doomed_in(k, p) /\ B = doomed_in(m, p)
  OBVIOUS
<1>3. p \in A /\ Closed(k, A) /\ p \in B /\ Closed(m, B)
  BY <1>2, DoomedIsClosed
<1>4. Closed(m, A) /\ Closed(k, B)
  BY <1>1, <1>3 DEF Closed
<1>5. A \subseteq B
  BY <1>2, <1>3, <1>4, DoomedIsLeast
<1>6. B \subseteq A
  BY <1>2, <1>3, <1>4, DoomedIsLeast
<1> QED
  BY <1>2, <1>5, <1>6

(* The first victim of a killer, and its place in the table.               *)
LEMMA VictimIsAProcess ==
  ASSUME NEW k, IsCascade(k), NEW p \in Killers(k)
  PROVE  /\ p \in Pids /\ Victim(k, p) \in Children /\ Victim(k, p) \in Pids
         /\ Len(k.kills[p]) \in Nat \ {0} /\ 1 \in 1 .. Len(k.kills[p])
         /\ \A j \in 1 .. Len(k.kills[p]) : k.kills[p][j] \in KillFrames /\ k.kills[p][j].pid \in Children
         /\ k.kills[p] \in Seq(KillFrames)
<1>1. PICK F : F = k.kills[p]
  OBVIOUS
<1>2. p \in Pids /\ F \in Seq(KillFrames) /\ F # << >>
  BY <1>1, CascadeFields DEF Killers
<1>3. PICK n : n = Len(F) /\ n \in Nat \ {0}
  <2>1. Len(F) \in Nat /\ Len(F) # 0
    BY <1>2
  <2> QED
    BY <2>1
<1>4. 1 \in 1 .. n /\ \A j \in 1 .. n : F[j] \in KillFrames
  BY <1>2, <1>3
<1>5. \A j \in 1 .. n : F[j].pid \in Children
  BY <1>4 DEF KillFrames
<1> QED
  BY <1>1, <1>2, <1>3, <1>4, <1>5 DEF Victim, Children

(* When only the turn changes, all but the killers' waiting stays.         *)
LEMMA TurnSound ==
  ASSUME NEW k, NEW r, Sound(k, r), NEW m, SameTree(k, m),
         IsCascade(m), Fifo(m.sch), MainReceives(m), KillersWait(m)
  PROVE  Sound(m, r)
<1>1. Live(m) = Live(k) /\ Killers(m) = Killers(k)
  BY DEF SameTree, Live, Killers
<1>2. ASSUME NEW p \in Killers(k)
      PROVE  m.kills[p] = k.kills[p] /\ Victim(m, p) = Victim(k, p) /\ Fated(m, p) = Fated(k, p)
  <2>1. Victim(m, p) = Victim(k, p) /\ m.kills[p] = k.kills[p]
    BY DEF SameTree, Victim
  <2>2. Victim(k, p) \in Pids
    BY <1>2, VictimIsAProcess DEF Sound
  <2>3. doomed_in(m, Victim(k, p)) = doomed_in(k, Victim(k, p))
    BY <2>2, SameDoomed DEF SameTree
  <2> QED
    BY <2>1, <2>3 DEF Fated
<1>3. TreeSound(m, r)
  BY <1>1 DEF Sound, TreeSound, SameTree
<1>4. KillsSound(m, r)
  <2>1. ASSUME NEW p \in Killers(k)
        PROVE  KillSound(m, r, p)
    <3>1. KillSound(k, r, p)
      BY DEF Sound, KillsSound
    <3>2. FramesSound(m, r, Fated(k, p), k.kills[p])
      BY <1>1, <3>1 DEF KillSound, FramesSound, SameTree
    <3> QED
      BY <1>1, <1>2, <3>1, <3>2 DEF KillSound
  <2> QED
    BY <1>1, <2>1 DEF KillsSound
<1>6. CountRight(m)
  <2>1. Victims(m) = Victims(k)
    BY <1>1 DEF Victims, SameTree
  <2> QED
    BY <1>1, <2>1 DEF Sound, CountRight, SameTree
<1> QED
  BY <1>3, <1>4, <1>6 DEF Sound

(* A turn of one who is in no kill leaves the killers waiting.             *)
LEMMA WaitStays ==
  ASSUME NEW k, NEW r, Sound(k, r), NEW m, SameTree(k, m), Fifo(m.sch),
         m.sch = k.sch \/ (GapsPass(k.sch, m.sch) /\ k.sch.currpid \notin Killers(k))
  PROVE  KillersWait(m)
<1>1. Killers(m) = Killers(k)
  BY DEF SameTree, Killers
<1>2. SUFFICES ASSUME NEW p \in Killers(k), p # m.sch.currpid
               PROVE  /\ Len(m.kills[p]) = 1 /\ m.kills[p][1].i = 1
                      /\ InGap(m.sch, p)
                      /\ \A q \in Killers(k) \ {p} :
                           p \notin Fated(m, q) /\ Victim(m, p) \notin Fated(m, q)
  BY <1>1 DEF KillersWait
<1>3. p # k.sch.currpid /\ p \in Pids \ {NULLPROC}
  <2>1. KillSound(k, r, p)
    BY DEF Sound, KillsSound
  <2>2. p # k.sch.currpid
    BY <1>2
  <2> QED
    BY <2>1, <2>2 DEF KillSound, Live
<1>4. /\ Len(k.kills[p]) = 1 /\ k.kills[p][1].i = 1 /\ InGap(k.sch, p)
      /\ \A q \in Killers(k) \ {p} : p \notin Fated(k, q) /\ Victim(k, p) \notin Fated(k, q)
  BY <1>3 DEF Sound, KillersWait
<1>5. InGap(m.sch, p)
  BY <1>2, <1>3, <1>4 DEF GapsPass
<1>6. ASSUME NEW q \in Killers(k)
      PROVE  Fated(m, q) = Fated(k, q)
  <2>1. Victim(k, q) \in Pids /\ Victim(m, q) = Victim(k, q)
    BY VictimIsAProcess DEF Sound, SameTree, Victim
  <2>2. doomed_in(m, Victim(k, q)) = doomed_in(k, Victim(k, q))
    BY <2>1, SameDoomed DEF SameTree
  <2> QED
    BY <2>1, <2>2 DEF Fated
<1>7. Victim(m, p) = Victim(k, p)
  BY DEF SameTree, Victim
<1> QED
  BY <1>4, <1>5, <1>6, <1>7 DEF SameTree

-----------------------------------------------------------------------------
(* A record with another scheduler's record.                               *)
Turned(k, T, R, h, m) == m = [k EXCEPT !.sch = T, !.receiving = R, !.prhasmsg = h]

TurnedFields(k, T, R, h, m) ==
  /\ IsCascade(m) /\ m.sch = T /\ m.receiving = R /\ m.prhasmsg = h
  /\ m.prparent = k.prparent /\ m.user_process = k.user_process
  /\ m.kills = k.kills /\ m.prcount = k.prcount /\ m.nextpid = k.nextpid

LEMMA SchedChanges ==
  ASSUME NEW k, IsCascade(k), NEW T, NEW R \in SUBSET Pids, NEW h \in [Pids -> BOOLEAN],
         NEW m, Turned(k, T, R, h, m)
  PROVE  TurnedFields(k, T, R, h, m)
BY DEF IsCascade, Turned, TurnedFields

(* Who is eligible before and after a turn is alive before and after.      *)
LEMMA TurnsSpareAll ==
  ASSUME NEW S, NEW T, NEW P, Turns(P, S, T),
         \A p \in P \cap Pids : S.prstate[p] # "FREE" /\ T.prstate[p] # "FREE"
  PROVE  \A p \in Pids : T.prstate[p] = "FREE" <=> S.prstate[p] = "FREE"
BY DEF Turns, Eligible

(* Who waits, is free or suspended does so after a turn of others.         *)
LEMMA TurnsStates ==
  ASSUME NEW S, NEW T, NEW P, Turns(P, S, T), NEW st \in {"FREE", "SUSP", "RECV"}
  PROVE  \A p \in Pids \ P : T.prstate[p] = st <=> S.prstate[p] = st
BY DEF Turns, Eligible

LEMMA CallerFacts ==
  ASSUME NEW k, NEW r, Sound(k, r), NEW c, c = k.sch.currpid
  PROVE  /\ c \in Pids /\ k.sch.prstate[c] = "CURR" /\ c \in Live(k)
         /\ k.kills[c] = << >> => c \notin Killers(k)
<1>1. c \in Pids /\ k.sch.prstate[c] = "CURR"
  BY FifoFields DEF Sound, Fifo
<1> QED
  BY <1>1 DEF Live, Killers

LEMMA YieldSound ==
  ASSUME NEW r, Sound(cascade, r), tree_yield
  PROVE  Sound(cascade', r)
<1>1. PICK k, m : k = cascade /\ m = cascade'
  OBVIOUS
<1>2. PICK S, T : S = k.sch /\ T = resched(S)
  OBVIOUS
<1>3. S.currpid # NULLPROC /\ k.kills[S.currpid] = << >> /\ m = [k EXCEPT !.sch = T] /\ Sound(k, r)
  BY <1>1, <1>2 DEF tree_yield, tree_call, tree_Running, InKill
<1>4. Fifo(S) /\ IsCascade(k) /\ MainReceives(k)
  BY <1>2, <1>3 DEF Sound
<1>5. Fifo(T) /\ Turns({}, S, T) /\ GapsPass(S, T)
  BY <1>2, <1>3, <1>4, Rotates DEF Fifo
<1>6. Turned(k, T, k.receiving, k.prhasmsg, m)
  BY <1>3, <1>4 DEF IsCascade, Turned
<1>7. /\ IsCascade(m) /\ m.sch = T /\ m.receiving = k.receiving
      /\ m.prparent = k.prparent /\ m.user_process = k.user_process
      /\ m.kills = k.kills /\ m.prcount = k.prcount
  <2>1. k.prhasmsg \in [Pids -> BOOLEAN] /\ k.receiving \in SUBSET Pids
    BY <1>4, CascadeFields
  <2>2. TurnedFields(k, T, k.receiving, k.prhasmsg, m)
    BY <1>4, <1>6, <2>1, SchedChanges
  <2> QED
    BY <2>2 DEF TurnedFields
<1>8. SameTree(k, m)
  <2>1. \A p \in Pids : T.prstate[p] = "FREE" <=> S.prstate[p] = "FREE"
    BY <1>5, TurnsSpareAll
  <2> QED
    BY <1>2, <1>7, <2>1 DEF SameTree
<1>9. \A p \in Pids : /\ T.prstate[p] = "RECV" <=> S.prstate[p] = "RECV"
                      /\ T.prstate[p] = "FREE" <=> S.prstate[p] = "FREE"
                      /\ T.prstate[p] = "SUSP" <=> S.prstate[p] = "SUSP"
  BY <1>5, TurnsStates
<1>10. MainReceives(m)
  BY <1>2, <1>4, <1>7, <1>9 DEF MainReceives
<1>11. KillersWait(m)
  <2>1. k.sch.currpid \notin Killers(k)
    BY <1>2, <1>3, CallerFacts
  <2> QED
    BY <1>2, <1>3, <1>5, <1>7, <1>8, <2>1, WaitStays
<1>13. Sound(m, r)
  BY <1>3, <1>5, <1>7, <1>8, <1>10, <1>11, TurnSound
<1> QED
  BY <1>1, <1>13

LEMMA ResumeSound ==
  ASSUME NEW r, Sound(cascade, r), NEW p \in Children, tree_resume(p)
  PROVE  Sound(cascade', r)
<1>1. PICK k, m : k = cascade /\ m = cascade'
  OBVIOUS
<1>2. PICK S, T : S = k.sch /\ T = ready(S, p)
  OBVIOUS
<1>3. /\ S.currpid # NULLPROC /\ k.kills[S.currpid] = << >> /\ m = [k EXCEPT !.sch = T] /\ Sound(k, r)
      /\ S.prstate[p] = "SUSP" /\ p \in Pids \ {NULLPROC}
  BY <1>1, <1>2 DEF tree_resume, tree_call, tree_Running, InKill, Children
<1>4. Fifo(S) /\ IsCascade(k) /\ MainReceives(k)
  BY <1>2, <1>3 DEF Sound
<1>5. Fifo(T) /\ Turns({p}, S, T) /\ GapsPass(S, T) /\ T.prstate[p] \in Eligible
  <2>1. S.prstate[p] \in {"SUSP", "RECV"}
    BY <1>3
  <2> QED
    BY <1>2, <1>3, <1>4, <2>1, ReadyTurns
<1>6. Turned(k, T, k.receiving, k.prhasmsg, m)
  BY <1>3, <1>4 DEF IsCascade, Turned
<1>7. /\ IsCascade(m) /\ m.sch = T /\ m.receiving = k.receiving
      /\ m.prparent = k.prparent /\ m.user_process = k.user_process
      /\ m.kills = k.kills /\ m.prcount = k.prcount
  <2>1. k.prhasmsg \in [Pids -> BOOLEAN] /\ k.receiving \in SUBSET Pids
    BY <1>4, CascadeFields
  <2>2. TurnedFields(k, T, k.receiving, k.prhasmsg, m)
    BY <1>4, <1>6, <2>1, SchedChanges
  <2> QED
    BY <2>2 DEF TurnedFields
<1>8. SameTree(k, m)
  <2>1. S.prstate[p] # "FREE" /\ T.prstate[p] # "FREE"
    BY <1>3, <1>5 DEF Eligible
  <2>2. \A c \in Pids : T.prstate[c] = "FREE" <=> S.prstate[c] = "FREE"
    BY <1>5, <2>1, TurnsSpareAll
  <2> QED
    BY <1>2, <1>7, <2>2 DEF SameTree
<1>9. \A c \in Pids \ {p} : /\ T.prstate[c] = "RECV" <=> S.prstate[c] = "RECV"
                            /\ T.prstate[c] = "FREE" <=> S.prstate[c] = "FREE"
                            /\ T.prstate[c] = "SUSP" <=> S.prstate[c] = "SUSP"
  BY <1>5, TurnsStates
<1>10. MainReceives(m)
  <2>1. T.prstate[p] # "RECV"
    BY <1>5 DEF Eligible
  <2> QED
    BY <1>2, <1>4, <1>7, <1>9, <2>1 DEF MainReceives
<1>11. KillersWait(m)
  <2>1. k.sch.currpid \notin Killers(k)
    BY <1>2, <1>3, CallerFacts
  <2> QED
    BY <1>2, <1>3, <1>5, <1>7, <1>8, <2>1, WaitStays
<1>13. Sound(m, r)
  BY <1>3, <1>5, <1>7, <1>8, <1>10, <1>11, TurnSound
<1> QED
  BY <1>1, <1>13

(* receive, by main only, of a message or to wait for one.                 *)
LEMMA ReceiveSound ==
  ASSUME Receivers \subseteq {Root}, NEW r, Sound(cascade, r), tree_receive
  PROVE  Sound(cascade', r)
<1>1. PICK k, m : k = cascade /\ m = cascade'
  OBVIOUS
<1>2. PICK S : S = k.sch
  OBVIOUS
<1>3. /\ S.currpid = Root /\ Root # NULLPROC /\ k.kills[Root] = << >> /\ Sound(k, r)
      /\ m = IF k.prhasmsg[Root]
             THEN [k EXCEPT !.prhasmsg[Root] = FALSE]
             ELSE [k EXCEPT !.sch = block(S, "RECV"), !.receiving = k.receiving \cup {Root}]
  BY <1>1, <1>2 DEF tree_receive, tree_call, tree_Running, InKill, Root, NULLPROC
<1>4. Fifo(S) /\ IsCascade(k) /\ MainReceives(k) /\ Root \notin Killers(k) /\ Root \in Pids
  BY <1>2, <1>3, CallerFacts, RootIsAProcess DEF Sound
<1>5. CASE k.prhasmsg[Root]
  <2>1. PICK h : h = [k.prhasmsg EXCEPT ![Root] = FALSE]
    OBVIOUS
  <2>2. Turned(k, S, k.receiving, h, m)
    BY <1>2, <1>3, <1>4, <1>5, <2>1 DEF IsCascade, Turned
  <2>3. h \in [Pids -> BOOLEAN] /\ k.receiving \in SUBSET Pids
    BY <1>4, <2>1, CascadeFields
  <2>4. /\ IsCascade(m) /\ m.sch = S /\ m.receiving = k.receiving
        /\ m.prparent = k.prparent /\ m.user_process = k.user_process
        /\ m.kills = k.kills /\ m.prcount = k.prcount
    BY <1>4, <2>2, <2>3, SchedChanges DEF TurnedFields
  <2>5. SameTree(k, m) /\ MainReceives(m)
    BY <1>2, <1>4, <2>4 DEF SameTree, MainReceives
  <2>6. KillersWait(m)
    BY <1>2, <1>3, <1>4, <2>4, <2>5, WaitStays
  <2>7. Sound(m, r)
    BY <1>3, <1>4, <2>4, <2>5, <2>6, TurnSound
  <2> QED
    BY <1>1, <2>7
<1>6. CASE ~k.prhasmsg[Root]
  <2>1. PICK T, R : T = block(S, "RECV") /\ R = k.receiving \cup {Root}
    OBVIOUS
  <2>2. Turned(k, T, R, k.prhasmsg, m)
    BY <1>3, <1>4, <1>6, <2>1 DEF IsCascade, Turned
  <2>3. k.prhasmsg \in [Pids -> BOOLEAN] /\ R \in SUBSET Pids
    BY <1>4, <2>1, CascadeFields
  <2>4. /\ IsCascade(m) /\ m.sch = T /\ m.receiving = R
        /\ m.prparent = k.prparent /\ m.user_process = k.user_process
        /\ m.kills = k.kills /\ m.prcount = k.prcount
    BY <1>4, <2>2, <2>3, SchedChanges DEF TurnedFields
  <2>5. Fifo(T) /\ Turns({Root}, S, T) /\ T.prstate[Root] = "RECV" /\ GapsPass(S, T)
    <3>1. "RECV" \in {"RECV", "FREE"}
      OBVIOUS
    <3> QED
      BY <1>3, <1>4, <2>1, <3>1, BlockTurns
  <2>6. SameTree(k, m)
    <3>1. S.prstate[Root] # "FREE"
      BY <1>2, <1>3, CallerFacts
    <3>2. \A c \in Pids : T.prstate[c] = "FREE" <=> S.prstate[c] = "FREE"
      BY <2>5, <3>1, TurnsSpareAll
    <3> QED
      BY <1>2, <2>4, <3>2 DEF SameTree
  <2>7. \A c \in Pids \ {Root} : /\ T.prstate[c] = "RECV" <=> S.prstate[c] = "RECV"
                                 /\ T.prstate[c] = "FREE" <=> S.prstate[c] = "FREE"
                                 /\ T.prstate[c] = "SUSP" <=> S.prstate[c] = "SUSP"
    BY <2>5, TurnsStates
  <2>8. MainReceives(m)
    BY <1>2, <1>4, <2>1, <2>4, <2>7 DEF MainReceives
  <2>9. KillersWait(m)
    BY <1>2, <1>3, <1>4, <2>4, <2>5, <2>6, WaitStays
  <2>11. Sound(m, r)
    BY <1>3, <2>4, <2>5, <2>6, <2>8, <2>9, TurnSound
  <2> QED
    BY <1>1, <2>11
<1> QED
  BY <1>5, <1>6

LEMMA ReceivedSound ==
  ASSUME NEW r, Sound(cascade, r), tree_received
  PROVE  Sound(cascade', r)
<1>1. PICK k, m : k = cascade /\ m = cascade'
  OBVIOUS
<1>2. PICK S, c, h, R : /\ S = k.sch /\ c = S.currpid /\ R = k.receiving \ {c}
                        /\ h = [k.prhasmsg EXCEPT ![c] = FALSE]
  OBVIOUS
<1>3. Sound(k, r) /\ IsCascade(k) /\ Fifo(S) /\ MainReceives(k)
  BY <1>1, <1>2 DEF Sound
<1>4. Turned(k, S, R, h, m)
  BY <1>1, <1>2, <1>3 DEF tree_received, tree_Running, IsCascade, Turned
<1>5. h \in [Pids -> BOOLEAN] /\ R \in SUBSET Pids
  BY <1>2, <1>3, CascadeFields
<1>6. /\ IsCascade(m) /\ m.sch = S /\ m.receiving = R
      /\ m.prparent = k.prparent /\ m.user_process = k.user_process
      /\ m.kills = k.kills /\ m.prcount = k.prcount
  BY <1>3, <1>4, <1>5, SchedChanges DEF TurnedFields
<1>7. SameTree(k, m) /\ MainReceives(m)
  BY <1>2, <1>3, <1>6 DEF SameTree, MainReceives
<1>8. KillersWait(m)
  BY <1>2, <1>3, <1>6, <1>7, WaitStays
<1>10. Sound(m, r)
  BY <1>2, <1>3, <1>6, <1>7, <1>8, TurnSound
<1> QED
  BY <1>1, <1>10

-----------------------------------------------------------------------------
(* The family of a victim: alive, without main and the null process.       *)
LEMMA FatedFacts ==
  ASSUME 1 \in Shells, NEW k, NEW r, Sound(k, r), NEW v \in Live(k) \ {NULLPROC, Root}
  PROVE  /\ v \in doomed_in(k, v) /\ Closed(k, doomed_in(k, v))
         /\ doomed_in(k, v) \subseteq Live(k) \ {NULLPROC, Root}
<1>1. v \in Pids /\ v \in Children /\ k.sch.prstate[v] # "FREE"
  BY DEF Live, Children
<1>2. PICK D, E : D = doomed_in(k, v) /\ E = D \ {Root}
  OBVIOUS
<1>3. v \in D /\ Closed(k, D) /\ D \subseteq Pids
  BY <1>1, <1>2, DoomedIsClosed
<1>4. \A c \in D : c \in Children /\ k.sch.prstate[c] # "FREE"
  BY <1>1, <1>2, DoomedAreAlive
<1>5. ~k.user_process[k.prparent[Root]]
  BY DEF Sound, TreeSound
<1>6. Closed(k, E)
  BY <1>2, <1>3, <1>5 DEF Closed, Joined
<1>7. D \subseteq E
  BY <1>1, <1>2, <1>3, <1>6, DoomedIsLeast
<1> QED
  BY <1>2, <1>3, <1>4, <1>7 DEF Live, Children

LEMMA KillerFacts ==
  ASSUME 1 \in Shells, NEW k, NEW r, Sound(k, r), NEW q \in Killers(k)
  PROVE  /\ q \in Live(k) \ {NULLPROC} /\ q \in Pids
         /\ Victim(k, q) \in Live(k) \ {NULLPROC, Root} /\ Victim(k, q) \in Pids
         /\ Victim(k, q) \in Fated(k, q) /\ Closed(k, Fated(k, q))
         /\ Fated(k, q) \subseteq Live(k) \ {NULLPROC, Root}
         /\ Fated(k, q) = doomed_in(k, Victim(k, q))
<1>1. KillSound(k, r, q) /\ IsCascade(k)
  BY DEF Sound, KillsSound
<1>2. q \in Live(k) \ {NULLPROC} /\ FramesSound(k, r, Fated(k, q), k.kills[q])
  BY <1>1 DEF KillSound
<1>3. 1 \in 1 .. Len(k.kills[q])
  BY <1>1, VictimIsAProcess
<1>4. Victim(k, q) \in Live(k) \ {NULLPROC, Root}
  BY <1>2, <1>3 DEF FramesSound, Victim
<1> QED
  BY <1>2, <1>4, FatedFacts DEF Fated, Live

(* The search of newpid ends at a free entry.                              *)
LEMMA NewpidIsFree ==
  ASSUME NEW k, k.nextpid \in Pids, NEW x \in Pids, k.sch.prstate[x] = "FREE"
  PROVE  newpid(k) \in Pids /\ k.sch.prstate[newpid(k)] = "FREE"
<1>1. PICK n, at, I : /\ n = NPROC /\ at = k.nextpid
                      /\ I = {j \in 0 .. n - 1 : k.sch.prstate[(at + j) % n] = "FREE"}
  OBVIOUS
<1>2. n \in Nat \ {0} /\ at \in 0 .. n - 1 /\ x \in 0 .. n - 1
  BY <1>1, SchedAssumption DEF Pids
<1>3. \A y \in 0 .. n - 1 : y % n = y /\ (y + n) % n = y
  BY <1>2
<1>4. I # {}
  <2>1. PICK i : i = IF x >= at THEN x - at ELSE x - at + n
    OBVIOUS
  <2>2. i \in 0 .. n - 1 /\ (at + i = x \/ at + i = x + n)
    BY <1>2, <2>1
  <2>3. (at + i) % n = x
    BY <1>2, <1>3, <2>2
  <2> QED
    BY <1>1, <2>2, <2>3
<1>5. Min(I) \in I
  <2>1. I \in SUBSET Nat
    BY <1>1, <1>2
  <2> QED
    BY <1>4, <2>1, MinOfNaturals
<1>6. newpid(k) = (at + Min(I)) % n
  BY <1>1 DEF newpid
<1>7. PICK j : j = Min(I) /\ j \in 0 .. n - 1 /\ k.sch.prstate[(at + j) % n] = "FREE"
  BY <1>1, <1>5
<1>8. (at + j) % n \in 0 .. n - 1
  BY <1>2, <1>7
<1> QED
  BY <1>1, <1>6, <1>7, <1>8 DEF Pids

(* The calls of kill when p is no more the one that was doomed.             *)
Forgotten(F, p) == IF F = << >> THEN << >> ELSE [F EXCEPT ![1].doomed = @ \ {p}]

LEMMA ForgottenFrames ==
  ASSUME NEW F \in Seq(KillFrames), NEW p, NEW G, G = Forgotten(F, p)
  PROVE  /\ G \in Seq(KillFrames) /\ Len(G) = Len(F) /\ (G = << >> <=> F = << >>)
         /\ \A j \in 1 .. Len(F) : G[j].pid = F[j].pid /\ G[j].i = F[j].i
         /\ F # << >> => G[1].doomed = F[1].doomed \ {p}
<1>1. CASE F = << >>
  BY <1>1 DEF Forgotten
<1>2. CASE F # << >>
  <2>1. PICK n, A : n = Len(F) /\ A = [F[1] EXCEPT !.doomed = @ \ {p}]
    OBVIOUS
  <2>2. n \in Nat \ {0} /\ 1 \in 1 .. n /\ DOMAIN F = 1 .. n /\ \A j \in 1 .. n : F[j] \in KillFrames
    BY <1>2, <2>1
  <2>3. A \in KillFrames /\ A.pid = F[1].pid /\ A.i = F[1].i /\ A.doomed = F[1].doomed \ {p}
    BY <2>1, <2>2 DEF KillFrames
  <2>4. G = [F EXCEPT ![1] = A]
    BY <1>2, <2>1 DEF Forgotten
  <2>5. G \in Seq(KillFrames) /\ Len(G) = n /\ G # << >>
    BY <2>1, <2>2, <2>3, <2>4
  <2>6. \A j \in 1 .. n : G[j] = IF j = 1 THEN A ELSE F[j]
    BY <2>2, <2>4
  <2> QED
    BY <1>2, <2>1, <2>2, <2>3, <2>5, <2>6
<1> QED
  BY <1>1, <1>2

(* The fields of the record with a new process.                            *)
NewFields(k, p, prio, m) ==
  /\ IsCascade(m)
  /\ Newcomer(k.sch, p, prio, m.sch)
  /\ m.prparent = [k.prparent EXCEPT ![p] = k.sch.currpid]
  /\ m.user_process = [k.user_process EXCEPT ![p] = p \notin Shells]
  /\ m.prcount = k.prcount + 1
  /\ m.receiving = k.receiving \ {p}
  /\ m.kills = forget(k.kills, p)

LEMMA NewProcessFields ==
  ASSUME NEW k, IsCascade(k), IsSched(k.sch), NEW p \in Pids,
         NEW prio, NEW m, m = new_process(k, p, prio)
  PROVE  NewFields(k, p, prio, m)
<1>1. k.sch.currpid \in Pids
  BY SchedFields
<1>2. (p + 1) % NPROC \in Pids
  BY SchedAssumption DEF Pids
<1>3. forget(k.kills, p) \in [Pids -> Seq(KillFrames)]
  <2>1. ASSUME NEW q \in Pids
        PROVE  (IF q = p \/ k.kills[q] = << >> THEN << >>
                ELSE [k.kills[q] EXCEPT ![1].doomed = @ \ {p}]) \in Seq(KillFrames)
    <3>1. k.kills[q] \in Seq(KillFrames)
      BY CascadeFields
    <3>2. Forgotten(k.kills[q], p) \in Seq(KillFrames)
      BY <3>1, ForgottenFrames
    <3> QED
      BY <3>2 DEF Forgotten
  <2> QED
    BY <2>1 DEF forget
<1>4. k.prcount + 1 \in Int
  BY CascadeFields
<1>5. PICK P, H, U, K : /\ P = [k.prparent EXCEPT ![p] = k.sch.currpid]
                        /\ H = [k.prhasmsg EXCEPT ![p] = FALSE]
                        /\ U = [k.user_process EXCEPT ![p] = p \notin Shells]
                        /\ K = forget(k.kills, p)
  OBVIOUS
<1>6. P \in [Pids -> Pids] /\ H \in [Pids -> BOOLEAN] /\ K \in [Pids -> Seq(KillFrames)]
  BY <1>1, <1>3, <1>5, CascadeFields
<1>7. U \in [Pids -> BOOLEAN]
  BY <1>5, CascadeFields
<1>8. k.receiving \ {p} \in SUBSET Pids
  BY CascadeFields
<1>9. PICK T : T = [k.sch EXCEPT !.prstate[p] = "SUSP", !.prprio[p] = prio]
  OBVIOUS
<1>10. /\ m.sch = T /\ m.prparent = P /\ m.prhasmsg = H /\ m.user_process = U
       /\ m.prcount = k.prcount + 1 /\ m.nextpid = (p + 1) % NPROC
       /\ m.receiving = k.receiving \ {p} /\ m.kills = K
       /\ m = [sch |-> m.sch, prparent |-> m.prparent, prhasmsg |-> m.prhasmsg,
               user_process |-> m.user_process, prcount |-> m.prcount, nextpid |-> m.nextpid,
               receiving |-> m.receiving, kills |-> m.kills]
  BY <1>5, <1>9 DEF new_process, IsCascade, IsSched, SchedRecords
<1>11. IsCascade(m)
  BY <1>2, <1>4, <1>6, <1>7, <1>8, <1>10 DEF IsCascade
<1> QED
  BY <1>5, <1>9, <1>10, <1>11 DEF NewFields, Newcomer

(* The tables with a new process, one entry at a time.                     *)
LEMMA NewEntries ==
  ASSUME NEW k, NEW r, Sound(k, r), NEW p \in Children, k.sch.prstate[p] = "FREE",
         NEW prio, NEW m, NewFields(k, p, prio, m), NEW c, c = k.sch.currpid
  PROVE  /\ p \in Pids \ {NULLPROC, Root, c} /\ p \notin Live(k)
         /\ Live(m) = Live(k) \cup {p} /\ Killers(m) = Killers(k) /\ p \notin Killers(k)
         /\ \A q \in Pids \ {p} : /\ m.sch.prstate[q] = k.sch.prstate[q]
                                  /\ m.prparent[q] = k.prparent[q]
                                  /\ m.user_process[q] = k.user_process[q]
                                  /\ m.kills[q] = Forgotten(k.kills[q], p)
         /\ m.sch.prstate[p] = "SUSP" /\ m.prparent[p] = c /\ (m.user_process[p] <=> p \notin Shells)
<1>1. IsCascade(k) /\ Fifo(k.sch) /\ IsSched(k.sch) /\ Root \in Live(k)
  BY DEF Sound, Fifo, InLine, SchedOK, Coherent, TreeSound
<1>2. p \in Pids \ {NULLPROC} /\ p \notin Live(k) /\ p # Root
  BY <1>1 DEF Live, Children
<1>3. c \in Live(k)
  BY CallerFacts
<1>4. \A q \in Pids \ {p} : /\ m.sch.prstate[q] = k.sch.prstate[q]
                            /\ m.prparent[q] = k.prparent[q]
                            /\ m.user_process[q] = k.user_process[q]
                            /\ m.kills[q] = Forgotten(k.kills[q], p)
  <2>1. m.sch.prstate = [k.sch.prstate EXCEPT ![p] = "SUSP"]
    BY <1>1 DEF NewFields, Newcomer, IsSched, SchedRecords
  <2>2. k.sch.prstate \in [Pids -> PrStates]
    BY <1>1, FifoFields DEF Fifo
  <2>3. /\ k.prparent \in [Pids -> Pids] /\ k.user_process \in [Pids -> BOOLEAN]
        /\ k.kills \in [Pids -> Seq(KillFrames)]
    BY <1>1, CascadeFields
  <2>4. \A q \in Pids \ {p} : m.kills[q] = Forgotten(k.kills[q], p)
    BY DEF NewFields, forget, Forgotten
  <2> QED
    BY <1>2, <2>1, <2>2, <2>3, <2>4 DEF NewFields
<1>5. m.sch.prstate[p] = "SUSP" /\ m.prparent[p] = c /\ (m.user_process[p] <=> p \notin Shells)
      /\ m.kills[p] = << >>
  <2>1. m.sch.prstate = [k.sch.prstate EXCEPT ![p] = "SUSP"]
    BY <1>1 DEF NewFields, Newcomer, IsSched, SchedRecords
  <2>2. k.sch.prstate \in [Pids -> PrStates]
    BY <1>1, FifoFields DEF Fifo
  <2>3. /\ k.prparent \in [Pids -> Pids] /\ k.user_process \in [Pids -> BOOLEAN]
        /\ k.kills \in [Pids -> Seq(KillFrames)]
    BY <1>1, CascadeFields
  <2>4. m.sch.prstate[p] = "SUSP"
    BY <1>2, <2>1, <2>2
  <2>5. m.prparent[p] = c /\ m.kills[p] = << >>
    BY <1>2, <2>3 DEF NewFields, forget
  <2>6. m.user_process[p] <=> p \notin Shells
    BY <1>2, <2>3, Zenon DEF NewFields
  <2> QED
    BY <2>4, <2>5, <2>6
<1>6. Live(m) = Live(k) \cup {p}
  BY <1>2, <1>4, <1>5 DEF Live
<1>7. p \notin Killers(k)
  <2>1. ASSUME p \in Killers(k) PROVE FALSE
    <3>1. KillSound(k, r, p)
      BY <2>1 DEF Sound, KillsSound
    <3> QED
      BY <1>2, <3>1 DEF KillSound
  <2> QED
    BY <2>1
<1>8. Killers(m) = Killers(k)
  <2>1. ASSUME NEW q \in Pids \ {p}
        PROVE  m.kills[q] = << >> <=> k.kills[q] = << >>
    <3>1. k.kills[q] \in Seq(KillFrames)
      BY <1>1, CascadeFields
    <3> QED
      BY <1>4, <3>1, ForgottenFrames
  <2> QED
    BY <1>5, <1>7, <2>1 DEF Killers
<1> QED
  BY <1>2, <1>3, <1>4, <1>5, <1>6, <1>7, <1>8

(* The new process joins the family of who made it, and no other.          *)
LEMMA NewInFamily ==
  ASSUME 1 \in Shells, NEW k, NEW r, Sound(k, r), NEW p \in Children, k.sch.prstate[p] = "FREE",
         NEW prio, NEW m, NewFields(k, p, prio, m), NEW v \in Live(k) \ {NULLPROC, Root}
  PROVE  /\ doomed_in(k, v) \subseteq doomed_in(m, v)
         /\ doomed_in(m, v) \subseteq doomed_in(k, v) \cup {p}
         /\ k.sch.currpid \notin doomed_in(k, v) => doomed_in(m, v) \subseteq doomed_in(k, v)
<1>1. PICK c, D, E : c = k.sch.currpid /\ D = doomed_in(k, v) /\ E = doomed_in(m, v)
  OBVIOUS
<1>2. /\ p \in Pids \ {NULLPROC, Root, c} /\ p \notin Live(k)
      /\ Live(m) = Live(k) \cup {p}
      /\ \A q \in Pids \ {p} : /\ m.sch.prstate[q] = k.sch.prstate[q]
                               /\ m.prparent[q] = k.prparent[q]
                               /\ m.user_process[q] = k.user_process[q]
      /\ m.sch.prstate[p] = "SUSP" /\ m.prparent[p] = c
  BY <1>1, NewEntries
<1>3. v \in Pids /\ v \in D /\ Closed(k, D) /\ D \subseteq Live(k) \ {NULLPROC, Root}
  BY <1>1, FatedFacts DEF Live
<1>4. v \in E /\ Closed(m, E)
  BY <1>1, <1>3, DoomedIsClosed
<1>5. ASSUME NEW d \in Children \ {p}, k.sch.prstate[d] # "FREE", k.user_process[k.prparent[d]]
      PROVE  k.prparent[d] \in Pids \ {p}
  <2>1. d \in Live(k) \ {NULLPROC}
    BY <1>5 DEF Live, Children
  <2>2. d # Root
    BY <1>5 DEF Sound, TreeSound
  <2>3. k.prparent[d] \in Live(k)
    BY <2>1, <2>2 DEF Sound, TreeSound
  <2> QED
    BY <1>2, <2>3 DEF Live
<1>6. ASSUME NEW d \in Children \ {p}, m.sch.prstate[d] # "FREE", m.user_process[m.prparent[d]]
      PROVE  k.prparent[d] \in Pids \ {p} /\ k.sch.prstate[d] # "FREE" /\ k.user_process[k.prparent[d]]
  <2>1. d \in Live(k) \ {NULLPROC} /\ m.prparent[d] = k.prparent[d]
    BY <1>2, <1>6 DEF Live, Children
  <2>2. CASE d = Root
    <3>1. k.prparent[d] = 1 /\ ~k.user_process[1] /\ ~m.user_process[1]
      <4>1. k.prparent[d] = 1 /\ ~k.user_process[1]
        BY <2>2 DEF Sound, TreeSound
      <4>2. 1 \in Pids
        BY RootIsAProcess DEF Children
      <4>3. ~m.user_process[1]
        <5>1. p = 1 => ~m.user_process[1]
          BY NewEntries
        <5> QED
          BY <1>2, <4>1, <4>2, <5>1
      <4> QED
        BY <4>1, <4>3
    <3> QED
      BY <1>6, <2>1, <3>1
  <2>3. CASE d # Root
    <3>1. k.prparent[d] \in Live(k)
      BY <2>1, <2>3 DEF Sound, TreeSound
    <3>2. k.prparent[d] \in Pids \ {p}
      BY <1>2, <3>1 DEF Live
    <3> QED
      BY <1>2, <1>6, <2>1, <3>2 DEF Live
  <2> QED
    BY <2>2, <2>3
<1>7. D \subseteq E
  <2>1. ASSUME NEW d \in Children, k.sch.prstate[d] # "FREE", k.prparent[d] \in E,
               k.user_process[k.prparent[d]]
        PROVE  d \in E
    <3>1. d # p
      BY <1>2, <2>1 DEF Live, Children
    <3>2. k.prparent[d] \in Pids \ {p}
      BY <1>5, <2>1, <3>1
    <3>3. m.sch.prstate[d] # "FREE" /\ m.prparent[d] \in E /\ m.user_process[m.prparent[d]]
      BY <1>2, <2>1, <3>1, <3>2 DEF Children
    <3> QED
      BY <1>4, <3>3 DEF Closed, Joined
  <2>2. Closed(k, E)
    BY <2>1 DEF Closed, Joined
  <2> QED
    BY <1>1, <1>3, <1>4, <2>2, DoomedIsLeast
<1>8. ASSUME NEW d \in Children \ {p}, m.sch.prstate[d] # "FREE", m.prparent[d] \in D \cup {p},
             m.user_process[m.prparent[d]]
      PROVE  d \in D
  <2>1. k.prparent[d] \in Pids \ {p} /\ k.sch.prstate[d] # "FREE" /\ k.user_process[k.prparent[d]]
    BY <1>6, <1>8
  <2>2. k.prparent[d] \in D
    BY <1>2, <1>8, <2>1 DEF Children
  <2> QED
    BY <1>3, <2>1, <2>2 DEF Closed, Joined
<1>9. E \subseteq D \cup {p}
  <2>1. Closed(m, D \cup {p})
    BY <1>8 DEF Closed, Joined
  <2> QED
    BY <1>1, <1>3, <2>1, DoomedIsLeast
<1>10. ASSUME c \notin D
       PROVE  E \subseteq D
  <2>1. Closed(m, D)
    BY <1>2, <1>8, <1>10 DEF Closed, Joined
  <2> QED
    BY <1>1, <1>3, <2>1, DoomedIsLeast
<1> QED
  BY <1>1, <1>7, <1>9, <1>10

LEMMA LiveFinite ==
  ASSUME NEW k
  PROVE  IsFiniteSet(Live(k)) /\ Cardinality(Live(k)) \in Nat
<1>1. IsFiniteSet(Pids)
  BY SchedAssumption, FS_Interval DEF Pids
<1>2. Live(k) \in SUBSET Pids
  BY DEF Live
<1> QED
  BY <1>1, <1>2, FS_Subset, FS_CardinalityType

LEMMA VictimsFinite ==
  ASSUME NEW k, IsCascade(k)
  PROVE  /\ Victims(k) \subseteq Pids /\ IsFiniteSet(Victims(k))
         /\ Cardinality(Victims(k)) \in Nat
<1>1. ASSUME NEW q \in Killers(k), NEW i \in 1 .. Len(k.kills[q])
      PROVE  k.kills[q][i].pid \in Pids
  <2>1. \A j \in 1 .. Len(k.kills[q]) : k.kills[q][j].pid \in Children
    BY VictimIsAProcess
  <2> QED
    BY <2>1 DEF Children
<1>2. PICK V : V = Victims(k)
  OBVIOUS
<1>3. V \in SUBSET Pids
  BY <1>1, <1>2 DEF Victims
<1>4. IsFiniteSet(Pids)
  BY SchedAssumption, FS_Interval DEF Pids
<1>5. IsFiniteSet(V)
  BY <1>3, <1>4, FS_Subset
<1> QED
  BY <1>2, <1>3, <1>5, FS_CardinalityType

(* create, up to where fork differs.                                       *)
LEMMA NewProcessSound ==
  ASSUME 1 \in Shells, NEW k, NEW r \in [Pids -> Nat], Sound(k, r),
         NEW p \in Children, k.sch.prstate[p] = "FREE",
         NEW prio, AtLeastMain(prio), NEW m, m = new_process(k, p, prio),
         k.sch.currpid # NULLPROC, k.sch.currpid \notin Killers(k),
         k.sch.currpid = Root \/ k.user_process[k.sch.currpid]
  PROVE  \E s \in [Pids -> Nat] : Sound(m, s)
<1>1. PICK c, S, T : c = k.sch.currpid /\ S = k.sch /\ T = m.sch
  OBVIOUS
<1>2. IsCascade(k) /\ Fifo(S) /\ MainReceives(k) /\ TreeSound(k, r) /\ IsSched(S)
  BY <1>1 DEF Sound, Fifo, InLine, SchedOK, Coherent
<1>3. NewFields(k, p, prio, m)
  BY <1>1, <1>2, NewProcessFields DEF Children
<1>4. /\ p \in Pids \ {NULLPROC, Root, c} /\ p \notin Live(k)
      /\ Live(m) = Live(k) \cup {p} /\ Killers(m) = Killers(k) /\ p \notin Killers(k)
      /\ \A q \in Pids \ {p} : /\ m.sch.prstate[q] = k.sch.prstate[q]
                               /\ m.prparent[q] = k.prparent[q]
                               /\ m.user_process[q] = k.user_process[q]
                               /\ m.kills[q] = Forgotten(k.kills[q], p)
      /\ m.sch.prstate[p] = "SUSP" /\ m.prparent[p] = c /\ (m.user_process[p] <=> p \notin Shells)
  BY <1>1, <1>3, NewEntries
<1>5. c \in Live(k) /\ c \in Pids \ {NULLPROC} /\ (c = Root \/ k.user_process[c])
  BY <1>1, CallerFacts
<1>6. Fifo(T) /\ T.currpid = c /\ GapsStay(S, T)
  <2>1. Newcomer(S, p, prio, T)
    BY <1>1, <1>3 DEF NewFields
  <2>2. Fifo(S) /\ S.currpid # NULLPROC /\ p \in Pids \ {NULLPROC, Root} /\ S.prstate[p] = "FREE"
    BY <1>1, <1>2, <1>4
  <2> QED
    <3>1. Fifo(S) /\ S.currpid # NULLPROC /\ S.prstate[p] = "FREE"
      BY <2>2
    <3>2. p \in Pids \ {NULLPROC, Root}
      BY <2>2
    <3>3. Fifo(T) /\ GapsStay(S, T)
      BY <2>1, <3>1, <3>2, NewcomerWaits
    <3>4. T.currpid = S.currpid
      BY <1>2, <2>1 DEF Newcomer, IsSched, SchedRecords
    <3> QED
      BY <1>1, <3>3, <3>4
<1>7. PICK s : s = [r EXCEPT ![p] = r[c] + 1]
  OBVIOUS
<1>8. /\ s \in [Pids -> Nat] /\ s[p] = r[c] + 1 /\ r[c] \in Nat
      /\ \A q \in Pids \ {p} : s[q] = r[q]
  BY <1>4, <1>5, <1>7
<1>9. IsCascade(m) /\ MainReceives(m)
  <2>1. m.receiving \subseteq {Root}
    BY <1>2, <1>3 DEF NewFields, MainReceives
  <2>2. \A q \in Pids : m.sch.prstate[q] = "RECV" => q = Root
    BY <1>2, <1>4 DEF MainReceives
  <2> QED
    BY <1>3, <2>1, <2>2 DEF NewFields, MainReceives
<1>10. TreeSound(m, s)
  <2>1. Root \in Live(m) /\ m.prparent[Root] = 1
    BY <1>2, <1>4, RootIsAProcess DEF TreeSound
  <2>2. \A q \in Shells : ~m.user_process[q]
    BY <1>2, <1>4, CascadeAssumption DEF TreeSound
  <2>4. ASSUME NEW d \in Live(m) \ {NULLPROC, Root}
        PROVE  /\ m.prparent[d] \in Live(m) \ {NULLPROC}
               /\ m.prparent[d] = Root \/ m.user_process[m.prparent[d]]
               /\ d \notin Shells => m.user_process[d]
               /\ s[m.prparent[d]] < s[d]
    <3>1. CASE d = p
      <4>2. c = Root \/ m.user_process[c]
        BY <1>4, <1>5
      <4>3. m.prparent[d] = c /\ (d \notin Shells => m.user_process[d])
        BY <1>4, <3>1
      <4>4. s[c] = r[c] /\ s[d] = r[c] + 1
        BY <1>4, <1>5, <1>8, <3>1
      <4> QED
        BY <1>4, <1>5, <1>8, <4>2, <4>3, <4>4
    <3>2. CASE d # p
      <4>1. d \in Live(k) \ {NULLPROC, Root} /\ d \in Pids \ {p}
        BY <1>4, <2>4, <3>2 DEF Live
      <4>2. PICK u : u = k.prparent[d]
        OBVIOUS
      <4>3. /\ u \in Live(k) \ {NULLPROC} /\ (u = Root \/ k.user_process[u])
            /\ (d \notin Shells => k.user_process[d]) /\ r[u] < r[d]
        BY <1>2, <4>1, <4>2 DEF TreeSound
      <4>4. u \in Pids \ {p}
        BY <1>4, <4>3 DEF Live
      <4>5. m.prparent[d] = u /\ m.user_process[u] = k.user_process[u] /\ m.user_process[d] = k.user_process[d]
        BY <1>4, <4>1, <4>2, <4>4
      <4>6. s[u] < s[d]
        BY <1>8, <4>1, <4>3, <4>4
      <4> QED
        BY <1>4, <4>3, <4>5, <4>6
    <3> QED
      BY <3>1, <3>2
  <2> QED
    BY <2>1, <2>2, <2>4 DEF TreeSound
<1>11. ASSUME NEW q \in Killers(k)
       PROVE  /\ q \in Pids \ {p} /\ q # c
              /\ Len(m.kills[q]) = Len(k.kills[q]) /\ Victim(m, q) = Victim(k, q)
              /\ m.kills[q][1].doomed = k.kills[q][1].doomed \ {p}
              /\ \A j \in 1 .. Len(k.kills[q]) : /\ m.kills[q][j].pid = k.kills[q][j].pid
                                                /\ m.kills[q][j].i = k.kills[q][j].i
              /\ Fated(k, q) \subseteq Fated(m, q) /\ Fated(m, q) \subseteq Fated(k, q) \cup {p}
              /\ c \notin Fated(k, q) => Fated(m, q) \subseteq Fated(k, q)
  <2>1. q \in Pids \ {p} /\ q # c
    BY <1>1, <1>4, <1>11 DEF Killers
  <2>2. /\ Len(m.kills[q]) = Len(k.kills[q])
        /\ m.kills[q][1].doomed = k.kills[q][1].doomed \ {p}
        /\ \A j \in 1 .. Len(k.kills[q]) : /\ m.kills[q][j].pid = k.kills[q][j].pid
                                          /\ m.kills[q][j].i = k.kills[q][j].i
    <3>1. k.kills[q] \in Seq(KillFrames) /\ k.kills[q] # << >>
      BY <1>2, <1>11, VictimIsAProcess DEF Killers
    <3>2. m.kills[q] = Forgotten(k.kills[q], p)
      BY <1>4, <2>1
    <3> QED
      BY <3>1, <3>2, ForgottenFrames
  <2>3. Victim(m, q) = Victim(k, q)
    BY <1>2, <2>2, VictimIsAProcess DEF Victim
  <2>4. Victim(k, q) \in Live(k) \ {NULLPROC, Root}
    BY KillerFacts
  <2> QED
    BY <1>1, <1>3, <2>1, <2>2, <2>3, <2>4, NewInFamily DEF Fated
<1>12. ASSUME NEW q \in Killers(k)
       PROVE  /\ Len(k.kills[q]) = 1 /\ k.kills[q][1].i = 1
              /\ InGap(S, q)
              /\ \A x \in Killers(k) \ {q} : q \notin Fated(k, x) /\ Victim(k, q) \notin Fated(k, x)
  BY <1>1, <1>11 DEF Sound, KillersWait
<1>13. KillsSound(m, s)
  <2>1. ASSUME NEW q \in Killers(k)
        PROVE  KillSound(m, s, q)
    <3>1. KillSound(k, r, q) /\ q \in Live(m) \ {NULLPROC}
      BY <1>4 DEF Sound, KillsSound, KillSound
    <3>2. m.kills[q][1].doomed \cap Live(m) \subseteq Fated(m, q)
      BY <1>4, <1>11, <3>1 DEF KillSound
    <3>3. q \in Fated(m, q) => q = Victim(m, q)
      BY <1>11, <3>1 DEF KillSound
    <3>4. FramesSound(m, s, Fated(m, q), m.kills[q])
      <4>1. PICK E, F : E = k.kills[q] /\ F = m.kills[q]
        OBVIOUS
      <4>2. /\ Len(F) = 1 /\ F[1].i = 1 /\ Len(E) = 1 /\ F[1].pid = E[1].pid
            /\ FramesSound(k, r, Fated(k, q), E)
        BY <1>11, <1>12, <3>1, <4>1 DEF KillSound
      <4>3. \A j \in 1 .. Len(F) : j = 1
        BY <4>2
      <4>4. F[1].pid \in Live(k) \ {NULLPROC, Root} /\ F[1].pid \in Fated(k, q)
        <5>1. 1 \in 1 .. Len(E)
          BY <4>2
        <5> QED
          BY <4>2, <5>1 DEF FramesSound
      <4>5. \A d \in Live(m) \ {NULLPROC} : ~(d < F[1].i)
        BY <4>2, SchedAssumption DEF Live, Pids, NULLPROC
      <4>6. \A i, j \in 1 .. Len(F) : ~(i < j)
        BY <4>3
      <4>7. F[1].pid \in Live(m) \ {NULLPROC, Root} /\ F[1].pid \in Fated(m, q)
        BY <1>4, <1>11, <4>4
      <4> QED
        BY <4>1, <4>3, <4>5, <4>6, <4>7 DEF FramesSound
    <3> QED
      BY <1>11, <3>1, <3>2, <3>3, <3>4 DEF KillSound
  <2> QED
    BY <1>4, <2>1 DEF KillsSound
<1>15. KillersWait(m)
  <2>1. ASSUME NEW q \in Killers(k)
        PROVE  /\ Len(m.kills[q]) = 1 /\ m.kills[q][1].i = 1
               /\ InGap(m.sch, q)
               /\ \A x \in Killers(k) \ {q} : q \notin Fated(m, x) /\ Victim(m, q) \notin Fated(m, x)
    <3>1. InGap(m.sch, q)
      <4>1. q \in Pids \ {NULLPROC}
        BY KillerFacts
      <4> QED
        BY <1>1, <1>6, <1>12, <4>1 DEF GapsStay
    <3>2. Victim(m, q) # p
      BY <1>4, <1>11, KillerFacts
    <3>3. \A x \in Killers(k) \ {q} : q \notin Fated(m, x) /\ Victim(m, q) \notin Fated(m, x)
      BY <1>11, <1>12, <3>2
    <3>4. 1 \in 1 .. Len(k.kills[q])
      BY <1>12
    <3> QED
      BY <1>11, <1>12, <3>1, <3>3, <3>4
  <2> QED
    BY <1>4, <2>1 DEF KillersWait
<1>16. CountRight(m)
  <2>1. Victims(m) = Victims(k)
    <3>1. \A q \in Killers(k) : /\ Len(m.kills[q]) = Len(k.kills[q])
                               /\ \A j \in 1 .. Len(k.kills[q]) : m.kills[q][j].pid = k.kills[q][j].pid
      BY <1>11
    <3>2. Killers(m) = Killers(k)
      BY <1>4
    <3>3. ASSUME NEW x \in Victims(m)
          PROVE  x \in Victims(k)
      <4>1. PICK q \in Killers(k) : \E j \in 1 .. Len(m.kills[q]) : x = m.kills[q][j].pid
        BY <3>2, <3>3 DEF Victims
      <4>2. PICK j \in 1 .. Len(k.kills[q]) : x = k.kills[q][j].pid
        BY <3>1, <4>1
      <4> QED
        BY <4>1, <4>2 DEF Victims
    <3>4. ASSUME NEW x \in Victims(k)
          PROVE  x \in Victims(m)
      <4>1. PICK q \in Killers(k) : \E j \in 1 .. Len(k.kills[q]) : x = k.kills[q][j].pid
        BY <3>4 DEF Victims
      <4>2. PICK j \in 1 .. Len(m.kills[q]) : x = m.kills[q][j].pid
        BY <3>1, <4>1
      <4> QED
        BY <3>2, <4>1, <4>2 DEF Victims
    <3> QED
      BY <3>3, <3>4
  <2>2. Cardinality(Live(m)) = Cardinality(Live(k)) + 1 /\ Cardinality(Live(k)) \in Nat
    <3>1. PICK A : A = Live(k)
      OBVIOUS
    <3>2. IsFiniteSet(A) /\ Cardinality(A) \in Nat /\ p \notin A
      BY <1>4, <3>1, LiveFinite
    <3>3. Cardinality(A \cup {p}) = Cardinality(A) + 1
      BY <3>2, FS_AddElement
    <3> QED
      BY <1>4, <3>1, <3>2, <3>3
  <2>3. k.prcount = Cardinality(Live(k)) - Cardinality(Victims(k)) /\ m.prcount = k.prcount + 1
    BY <1>3 DEF Sound, CountRight, NewFields
  <2>4. PICK a, b : a = Cardinality(Live(k)) /\ b = Cardinality(Victims(k))
    OBVIOUS
  <2>5. b \in Int
    <3>1. Cardinality(Victims(k)) \in Nat
      BY <1>2, VictimsFinite
    <3> QED
      BY <2>4, <3>1
  <2> QED
    BY <2>1, <2>2, <2>3, <2>4, <2>5 DEF CountRight
<1>17. Sound(m, s)
  BY <1>1, <1>6, <1>9, <1>10, <1>13, <1>15, <1>16 DEF Sound
<1> QED
  BY <1>8, <1>17

(* Making a process, and readying it for fork.                             *)
LEMMA CanMakeFacts ==
  ASSUME ~SystemForks, NEW r, Sound(cascade, r), NEW p \in Children, can_make(p)
  PROVE  /\ cascade.sch.prstate[p] = "FREE" /\ cascade.sch.currpid # NULLPROC
         /\ cascade.sch.currpid \notin Killers(cascade)
         /\ cascade.sch.currpid = Root \/ cascade.user_process[cascade.sch.currpid]
<1>1. cascade.nextpid \in Pids
  BY CascadeFields DEF Sound
<1>2. PICK x \in Pids : cascade.sch.prstate[x] = "FREE"
  BY DEF can_make, IsLive
<1>3. cascade.sch.prstate[p] = "FREE"
  BY <1>1, <1>2, NewpidIsFree DEF can_make
<1>4. cascade.sch.currpid # NULLPROC /\ cascade.kills[cascade.sch.currpid] = << >>
  BY DEF can_make, tree_call, tree_Running, InKill
<1>5. cascade.sch.currpid = Root \/ cascade.user_process[cascade.sch.currpid]
  BY DEF can_make, tree_Running
<1> QED
  BY <1>3, <1>4, <1>5, CallerFacts

LEMMA CreateSound ==
  ASSUME 1 \in Shells, ~SystemForks, NEW r \in [Pids -> Nat], Sound(cascade, r),
         NEW p \in Children, NEW prio \in CreatePrios, prio >= INITPRIO, tree_create(p, prio)
  PROVE  \E s \in [Pids -> Nat] : Sound(cascade', s)
<1>1. PICK k, m : k = cascade /\ m = cascade'
  OBVIOUS
<1>2. /\ k.sch.prstate[p] = "FREE" /\ k.sch.currpid # NULLPROC
      /\ k.sch.currpid \notin Killers(k)
      /\ k.sch.currpid = Root \/ k.user_process[k.sch.currpid]
  BY <1>1, CanMakeFacts DEF tree_create
<1>3. Sound(k, r) /\ m = new_process(k, p, prio) /\ AtLeastMain(prio)
  BY <1>1, CascadeAssumption DEF tree_create, AtLeastMain
<1>4. \E s \in [Pids -> Nat] : Sound(m, s)
  BY <1>2, <1>3, NewProcessSound
<1> QED
  BY <1>1, <1>4

LEMMA ForkSound ==
  ASSUME 1 \in Shells, ~SystemForks, NEW r \in [Pids -> Nat], Sound(cascade, r),
         NEW p \in Children, fork(p)
  PROVE  \E s \in [Pids -> Nat] : Sound(cascade', s)
<1>1. PICK k, prio, n, m : /\ k = cascade /\ m = cascade' /\ prio = k.sch.prprio[k.sch.currpid]
                           /\ n = new_process(k, p, prio)
  OBVIOUS
<1>2. /\ k.sch.prstate[p] = "FREE" /\ k.sch.currpid # NULLPROC
      /\ k.sch.currpid \notin Killers(k)
      /\ k.sch.currpid = Root \/ k.user_process[k.sch.currpid]
  BY <1>1, CanMakeFacts DEF fork
<1>3. Sound(k, r) /\ m = forked(n, p)
  BY <1>1 DEF fork, tree_Running
<1>a. Fifo(k.sch) /\ AtLeastMain(prio) /\ prio \in Nat /\ k.sch.currpid \in Live(k) \cap Pids
  <2>1. Fifo(k.sch) /\ k.sch.currpid \in Live(k) \cap Pids
    BY <1>3, CallerFacts DEF Sound
  <2>2. k.sch.prprio \in [Pids -> Nat]
    BY <2>1, FifoFields DEF Fifo
  <2> QED
    BY <1>1, <1>2, <2>1, <2>2 DEF Fifo, InLine, MainLowest, Live, AtLeastMain
<1>4. PICK s \in [Pids -> Nat] : Sound(n, s)
  BY <1>1, <1>2, <1>3, <1>a, NewProcessSound
<1>5. /\ p \in Pids \ {NULLPROC, Root} /\ n.sch.prstate[p] = "SUSP"
      /\ n.sch.currpid = k.sch.currpid /\ Killers(n) = Killers(k)
      /\ n.sch.prprio[p] = n.sch.prprio[k.sch.currpid] /\ n.sch.prprio[p] \in Nat
  <2>1. IsCascade(k) /\ IsSched(k.sch)
    BY <1>3 DEF Sound, Fifo, InLine, SchedOK, Coherent
  <2>2. NewFields(k, p, prio, n)
    BY <1>1, <2>1, NewProcessFields DEF Children
  <2>3. p \in Pids \ {NULLPROC, Root, k.sch.currpid} /\ n.sch.prstate[p] = "SUSP" /\ Killers(n) = Killers(k)
    BY <1>2, <1>3, <2>2, NewEntries
  <2>4. n.sch.currpid = k.sch.currpid
    BY <2>1, <2>2 DEF NewFields, Newcomer, IsSched, SchedRecords
  <2>5. n.sch.prprio = [k.sch.prprio EXCEPT ![p] = prio] /\ k.sch.prprio \in [Pids -> Nat]
    BY <2>1, <2>2, SchedFields DEF NewFields, Newcomer, IsSched, SchedRecords
  <2>6. n.sch.prprio[p] = prio /\ n.sch.prprio[k.sch.currpid] = prio
    BY <1>1, <1>a, <2>3, <2>5
  <2> QED
    BY <1>a, <2>3, <2>4, <2>6
<1>6. PICK S, T : S = n.sch /\ T = make_ready(S, p)
  OBVIOUS
<1>7. IsCascade(n) /\ Fifo(S) /\ MainReceives(n) /\ S.currpid # NULLPROC
  BY <1>2, <1>4, <1>5, <1>6 DEF Sound
<1>8. /\ Fifo(T) /\ T.currpid = S.currpid /\ T.prstate = [S.prstate EXCEPT ![p] = "READY"]
      /\ GapsStay(S, T)
  <2>1. S.prstate[p] \in {"SUSP", "RECV"} /\ p \in Pids \ {NULLPROC}
    BY <1>5, <1>6
  <2>2. S.prprio[p] <= S.prprio[S.currpid]
    BY <1>5, <1>6
  <2> QED
    BY <1>6, <1>7, <2>1, <2>2, JoinsLine DEF Fifo
<1>9. TurnedFields(n, T, n.receiving, n.prhasmsg, m)
  <2>1. Turned(n, T, n.receiving, n.prhasmsg, m)
    BY <1>3, <1>6, <1>7 DEF forked, IsCascade, Turned
  <2>2. n.prhasmsg \in [Pids -> BOOLEAN] /\ n.receiving \in SUBSET Pids
    BY <1>7, CascadeFields
  <2> QED
    BY <1>7, <2>1, <2>2, SchedChanges
<1>10. \A c \in Pids : T.prstate[c] = IF c = p THEN "READY" ELSE S.prstate[c]
  <2>1. S.prstate \in [Pids -> PrStates]
    BY <1>7, FifoFields DEF Fifo
  <2> QED
    BY <1>8, <2>1
<1>11. SameTree(n, m)
  BY <1>5, <1>6, <1>9, <1>10 DEF SameTree, TurnedFields
<1>12. MainReceives(m)
  BY <1>6, <1>7, <1>9, <1>10 DEF MainReceives, TurnedFields
<1>13. KillersWait(m)
  <2>1. GapsPass(n.sch, m.sch)
    BY <1>6, <1>8, <1>9 DEF TurnedFields, GapsPass, GapsStay
  <2>2. n.sch.currpid \notin Killers(n)
    BY <1>2, <1>5
  <2>3. Fifo(m.sch)
    BY <1>8, <1>9 DEF TurnedFields
  <2> QED
    BY <1>4, <1>11, <2>1, <2>2, <2>3, WaitStays
<1>15. Sound(m, s)
  <2>1. IsCascade(m) /\ Fifo(m.sch)
    BY <1>8, <1>9 DEF TurnedFields
  <2> QED
    BY <1>4, <1>11, <1>12, <1>13, <2>1, TurnSound
<1> QED
  BY <1>1, <1>15

-----------------------------------------------------------------------------
(* Entering kill of x: the count is down by one, and the running process   *)
(* has the frames G.                                                       *)
-----------------------------------------------------------------------------
(* Entering kill of x: the count is down by one, and the running process   *)
(* has the frames G.                                                       *)
Entered(k, G, n) ==
  n = [k EXCEPT !.prcount = k.prcount - 1, !.kills = [k.kills EXCEPT ![k.sch.currpid] = G]]

FramePids(F) == {F[i].pid : i \in 1 .. Len(F)}

LEMMA EnteredFields ==
  ASSUME NEW k, IsCascade(k), NEW G \in Seq(KillFrames), NEW n, Entered(k, G, n),
         k.sch.currpid \in Pids
  PROVE  /\ IsCascade(n) /\ n.sch = k.sch /\ n.prparent = k.prparent
         /\ n.prhasmsg = k.prhasmsg /\ n.user_process = k.user_process
         /\ n.receiving = k.receiving /\ n.prcount = k.prcount - 1
         /\ n.kills[k.sch.currpid] = G
         /\ \A q \in Pids \ {k.sch.currpid} : n.kills[q] = k.kills[q]
<1>1. PICK K, a : K = [k.kills EXCEPT ![k.sch.currpid] = G] /\ a = k.prcount - 1
  OBVIOUS
<1>2. K \in [Pids -> Seq(KillFrames)] /\ a \in Int
  BY <1>1, CascadeFields
<1>3. n = [k EXCEPT !.prcount = a, !.kills = K]
  BY <1>1 DEF Entered
<1>4. /\ IsCascade(n) /\ n.sch = k.sch /\ n.prparent = k.prparent
      /\ n.prhasmsg = k.prhasmsg /\ n.user_process = k.user_process
      /\ n.receiving = k.receiving /\ n.prcount = a /\ n.kills = K
  BY <1>2, <1>3 DEF IsCascade
<1>5. /\ K[k.sch.currpid] = G
      /\ \A q \in Pids \ {k.sch.currpid} : K[q] = k.kills[q]
  BY <1>1, CascadeFields
<1> QED
  BY <1>1, <1>4, <1>5

LEMMA EnterSound ==
  ASSUME 1 \in Shells, NEW k, NEW r, Sound(k, r), NEW c, c = k.sch.currpid, c # NULLPROC,
         NEW G \in Seq(KillFrames), G # << >>, NEW D, D = doomed_in(k, G[1].pid),
         FramesSound(k, r, D, G), G[1].doomed \cap Live(k) \subseteq D,
         c \in D => c = G[1].pid,
         \A q \in Killers(k) \ {c} : q \notin D /\ Victim(k, q) \notin D,
         NEW x, x \notin Victims(k), FramePids(G) = FramePids(k.kills[c]) \cup {x},
         NEW n, Entered(k, G, n)
  PROVE  Sound(n, r) /\ n.kills[c] = G
<1>1. IsCascade(k) /\ Fifo(k.sch) /\ c \in Pids /\ c \in Live(k)
  BY CallerFacts DEF Sound
<1>2. /\ IsCascade(n) /\ n.sch = k.sch /\ n.prparent = k.prparent
      /\ n.prhasmsg = k.prhasmsg /\ n.user_process = k.user_process
      /\ n.receiving = k.receiving /\ n.prcount = k.prcount - 1
      /\ n.kills[c] = G
      /\ \A q \in Pids \ {c} : n.kills[q] = k.kills[q]
  BY <1>1, EnteredFields
<1>3. Live(n) = Live(k) /\ Killers(n) = Killers(k) \cup {c}
  BY <1>1, <1>2 DEF Live, Killers
<1>4. \A v \in Pids : doomed_in(n, v) = doomed_in(k, v)
  BY <1>2, SameDoomed
<1>5. G[1].pid \in Pids /\ Fated(n, c) = D /\ Victim(n, c) = G[1].pid
  <2>1. 1 \in 1 .. Len(G) /\ Len(G) \in Nat
    BY EmptySeq
  <2>2. G[1].pid \in Live(k)
    BY <2>1 DEF FramesSound
  <2>3. G[1].pid \in Pids
    BY <2>2 DEF Live
  <2> QED
    BY <1>2, <1>4, <2>3 DEF Fated, Victim
<1>6. ASSUME NEW q \in Killers(k) \ {c}
      PROVE  q \in Pids /\ n.kills[q] = k.kills[q] /\ Victim(n, q) = Victim(k, q) /\ Fated(n, q) = Fated(k, q)
  <2>1. q \in Pids \ {c}
    BY DEF Killers
  <2>2. n.kills[q] = k.kills[q]
    BY <1>2, <2>1
  <2>3. Victim(n, q) = Victim(k, q)
    BY <2>2 DEF Victim
  <2>4. Victim(k, q) \in Pids
    BY KillerFacts
  <2> QED
    BY <1>4, <2>1, <2>2, <2>3, <2>4 DEF Fated
<1>7. MainReceives(n) /\ TreeSound(n, r)
  BY <1>2, <1>3 DEF Sound, MainReceives, TreeSound
<1>8. KillsSound(n, r)
  <2>1. ASSUME NEW q \in Killers(k) \ {c}
        PROVE  KillSound(n, r, q)
    <3>1. KillSound(k, r, q)
      BY DEF Sound, KillsSound
    <3>2. FramesSound(n, r, Fated(k, q), k.kills[q])
      BY <1>2, <1>3, <3>1 DEF KillSound, FramesSound
    <3> QED
      BY <1>3, <1>6, <3>1, <3>2 DEF KillSound
  <2>2. KillSound(n, r, c)
    <3>1. FramesSound(n, r, D, G)
      BY <1>2, <1>3 DEF FramesSound
    <3> QED
      BY <1>1, <1>2, <1>3, <1>5, <3>1 DEF KillSound
  <2> QED
    BY <1>3, <2>1, <2>2 DEF KillsSound
<1>10. KillersWait(n)
  <2>1. ASSUME NEW p \in Killers(k) \ {c}
        PROVE  /\ Len(n.kills[p]) = 1 /\ n.kills[p][1].i = 1 /\ InGap(n.sch, p)
               /\ \A q \in (Killers(k) \cup {c}) \ {p} :
                    p \notin Fated(n, q) /\ Victim(n, p) \notin Fated(n, q)
    <3>1. /\ Len(k.kills[p]) = 1 /\ k.kills[p][1].i = 1 /\ InGap(k.sch, p)
          /\ \A q \in Killers(k) \ {p} : p \notin Fated(k, q) /\ Victim(k, p) \notin Fated(k, q)
      BY DEF Sound, KillersWait
    <3>2. p \notin Fated(n, c) /\ Victim(n, p) \notin Fated(n, c)
      BY <1>5, <1>6
    <3>3. \A q \in (Killers(k) \ {c}) \ {p} : p \notin Fated(n, q) /\ Victim(n, p) \notin Fated(n, q)
      BY <1>6, <3>1
    <3> QED
      BY <1>2, <1>6, <3>1, <3>2, <3>3
  <2> QED
    BY <1>2, <1>3, <2>1 DEF KillersWait
<1>11. CountRight(n)
  <2>1. Victims(n) = Victims(k) \cup {x}
    <3>1. Victims(n) = UNION {FramePids(n.kills[p]) : p \in Killers(k) \cup {c}}
      BY <1>3 DEF Victims, FramePids
    <3>2. Victims(k) = UNION {FramePids(k.kills[p]) : p \in Killers(k)}
      BY DEF Victims, FramePids
    <3>3. c \notin Killers(k) => FramePids(k.kills[c]) = {}
      <4>1. c \notin Killers(k) => k.kills[c] = << >>
        BY <1>1 DEF Killers
      <4>2. FramePids(<< >>) = {}
        BY DEF FramePids
      <4> QED
        BY <4>1, <4>2
    <3>4. FramePids(n.kills[c]) = FramePids(k.kills[c]) \cup {x}
      BY <1>2
    <3>5. \A p \in Killers(k) \ {c} : FramePids(n.kills[p]) = FramePids(k.kills[p])
      BY <1>6
    <3> QED
      BY <3>1, <3>2, <3>3, <3>4, <3>5
  <2>2. PICK V, a, b : V = Victims(k) /\ a = Cardinality(V) /\ b = Cardinality(Live(k))
    OBVIOUS
  <2>3. IsFiniteSet(V) /\ a \in Nat /\ b \in Nat
    BY <1>1, <2>2, VictimsFinite, LiveFinite
  <2>4. Cardinality(V \cup {x}) = a + 1
    BY <2>2, <2>3, FS_AddElement
  <2>5. k.prcount = b - a /\ n.prcount = k.prcount - 1
    BY <1>2, <2>2 DEF Sound, CountRight
  <2> QED
    BY <1>3, <2>1, <2>2, <2>3, <2>4, <2>5 DEF CountRight
<1> QED
  BY <1>2, <1>7, <1>8, <1>10, <1>11 DEF Sound

(* Telling the parent: main may get ready, and then who called kill goes   *)
(* on, or waits behind it.                                                 *)
LEMMA TellSound ==
  ASSUME NEW n, NEW r, Sound(n, r), NEW v \in Live(n) \ {NULLPROC, Root},
         NEW c, c = n.sch.currpid, c # NULLPROC,
         n.prparent[v] = Root => Len(n.kills[c]) = 1 /\ n.kills[c][1].i = 1,
         NEW m, m = tell_parent(n, v)
  PROVE  Sound(m, r)
<1>1. PICK q, S : q = n.prparent[v] /\ S = n.sch
  OBVIOUS
<1>2. IsCascade(n) /\ Fifo(S) /\ MainReceives(n) /\ c \in Pids
  BY <1>1, CallerFacts DEF Sound
<1>3. q \in Live(n) \ {NULLPROC} /\ q \in Pids
  BY <1>1 DEF Sound, TreeSound, Live
<1>4. PICK h : h = [n.prhasmsg EXCEPT ![q] = TRUE]
  OBVIOUS
<1>5. /\ h \in [Pids -> BOOLEAN] /\ n.receiving \in SUBSET Pids
  BY <1>2, <1>3, <1>4, CascadeFields
<1>6. CASE m = n
  BY <1>6
<1>7. CASE m = [n EXCEPT !.prhasmsg[q] = TRUE]
  <2>1. Turned(n, S, n.receiving, h, m)
    BY <1>1, <1>2, <1>4, <1>7 DEF IsCascade, Turned
  <2>2. TurnedFields(n, S, n.receiving, h, m)
    BY <1>2, <1>5, <2>1, SchedChanges
  <2>3. SameTree(n, m) /\ MainReceives(m) /\ m.sch = n.sch
    BY <1>1, <1>2, <2>2 DEF TurnedFields, SameTree, MainReceives
  <2>4. KillersWait(m)
    BY <1>1, <1>2, <2>3, WaitStays
  <2> QED
    BY <1>1, <1>2, <2>2, <2>3, <2>4, TurnSound DEF TurnedFields
<1>8. CASE S.prstate[q] = "RECV" /\ m = [n EXCEPT !.prhasmsg[q] = TRUE, !.sch = ready(S, q)]
  <2>1. q = Root /\ Root \in Pids \ {NULLPROC}
    BY <1>1, <1>2, <1>3, <1>8, RootIsAProcess DEF MainReceives, Children
  <2>2. PICK T : T = ready(S, Root)
    OBVIOUS
  <2>3. /\ Fifo(T) /\ Turns({Root}, S, T) /\ T.prstate[Root] \in Eligible
        /\ GapsPass(S, T) /\ (InGap(T, c) \/ T.currpid = c)
    <3>1. S.prstate[Root] \in {"SUSP", "RECV"} /\ S.currpid # NULLPROC /\ S.currpid = c
      BY <1>1, <1>8, <2>1
    <3> QED
      BY <1>2, <2>1, <2>2, <3>1, ReadyTurns
  <2>4. TurnedFields(n, T, n.receiving, h, m)
    <3>1. Turned(n, T, n.receiving, h, m)
      BY <1>1, <1>2, <1>4, <1>8, <2>1, <2>2 DEF IsCascade, Turned
    <3> QED
      BY <1>2, <1>5, <3>1, SchedChanges
  <2>5. SameTree(n, m)
    <3>1. S.prstate[Root] # "FREE" /\ T.prstate[Root] # "FREE"
      BY <1>8, <2>1, <2>3 DEF Eligible
    <3>2. \A p \in Pids : T.prstate[p] = "FREE" <=> S.prstate[p] = "FREE"
      BY <2>3, <3>1, TurnsSpareAll
    <3> QED
      BY <1>1, <2>4, <3>2 DEF SameTree, TurnedFields
  <2>6. \A p \in Pids \ {Root} : /\ T.prstate[p] = "RECV" <=> S.prstate[p] = "RECV"
                                 /\ T.prstate[p] = "FREE" <=> S.prstate[p] = "FREE"
                                 /\ T.prstate[p] = "SUSP" <=> S.prstate[p] = "SUSP"
    BY <2>3, TurnsStates
  <2>7. MainReceives(m)
    BY <1>1, <1>2, <2>4, <2>6 DEF MainReceives, TurnedFields
  <2>8. Killers(n) \subseteq {c}
    <3>1. ASSUME NEW p \in Killers(n), p # c
          PROVE  FALSE
      <4>1. InGap(S, p)
        BY <1>1, <3>1 DEF Sound, KillersWait
      <4>2. S.prstate[Root] \in Eligible
        BY <4>1 DEF InGap
      <4> QED
        BY <1>8, <2>1, <4>2 DEF Eligible
    <3> QED
      BY <3>1
  <2>9. KillersWait(m)
    <3>1. Killers(m) = Killers(n) /\ Live(m) = Live(n) /\ m.kills = n.kills /\ m.sch = T
      BY <2>4, <2>5 DEF SameTree, Killers, Live, TurnedFields
    <3> QED
      BY <1>1, <2>1, <2>3, <2>8, <3>1 DEF KillersWait
  <2>11. IsCascade(m) /\ Fifo(m.sch)
    BY <2>3, <2>4 DEF TurnedFields
  <2> QED
    BY <2>5, <2>7, <2>9, <2>11, TurnSound
<1>9. \/ m = n
      \/ m = [n EXCEPT !.prhasmsg[q] = TRUE]
      \/ S.prstate[q] = "RECV" /\ m = [n EXCEPT !.prhasmsg[q] = TRUE, !.sch = ready(S, q)]
  <2>1. PICK t : t = [n EXCEPT !.prhasmsg[q] = TRUE]
    OBVIOUS
  <2>2. t.sch = S
    BY <1>1, <1>2, <2>1 DEF IsCascade
  <2>3. \/ m = n
        \/ m = t
        \/ S.prstate[q] = "RECV" /\ m = [t EXCEPT !.sch = ready(@, q)]
    BY <1>1, <2>1 DEF tell_parent
  <2>4. [t EXCEPT !.sch = ready(@, q)] = [t EXCEPT !.sch = ready(S, q)]
    BY <2>2
  <2> QED
    BY <2>1, <2>3, <2>4
<1> QED
  BY <1>6, <1>7, <1>8, <1>9

(* j is k with the frames F for the running process.                       *)
Reframed(k, F, j) == j = [k EXCEPT !.kills = [k.kills EXCEPT ![k.sch.currpid] = F]]

Enters(k, j, x, D, G) ==
  /\ G \in Seq(KillFrames)
  /\ \E n : Entered(k, G, n) /\ enter_kill(j, x, D) = tell_parent(n, x)

(* enter_kill, when the frames of the running process are F.               *)
LEMMA EnterTells ==
  ASSUME NEW k, IsCascade(k), NEW c, c = k.sch.currpid, c \in Pids,
         NEW F \in Seq(KillFrames), NEW j, Reframed(k, F, j),
         NEW x \in Children, NEW D \in SUBSET Pids,
         NEW G, G = Append(F, [pid |-> x, i |-> 1, doomed |-> D])
  PROVE  Enters(k, j, x, D, G)
<1>0. j = [k EXCEPT !.kills = [k.kills EXCEPT ![c] = F]]
  BY DEF Reframed
<1>1. PICK K, L : K = [k.kills EXCEPT ![c] = F] /\ L = [k.kills EXCEPT ![c] = G]
  OBVIOUS
<1>2. k.kills \in [Pids -> Seq(KillFrames)]
  BY CascadeFields
<1>3. j.kills = K /\ j.sch = k.sch /\ j.prcount = k.prcount /\ K[c] = F
  BY <1>0, <1>1, <1>2 DEF IsCascade
<1>4. [K EXCEPT ![c] = G] = L
  BY <1>1, <1>2
<1>5. PICK n : n = [k EXCEPT !.prcount = k.prcount - 1, !.kills = L]
  OBVIOUS
<1>6. Entered(k, G, n)
  BY <1>1, <1>5 DEF Entered
<1>7. [j EXCEPT !.prcount = @ - 1,
                !.kills[j.sch.currpid] = Append(@, [pid |-> x, i |-> 1, doomed |-> D])]
        = [j EXCEPT !.prcount = k.prcount - 1, !.kills = [K EXCEPT ![c] = G]]
  BY <1>3
<1>8. [j EXCEPT !.prcount = k.prcount - 1, !.kills = L] = n
  BY <1>0, <1>1, <1>5 DEF IsCascade
<1>9. enter_kill(j, x, D) = tell_parent(n, x)
  BY <1>4, <1>7, <1>8 DEF enter_kill
<1>10. G \in Seq(KillFrames)
  <2>1. 1 \in 1 .. NPROC
    BY SchedAssumption
  <2>2. [pid |-> x, i |-> 1, doomed |-> D] \in KillFrames
    BY <2>1 DEF KillFrames
  <2> QED
    BY <2>2
<1> QED
  BY <1>6, <1>9, <1>10 DEF Enters

LEMMA TellKeepsFrames ==
  ASSUME NEW n, IsCascade(n), NEW v, NEW m, m = tell_parent(n, v)
  PROVE  m.kills = n.kills
<1>1. PICK q, t, u : /\ q = n.prparent[v] /\ t = [n EXCEPT !.prhasmsg[q] = TRUE]
                     /\ u = [t EXCEPT !.sch = ready(@, q)]
  OBVIOUS
<1>2. t.kills = n.kills /\ u.kills = n.kills
  <2>1. t.kills = n.kills
    BY <1>1 DEF IsCascade
  <2>2. u.kills = t.kills
    BY <1>1 DEF IsCascade
  <2> QED
    BY <2>1, <2>2
<1>3. m = n \/ m = t \/ m = u
  BY <1>1 DEF tell_parent
<1> QED
  BY <1>2, <1>3

(* Nobody is done with a call of kill, but for who runs.                   *)
NoneEnds(k, m) ==
  /\ m.kills[k.sch.currpid] # << >>
  /\ \A q \in Pids \ {k.sch.currpid} : m.kills[q] = k.kills[q]

LEMMA EnterEndsNone ==
  ASSUME NEW k, IsCascade(k), k.sch.currpid \in Pids, NEW G \in Seq(KillFrames), G # << >>,
         NEW n, Entered(k, G, n), NEW v, NEW m, m = tell_parent(n, v)
  PROVE  NoneEnds(k, m)
<1>1. /\ IsCascade(n) /\ n.kills[k.sch.currpid] = G
      /\ \A q \in Pids \ {k.sch.currpid} : n.kills[q] = k.kills[q]
  BY EnteredFields
<1>2. m.kills = n.kills
  BY <1>1, TellKeepsFrames
<1> QED
  BY <1>1, <1>2 DEF NoneEnds

LEMMA TreeKillSound ==
  ASSUME 1 \in Shells, KillCases = {}, NEW r, Sound(cascade, r), NEW p \in Children, tree_kill(p)
  PROVE  Sound(cascade', r) /\ NoneEnds(cascade, cascade')
<1>1. PICK k, m, c, D : k = cascade /\ m = cascade' /\ c = k.sch.currpid /\ D = doomed_in(k, p)
  OBVIOUS
<1>2. /\ Sound(k, r) /\ c # NULLPROC /\ k.kills[c] = << >> /\ p \in Live(k) \ {NULLPROC, Root}
      /\ D \cap InKills = {} /\ D \cap Counted = {} /\ (c \in D => p = c)
      /\ m = enter_kill(k, p, D)
  BY <1>1 DEF tree_kill, tree_call, tree_Running, InKill, IsLive, Live, Children, Doomed
<1>3. IsCascade(k) /\ c \in Pids /\ c \notin Killers(k)
  BY <1>1, <1>2, CallerFacts DEF Sound
<1>4. p \in D /\ D \subseteq Live(k) \ {NULLPROC, Root} /\ D \in SUBSET Pids
  BY <1>1, <1>2, FatedFacts DEF Live
<1>5. ASSUME NEW q \in Killers(k), NEW i \in 1 .. Len(k.kills[q])
      PROVE  q \notin D /\ k.kills[q][i].pid \notin D
  <2>1. q \in Live(k) \ {NULLPROC}
    BY <1>2, KillerFacts
  <2>2. q \in InKills
    BY <1>1, <2>1 DEF InKills, InKill, IsLive, Live, Children, Killers
  <2>3. i \in DOMAIN k.kills[q]
    BY <1>3, VictimIsAProcess
  <2>4. k.kills[q][i].pid \in Counted
    BY <1>1, <2>2, <2>3 DEF Counted
  <2> QED
    BY <1>2, <2>2, <2>4
<1>6. p \notin Victims(k)
  BY <1>4, <1>5 DEF Victims
<1>7. PICK G : G = Append(<< >>, [pid |-> p, i |-> 1, doomed |-> D])
  OBVIOUS
<1>8. PICK n : Entered(k, G, n) /\ m = tell_parent(n, p) /\ G \in Seq(KillFrames)
  <2>1. << >> \in Seq(KillFrames) /\ c = k.sch.currpid /\ c \in Pids
    BY <1>1, <1>3
  <2>2. Reframed(k, << >>, k)
    <3>1. k.kills \in [Pids -> Seq(KillFrames)]
      BY <1>3, CascadeFields
    <3>2. [k.kills EXCEPT ![c] = << >>] = k.kills
      BY <1>2, <3>1
    <3> QED
      BY <1>1, <1>3, <3>2 DEF IsCascade, Reframed
  <2>3. Enters(k, k, p, D, G)
    BY <1>3, <1>4, <1>7, <2>1, <2>2, EnterTells
  <2> QED
    BY <1>2, <2>3 DEF Enters
<1>9. Len(G) = 1 /\ G[1] = [pid |-> p, i |-> 1, doomed |-> D] /\ G # << >>
  BY <1>7
<1>10. G[1].pid = p /\ G[1].i = 1 /\ G[1].doomed = D
  BY <1>9
<1>11. FramesSound(k, r, D, G)
  <2>1. \A j \in 1 .. Len(G) : j = 1
    BY <1>9
  <2>2. \A d \in Live(k) \ {NULLPROC} : ~(d < 1)
    BY SchedAssumption DEF Live, Pids, NULLPROC
  <2>3. \A i, j \in 1 .. Len(G) : ~(i < j)
    BY <2>1
  <2> QED
    BY <1>2, <1>4, <1>10, <2>1, <2>2, <2>3 DEF FramesSound
<1>12. FramePids(G) = FramePids(k.kills[c]) \cup {p}
  <2>1. FramePids(G) = {p}
    BY <1>9, <1>10 DEF FramePids
  <2>2. FramePids(k.kills[c]) = {}
    BY <1>2 DEF FramePids
  <2> QED
    BY <2>1, <2>2
<1>13. Sound(n, r) /\ n.kills[c] = G
  <2>1. D = doomed_in(k, G[1].pid) /\ G[1].doomed \cap Live(k) \subseteq D /\ (c \in D => c = G[1].pid)
    BY <1>1, <1>2, <1>10
  <2>2. \A q \in Killers(k) \ {c} : q \notin D /\ Victim(k, q) \notin D
    <3>1. \A q \in Killers(k) : 1 \in 1 .. Len(k.kills[q])
      BY <1>3, VictimIsAProcess
    <3> QED
      BY <1>5, <3>1 DEF Victim
  <2> QED
    BY <1>1, <1>2, <1>6, <1>8, <1>9, <1>11, <1>12, <2>1, <2>2, EnterSound
<1>14. n.sch = k.sch
  BY <1>1, <1>3, <1>8, EnteredFields
<1>15. /\ p \in Live(n) \ {NULLPROC, Root} /\ c = n.sch.currpid
       /\ Len(n.kills[c]) = 1 /\ n.kills[c][1].i = 1
  BY <1>1, <1>2, <1>9, <1>10, <1>13, <1>14 DEF Live
<1>16. Sound(m, r)
  BY <1>2, <1>8, <1>13, <1>15, TellSound
<1>17. NoneEnds(k, m)
  BY <1>1, <1>3, <1>8, <1>9, EnterEndsNone
<1> QED
  BY <1>1, <1>16, <1>17

(* The frames after kill has found x among the children of its victim.     *)
FrameAdded(F, d, x, L, G) ==
  /\ L = [F EXCEPT ![d].i = x + 1]
  /\ G = Append(L, [pid |-> x, i |-> 1, doomed |-> {}])

HasAdded(F, d, x, L, G) ==
  /\ L \in Seq(KillFrames)
  /\ Len(G) = d + 1 /\ G[d + 1].pid = x /\ G[d + 1].i = 1 /\ G[d].i = x + 1
  /\ \A j \in 1 .. d : G[j].pid = F[j].pid /\ G[j].doomed = F[j].doomed
  /\ \A j \in 1 .. d - 1 : G[j].i = F[j].i

LEMMA NextFrame ==
  ASSUME NEW F \in Seq(KillFrames), NEW d, d = Len(F), d # 0, NEW x \in Children,
         NEW L, NEW G, FrameAdded(F, d, x, L, G)
  PROVE  HasAdded(F, d, x, L, G)
<1>1. d \in Nat \ {0} /\ d \in 1 .. d
  BY LenProperties
<1>2. \A j \in 1 .. d : F[j] \in KillFrames
  OBVIOUS
<1>3. x \in Pids /\ x + 1 \in 1 .. NPROC
  BY SchedAssumption DEF Children, Pids, NULLPROC
<1>4. PICK f, g : f = F[d] /\ g = [f EXCEPT !.i = x + 1]
  OBVIOUS
<1>5. f \in KillFrames
  BY <1>1, <1>2, <1>4
<1>6. g \in KillFrames /\ g.pid = f.pid /\ g.doomed = f.doomed /\ g.i = x + 1
  BY <1>3, <1>4, <1>5 DEF KillFrames
<1>7. L = [F EXCEPT ![d] = g]
  BY <1>4 DEF FrameAdded
<1>8. /\ L \in Seq(KillFrames) /\ Len(L) = d
      /\ \A j \in 1 .. d : L[j] = IF j = d THEN g ELSE F[j]
  BY <1>1, <1>6, <1>7, ExceptSeq
<1>9. PICK e : e = [pid |-> x, i |-> 1, doomed |-> {}]
  OBVIOUS
<1>10. G = Append(L, e)
  BY <1>9 DEF FrameAdded
<1>11. Len(G) = d + 1 /\ G[d + 1] = e /\ \A j \in 1 .. d : G[j] = L[j]
  BY <1>1, <1>8, <1>10
<1>12. \A j \in 1 .. d - 1 : j \in 1 .. d /\ j # d
  BY <1>1
<1>13. G[d + 1].pid = x /\ G[d + 1].i = 1
  BY <1>9, <1>11
<1>14. G[d].i = x + 1
  BY <1>1, <1>6, <1>8, <1>11
<1>15. ASSUME NEW j \in 1 .. d
       PROVE  G[j].pid = F[j].pid /\ G[j].doomed = F[j].doomed /\ (j # d => G[j].i = F[j].i)
  <2>1. G[j] = IF j = d THEN g ELSE F[j]
    BY <1>8, <1>11
  <2> QED
    BY <1>4, <1>6, <2>1
<1> QED
  BY <1>8, <1>11, <1>12, <1>13, <1>14, <1>15 DEF HasAdded

LEMMA KillChildSound ==
  ASSUME 1 \in Shells, NEW r, Sound(cascade, r), r \in [Pids -> Nat], kill_child
  PROVE  Sound(cascade', r) /\ NoneEnds(cascade, cascade')
<1>1. PICK k, m, c : k = cascade /\ m = cascade' /\ c = k.sch.currpid
  OBVIOUS
<1>2. PICK F, d, D : F = k.kills[c] /\ d = Len(F) /\ D = Fated(k, c)
  OBVIOUS
<1>3. PICK f, C, x : f = F[d] /\ C = children_left /\ x = Min(C)
  OBVIOUS
<1>4. PICK j : j = [k EXCEPT !.kills[c][d].i = x + 1]
  OBVIOUS
<1>5. /\ Sound(k, r) /\ F # << >> /\ k.user_process[f.pid] /\ C # {}
      /\ m = enter_kill(j, x, {})
  BY <1>1, <1>2, <1>3, <1>4 DEF kill_child, tree_Running, InKill, Frame, tree_Depth
<1>6. C = {y \in f.i .. NPROC - 1 : k.prparent[y] = f.pid /\ k.sch.prstate[y] # "FREE"}
  BY <1>1, <1>2, <1>3 DEF children_left, tree_Running, Frame, tree_Depth, IsLive
<1>7. IsCascade(k) /\ c \in Pids /\ c \in Killers(k) /\ TreeSound(k, r)
  BY <1>1, <1>2, <1>5, CallerFacts DEF Sound, Killers
<1>8. F \in Seq(KillFrames) /\ d \in Nat \ {0} /\ d \in 1 .. d /\ 1 \in 1 .. d
      /\ \A i \in 1 .. d : F[i] \in KillFrames
  BY <1>2, <1>7, VictimIsAProcess
<1>9. /\ KillSound(k, r, c) /\ FramesSound(k, r, D, F)
      /\ c \in Live(k) \ {NULLPROC} /\ F[1].doomed \cap Live(k) \subseteq D
      /\ (c \in D => c = F[1].pid) /\ D = doomed_in(k, F[1].pid)
      /\ Closed(k, D) /\ D \subseteq Live(k) \ {NULLPROC, Root}
  <2>1. KillSound(k, r, c)
    BY <1>5, <1>7 DEF Sound, KillsSound
  <2>2. Closed(k, D) /\ D \subseteq Live(k) \ {NULLPROC, Root}
    BY <1>2, <1>5, <1>7, KillerFacts
  <2> QED
    BY <1>2, <2>1, <2>2 DEF KillSound, Fated, Victim
<1>10. f \in KillFrames /\ f.i \in 1 .. NPROC
  BY <1>3, <1>8 DEF KillFrames
<1>11. x \in C /\ \A y \in C : x <= y
  <2>1. C \in SUBSET Nat
    BY <1>6, <1>10, SchedAssumption
  <2> QED
    BY <1>3, <1>5, <2>1, MinOfNaturals
<1>12. /\ x \in f.i .. NPROC - 1 /\ k.prparent[x] = f.pid /\ k.sch.prstate[x] # "FREE"
       /\ x \in Children /\ x \in Pids /\ x \in Live(k) \ {NULLPROC}
  BY <1>6, <1>10, <1>11, SchedAssumption DEF Children, Pids, NULLPROC, Live
<1>13. f.pid \in Live(k) \ {NULLPROC, Root} /\ f.pid \in D
  BY <1>2, <1>3, <1>8, <1>9 DEF FramesSound
<1>14. x # Root
  BY <1>5, <1>7, <1>12 DEF TreeSound
<1>15. x \in D /\ r[f.pid] < r[x] /\ r[x] \in Nat
  <2>1. x \in Joined(k, D)
    BY <1>5, <1>12, <1>13 DEF Joined
  <2> QED
    BY <1>7, <1>9, <1>12, <1>14, <2>1 DEF Closed, TreeSound
<1>16. PICK L, G : L = [F EXCEPT ![d].i = x + 1] /\ G = Append(L, [pid |-> x, i |-> 1, doomed |-> {}])
  OBVIOUS
<1>17. /\ L \in Seq(KillFrames)
       /\ Len(G) = d + 1 /\ G[d + 1].pid = x /\ G[d + 1].i = 1 /\ G[d].i = x + 1
       /\ \A i \in 1 .. d : G[i].pid = F[i].pid /\ G[i].doomed = F[i].doomed
       /\ \A i \in 1 .. d - 1 : G[i].i = F[i].i
  <2>1. FrameAdded(F, d, x, L, G) /\ d # 0
    BY <1>8, <1>16 DEF FrameAdded
  <2>2. HasAdded(F, d, x, L, G)
    BY <1>2, <1>8, <1>12, <2>1, NextFrame
  <2> QED
    BY <2>2 DEF HasAdded
<1>18. PICK n : Entered(k, G, n) /\ m = tell_parent(n, x) /\ G \in Seq(KillFrames)
  <2>1. {} \in SUBSET Pids
    OBVIOUS
  <2>2. Reframed(k, L, j)
    <3>1. k.kills \in [Pids -> Seq(KillFrames)]
      BY <1>7, CascadeFields
    <3>2. j = [k EXCEPT !.kills = [k.kills EXCEPT ![c] = [k.kills[c] EXCEPT ![d].i = x + 1]]]
      BY <1>4, <3>1
    <3> QED
      BY <1>1, <1>2, <1>16, <3>2 DEF Reframed
  <2>3. Enters(k, j, x, {}, G)
    BY <1>1, <1>7, <1>12, <1>16, <1>17, <2>1, <2>2, EnterTells
  <2> QED
    BY <1>5, <2>3 DEF Enters
<1>19. G # << >>
  <2>1. Len(G) # 0
    BY <1>8, <1>17
  <2> QED
    BY <2>1
<1>20. FramesSound(k, r, D, G)
  <2>1. ASSUME NEW i \in 1 .. d
        PROVE  /\ G[i].pid \in Live(k) \ {NULLPROC, Root} /\ G[i].pid \in D
               /\ \A y \in Live(k) \ {NULLPROC} :
                    k.prparent[y] = G[i].pid /\ y < G[i].i => y = G[i + 1].pid
    <3>1. /\ F[i].pid \in Live(k) \ {NULLPROC, Root} /\ F[i].pid \in D
          /\ \A y \in Live(k) \ {NULLPROC} :
               k.prparent[y] = F[i].pid /\ y < F[i].i => i < d /\ y = F[i + 1].pid
      BY <1>2, <1>9 DEF FramesSound
    <3>2. CASE i < d
      <4>1. i \in 1 .. d - 1 /\ i + 1 \in 1 .. d
        BY <1>8, <3>2
      <4> QED
        BY <1>17, <3>1, <4>1
    <3>3. CASE i = d
      <4>1. ASSUME NEW y \in Live(k) \ {NULLPROC}, k.prparent[y] = f.pid, y < x + 1
            PROVE  y = x
        <5>1. y \in Nat /\ y <= NPROC - 1 /\ x \in Nat
          BY <1>12, SchedAssumption DEF Live, Pids
        <5>2. ~(y < f.i)
          BY <1>3, <1>8, <3>1, <3>3, <4>1
        <5>3. y \in C
          BY <1>6, <1>10, <4>1, <5>1, <5>2, SchedAssumption DEF Live
        <5> QED
          BY <1>11, <4>1, <5>1, <5>3
      <4> QED
        BY <1>3, <1>17, <3>1, <3>3, <4>1
    <3> QED
      BY <1>8, <3>2, <3>3
  <2>2. \A y \in Live(k) \ {NULLPROC} : ~(y < 1)
    BY SchedAssumption DEF Live, Pids, NULLPROC
  <2>3. ASSUME NEW i \in 1 .. d + 1, NEW l \in 1 .. d + 1, i < l
        PROVE  r[G[i].pid] < r[G[l].pid]
    <3>1. i \in 1 .. d
      BY <1>8, <2>3
    <3>2. CASE l \in 1 .. d
      BY <1>2, <1>9, <1>17, <2>3, <3>1, <3>2 DEF FramesSound
    <3>3. CASE l = d + 1
      <4>1. r[F[i].pid] <= r[f.pid]
        <5>1. F[i].pid \in Pids
          BY <1>2, <1>9, <3>1 DEF FramesSound, Live
        <5>2. r[F[i].pid] \in Nat
          BY <5>1
        <5>3. i < d \/ i = d
          BY <1>8, <3>1
        <5>4. i < d => r[F[i].pid] < r[f.pid]
          BY <1>2, <1>3, <1>8, <1>9, <3>1 DEF FramesSound
        <5>5. f.pid \in Pids
          BY <1>13 DEF Live
        <5>6. r[f.pid] \in Nat
          BY <5>5
        <5> QED
          BY <1>3, <5>2, <5>3, <5>4, <5>6
      <4>2. r[F[i].pid] \in Nat /\ r[f.pid] \in Nat
        <5>1. F[i].pid \in Pids /\ f.pid \in Pids
          BY <1>2, <1>9, <1>13, <3>1 DEF FramesSound, Live
        <5> QED
          BY <5>1
      <4> QED
        BY <1>15, <1>17, <3>1, <3>3, <4>1, <4>2
    <3> QED
      BY <1>8, <2>3, <3>2, <3>3
  <2>4. \A i \in 1 .. d + 1 : i \in 1 .. d \/ i = d + 1
    BY <1>8
  <2>5. \A i \in 1 .. d : i < d + 1
    BY <1>8
  <2> QED
    BY <1>12, <1>14, <1>15, <1>17, <2>1, <2>2, <2>3, <2>4, <2>5 DEF FramesSound
<1>21. \A q \in Killers(k) \ {c} : /\ q \notin D /\ Victim(k, q) \notin D
                                   /\ Len(k.kills[q]) = 1
  BY <1>1, <1>2, <1>5, <1>7 DEF Sound, KillersWait
<1>22. x \notin Victims(k)
  <2>1. ASSUME NEW q \in Killers(k), NEW i \in 1 .. Len(k.kills[q])
        PROVE  k.kills[q][i].pid # x
    <3>1. CASE q # c
      <4>1. Len(k.kills[q]) = 1 /\ Victim(k, q) \notin D
        BY <1>21, <3>1
      <4>2. k.kills[q][i].pid = Victim(k, q)
        BY <4>1 DEF Victim
      <4> QED
        BY <1>15, <4>1, <4>2
    <3>2. CASE q = c
      <4>1. i \in 1 .. d /\ d + 1 \in 1 .. d + 1 /\ i \in 1 .. d + 1 /\ i < d + 1
        BY <1>2, <1>8, <3>2
      <4>2. r[G[i].pid] < r[G[d + 1].pid]
        BY <1>17, <1>20, <4>1 DEF FramesSound
      <4>3. r[F[i].pid] < r[x]
        BY <1>17, <4>1, <4>2
      <4> QED
        BY <1>2, <1>15, <3>2, <4>3
    <3> QED
      BY <3>1, <3>2
  <2> QED
    BY <2>1 DEF Victims
<1>23. FramePids(G) = FramePids(F) \cup {x}
  <2>1. \A i \in 1 .. d + 1 : i \in 1 .. d \/ i = d + 1
    BY <1>8
  <2>2. \A i \in 1 .. d : i \in 1 .. d + 1
    BY <1>8
  <2>3. d + 1 \in 1 .. d + 1
    BY <1>8
  <2>4. FramePids(F) = {F[i].pid : i \in 1 .. d} /\ FramePids(G) = {G[i].pid : i \in 1 .. d + 1}
    BY <1>2, <1>17 DEF FramePids
  <2>5. ASSUME NEW q \in FramePids(G) PROVE q \in FramePids(F) \cup {x}
    <3>1. PICK i \in 1 .. d + 1 : q = G[i].pid
      BY <2>4
    <3>2. CASE i = d + 1
      BY <1>17, <3>1, <3>2
    <3>3. CASE i \in 1 .. d
      BY <1>17, <2>4, <3>1, <3>3
    <3> QED
      BY <2>1, <3>2, <3>3
  <2>6. ASSUME NEW q \in FramePids(F) PROVE q \in FramePids(G)
    <3>1. PICK i \in 1 .. d : q = F[i].pid
      BY <2>4
    <3> QED
      BY <1>17, <2>2, <2>4, <3>1
  <2>7. x \in FramePids(G)
    BY <1>17, <2>3, <2>4
  <2> QED
    BY <2>5, <2>6, <2>7
<1>24. Sound(n, r) /\ n.kills[c] = G
  <2>1. G[1].pid = F[1].pid /\ G[1].doomed = F[1].doomed
    BY <1>8, <1>17
  <2>2. D = doomed_in(k, G[1].pid) /\ G[1].doomed \cap Live(k) \subseteq D /\ (c \in D => c = G[1].pid)
    BY <1>9, <2>1
  <2>3. c # NULLPROC /\ FramePids(G) = FramePids(k.kills[c]) \cup {x}
    BY <1>2, <1>9, <1>23
  <2> QED
    BY <1>1, <1>5, <1>18, <1>19, <1>20, <1>21, <1>22, <2>2, <2>3, EnterSound
<1>25. n.sch = k.sch /\ n.prparent = k.prparent
  BY <1>1, <1>7, <1>18, EnteredFields
<1>26. /\ x \in Live(n) \ {NULLPROC, Root} /\ c = n.sch.currpid /\ c # NULLPROC
       /\ n.prparent[x] # Root
  BY <1>1, <1>9, <1>12, <1>13, <1>14, <1>25 DEF Live
<1>27. Sound(m, r)
  BY <1>18, <1>24, <1>26, TellSound
<1>28. NoneEnds(k, m)
  BY <1>1, <1>7, <1>18, <1>19, EnterEndsNone
<1> QED
  BY <1>1, <1>27, <1>28

-----------------------------------------------------------------------------
(* The victim x leaves the scheduler: nobody else dies, nor loses its place *)
(* right behind main.                                                      *)
Left(S, x, T) ==
  /\ Fifo(T)
  /\ \A q \in Pids : T.prstate[q] = "FREE" <=> S.prstate[q] = "FREE" \/ q = x
  /\ \A q \in Pids \ {x} : /\ T.prstate[q] = "RECV" <=> S.prstate[q] = "RECV"
                           /\ T.prstate[q] = "SUSP" <=> S.prstate[q] = "SUSP"
  /\ \A q \in Pids \ {NULLPROC, x} : InGap(S, q) => InGap(T, q) \/ T.currpid = q
  /\ x # S.currpid => T.currpid = S.currpid

LEMMA VictimLeaves ==
  ASSUME NEW S, Fifo(S), S.currpid # NULLPROC, NEW x \in Pids \ {NULLPROC, Root},
         S.prstate[x] # "FREE", S.prstate[x] # "RECV", NEW T, T = kill_by_state(S, x)
  PROVE  Left(S, x, T)
<1>1. S.prstate \in [Pids -> PrStates] /\ S.currpid \in Pids
  BY FifoFields DEF Fifo
<1>2. S.prstate[x] \in {"CURR", "READY", "SUSP"}
  BY DEF Fifo, InLine, RunStates
<1>3. CASE S.prstate[x] = "CURR"
  <2>1. x = S.currpid
    BY <1>3, FifoFields DEF Fifo, Coherent
  <2>2. T = block(S, "FREE")
    BY <1>3 DEF kill_by_state
  <2>3. Fifo(T) /\ Turns({x}, S, T) /\ T.prstate[x] = "FREE" /\ GapsPass(S, T)
    <3>1. "FREE" \in {"RECV", "FREE"}
      OBVIOUS
    <3> QED
      BY <2>1, <2>2, <3>1, BlockTurns
  <2>4. \A q \in Pids \ {x} : /\ T.prstate[q] = "RECV" <=> S.prstate[q] = "RECV"
                              /\ T.prstate[q] = "FREE" <=> S.prstate[q] = "FREE"
                              /\ T.prstate[q] = "SUSP" <=> S.prstate[q] = "SUSP"
    BY <2>3, TurnsStates
  <2> QED
    BY <2>1, <2>3, <2>4 DEF Left, GapsPass
<1>4. CASE S.prstate[x] = "READY"
  <2>1. T = [S EXCEPT !.readylist = getitem(S.readylist, x), !.prstate[x] = "FREE"]
    BY <1>4 DEF kill_by_state
  <2>2. /\ Fifo(T) /\ T.prstate = [S.prstate EXCEPT ![x] = "FREE"] /\ T.currpid = S.currpid
        /\ \A q \in Pids \ {NULLPROC, x} : InGap(S, q) => InGap(T, q)
    BY <1>4, <2>1, LeaveTurns
  <2>3. \A q \in Pids : T.prstate[q] = IF q = x THEN "FREE" ELSE S.prstate[q]
    BY <1>1, <2>2
  <2> QED
    BY <2>2, <2>3 DEF Left
<1>5. CASE S.prstate[x] = "SUSP"
  <2>1. T = [S EXCEPT !.prstate[x] = "FREE"]
    BY <1>5 DEF kill_by_state
  <2>2. /\ Fifo(T) /\ T.prstate = [S.prstate EXCEPT ![x] = "FREE"] /\ T.currpid = S.currpid
        /\ GapsStay(S, T)
    BY <1>5, <2>1, IdleDies
  <2>3. \A q \in Pids : T.prstate[q] = IF q = x THEN "FREE" ELSE S.prstate[q]
    BY <1>1, <2>2
  <2> QED
    BY <2>2, <2>3 DEF Left, GapsStay
<1> QED
  BY <1>2, <1>3, <1>4, <1>5

(* A childless process that dies is missed in the family, and nobody else. *)
LEMMA FamilyWithout ==
  ASSUME 1 \in Shells, NEW k, NEW r, TreeSound(k, r),
         NEW x \in Live(k) \ {NULLPROC, Root},
         \A y \in Live(k) \ {NULLPROC, Root} : k.prparent[y] # x,
         NEW m, m.prparent = k.prparent, m.user_process = k.user_process,
         Live(m) = Live(k) \ {x}, NEW v \in Live(m) \ {NULLPROC}
  PROVE  doomed_in(m, v) = doomed_in(k, v) \ {x}
<1>1. PICK A, B : A = doomed_in(k, v) /\ B = doomed_in(m, v)
  OBVIOUS
<1>2. v \in Pids /\ v # x
  BY DEF Live
<1>3. v \in A /\ Closed(k, A) /\ v \in B /\ Closed(m, B)
  BY <1>1, <1>2, DoomedIsClosed
<1>4. \A y \in Children : m.sch.prstate[y] # "FREE" <=> (k.sch.prstate[y] # "FREE" /\ y # x)
  BY DEF Live, Children
<1>5. B \subseteq A \ {x}
  <2>1. Closed(m, A \ {x})
    BY <1>3, <1>4 DEF Closed, Joined
  <2> QED
    BY <1>1, <1>2, <1>3, <2>1, DoomedIsLeast
<1>6. A \subseteq B \cup {x}
  <2>1. ASSUME NEW y \in Children, k.sch.prstate[y] # "FREE", k.prparent[y] \in B \cup {x},
               k.user_process[k.prparent[y]], y # x
        PROVE  y \in B
    <3>1. y # Root
      BY <2>1 DEF TreeSound
    <3>2. y \in Live(k) \ {NULLPROC, Root}
      BY <2>1, <3>1 DEF Live, Children
    <3>3. k.prparent[y] \in B
      BY <2>1, <3>2
    <3>4. m.sch.prstate[y] # "FREE" /\ m.prparent[y] \in B /\ m.user_process[m.prparent[y]]
      BY <1>4, <2>1, <3>3
    <3>5. y \in Joined(m, B)
      BY <3>4 DEF Joined
    <3> QED
      BY <1>3, <3>5 DEF Closed
  <2>2. Closed(k, B \cup {x})
    BY <2>1 DEF Closed, Joined
  <2>3. v \in B \cup {x}
    BY <1>3
  <2> QED
    BY <1>1, <1>2, <2>2, <2>3, DoomedIsLeast
<1>7. x \notin B
  BY <1>5
<1> QED
  BY <1>1, <1>5, <1>6, <1>7

(* All of a call of kill but its last frame.                               *)
LEMMA FrontFrames ==
  ASSUME NEW F \in Seq(KillFrames), NEW d, d = Len(F), d # 0
  PROVE  /\ Front(F) \in Seq(KillFrames) /\ d \in Nat \ {0} /\ Len(Front(F)) = d - 1
         /\ \A j \in 1 .. d - 1 : Front(F)[j] = F[j]
<1>1. d \in Nat \ {0} /\ \A i \in 1 .. d : F[i] \in KillFrames
  BY LenProperties
<1>2. \A i \in 1 .. d - 1 : i \in 1 .. d
  BY <1>1
<1>3. 1 \in Int /\ d - 1 \in Int /\ \A i \in 1 .. d - 1 : F[i] \in KillFrames
  BY <1>1, <1>2
<1>4. PICK e : e = d - 1
  OBVIOUS
<1>5. /\ SubSeq(F, 1, e) \in Seq(KillFrames)
      /\ Len(SubSeq(F, 1, e)) = IF 1 <= e THEN e - 1 + 1 ELSE 0
      /\ \A i \in 1 .. e - 1 + 1 : SubSeq(F, 1, e)[i] = F[1 + i - 1]
  BY <1>3, <1>4, SubSeqProperties
<1>6. e \in Nat /\ (IF 1 <= e THEN e - 1 + 1 ELSE 0) = e /\ e - 1 + 1 = e
      /\ \A i \in 1 .. e : 1 + i - 1 = i
  BY <1>1, <1>4
<1>7. Front(F) = SubSeq(F, 1, e)
  BY <1>4 DEF Front
<1> QED
  BY <1>1, <1>4, <1>5, <1>6, <1>7

(* The victim x of the last frame is freed, and the frame is done with.    *)
Ended(k, T, G, m) == m = [k EXCEPT !.kills = [k.kills EXCEPT ![k.sch.currpid] = G], !.sch = T]

EndedFields(k, T, G, m) ==
  /\ IsCascade(m) /\ m.sch = T /\ m.prparent = k.prparent
  /\ m.user_process = k.user_process
  /\ m.receiving = k.receiving /\ m.prcount = k.prcount
  /\ m.kills[k.sch.currpid] = G
  /\ \A q \in Pids \ {k.sch.currpid} : m.kills[q] = k.kills[q]

LEMMA EndChanges ==
  ASSUME NEW k, IsCascade(k), NEW T, NEW G \in Seq(KillFrames), NEW m, Ended(k, T, G, m),
         k.sch.currpid \in Pids
  PROVE  EndedFields(k, T, G, m)
<1>1. PICK K : K = [k.kills EXCEPT ![k.sch.currpid] = G]
  OBVIOUS
<1>2. K \in [Pids -> Seq(KillFrames)]
  BY <1>1, CascadeFields
<1>3. m = [k EXCEPT !.kills = K, !.sch = T]
  BY <1>1 DEF Ended
<1>4. /\ IsCascade(m) /\ m.sch = T /\ m.prparent = k.prparent
      /\ m.user_process = k.user_process
      /\ m.receiving = k.receiving /\ m.prcount = k.prcount /\ m.kills = K
  BY <1>2, <1>3 DEF IsCascade
<1>5. /\ K[k.sch.currpid] = G
      /\ \A q \in Pids \ {k.sch.currpid} : K[q] = k.kills[q]
  BY <1>1, CascadeFields
<1> QED
  BY <1>4, <1>5 DEF EndedFields

(* What kill_end does: the victim is the last of those doomed on its       *)
(* branch, and leaves.                                                     *)
KillEnds(k, c, F, d, x, T, m) ==
  /\ c = k.sch.currpid /\ c \in Killers(k) /\ F = k.kills[c] /\ d = Len(F) /\ x = F[d].pid
  /\ F \in Seq(KillFrames) /\ d \in Nat \ {0}
  /\ x \in Live(k) \ {NULLPROC, Root} /\ x \in Fated(k, c)
  /\ \A y \in Live(k) \ {NULLPROC, Root} : k.prparent[y] # x
  /\ \A j \in 1 .. d - 1 : F[j].pid # x
  /\ c = x => d = 1
  /\ Left(k.sch, x, T) /\ EndedFields(k, T, Front(F), m)

LEMMA KillEndFacts ==
  ASSUME 1 \in Shells, NEW r, Sound(cascade, r), r \in [Pids -> Nat], kill_end
  PROVE  \E c, F, d, x, T : KillEnds(cascade, c, F, d, x, T, cascade')
<1>1. PICK k, m, c : k = cascade /\ m = cascade' /\ c = k.sch.currpid
  OBVIOUS
<1>2. PICK F, d, D, S : F = k.kills[c] /\ d = Len(F) /\ D = Fated(k, c) /\ S = k.sch
  OBVIOUS
<1>3. PICK f, C, x : f = F[d] /\ C = children_left /\ x = f.pid
  OBVIOUS
<1>4. PICK T : T = kill_by_state(S, x)
  OBVIOUS
<1>5. Sound(k, r) /\ F # << >> /\ (k.user_process[x] => C = {})
  BY <1>1, <1>2, <1>3 DEF kill_end, tree_Running, InKill, Frame, tree_Depth
<1>6. C = {y \in f.i .. NPROC - 1 : k.prparent[y] = x /\ k.sch.prstate[y] # "FREE"}
  BY <1>1, <1>2, <1>3 DEF children_left, tree_Running, Frame, tree_Depth, IsLive
<1>7. /\ IsCascade(k) /\ c \in Pids /\ c \in Killers(k) /\ TreeSound(k, r) /\ Fifo(S)
      /\ MainReceives(k)
  BY <1>1, <1>2, <1>5, CallerFacts DEF Sound, Killers
<1>8. F \in Seq(KillFrames) /\ d \in Nat \ {0} /\ d \in 1 .. d /\ 1 \in 1 .. d
      /\ \A i \in 1 .. d : F[i] \in KillFrames
  BY <1>2, <1>7, VictimIsAProcess
<1>9. /\ FramesSound(k, r, D, F) /\ c \in Live(k) \ {NULLPROC} /\ (c \in D => c = F[1].pid)
  <2>1. KillSound(k, r, c)
    BY <1>5, <1>7 DEF Sound, KillsSound
  <2> QED
    BY <1>2, <2>1 DEF KillSound, Victim
<1>10. f \in KillFrames /\ f.i \in 1 .. NPROC
  BY <1>3, <1>8 DEF KillFrames
<1>11. /\ x \in Live(k) \ {NULLPROC, Root} /\ x \in D
       /\ \A y \in Live(k) \ {NULLPROC} : ~(k.prparent[y] = x /\ y < f.i)
  BY <1>2, <1>3, <1>8, <1>9 DEF FramesSound
<1>12. ASSUME NEW y \in Live(k) \ {NULLPROC, Root}, k.prparent[y] = x
       PROVE  FALSE
  <2>1. C = {}
    BY <1>5, <1>7, <1>11, <1>12 DEF TreeSound
  <2>2. y \in Nat /\ y <= NPROC - 1 /\ ~(y < f.i)
    BY <1>11, <1>12, SchedAssumption DEF Live, Pids
  <2>3. y \in C
    BY <1>6, <1>10, <1>12, <2>2, SchedAssumption DEF Live
  <2> QED
    BY <2>1, <2>3
<1>13. ASSUME NEW j \in 1 .. d - 1
       PROVE  F[j].pid # x
  <2>1. j \in 1 .. d /\ j < d
    BY <1>8
  <2>2. r[F[j].pid] < r[x]
    BY <1>2, <1>3, <1>8, <1>9, <2>1 DEF FramesSound
  <2>3. r[x] \in Nat
    BY <1>11 DEF Live
  <2> QED
    BY <2>2, <2>3
<1>14. c = x => d = 1
  <2>1. SUFFICES ASSUME c = x, d # 1 PROVE FALSE
    OBVIOUS
  <2>2. F[1].pid = x
    BY <1>9, <1>11, <2>1
  <2>3. 1 \in 1 .. d - 1
    BY <1>8, <2>1
  <2> QED
    BY <1>13, <2>2, <2>3
<1>15. Left(S, x, T)
  <2>1. x \in Pids \ {NULLPROC, Root} /\ S.prstate[x] # "FREE" /\ S.prstate[x] # "RECV"
    BY <1>2, <1>7, <1>11 DEF Live, MainReceives
  <2>2. S.currpid # NULLPROC
    BY <1>1, <1>2, <1>9
  <2> QED
    BY <1>4, <1>7, <2>1, <2>2, VictimLeaves
<1>16. EndedFields(k, T, Front(F), m)
  <2>1. m = [k EXCEPT !.kills[c] = Front(@), !.sch = kill_by_state(@, x)]
    BY <1>1, <1>2, <1>3 DEF kill_end, tree_Running, Frame, tree_Depth
  <2>2. m = [k EXCEPT !.kills = [k.kills EXCEPT ![c] = Front(F)], !.sch = T]
    <3>1. k.kills \in [Pids -> Seq(KillFrames)]
      BY <1>7, CascadeFields
    <3> QED
      BY <1>2, <1>4, <1>7, <2>1, <3>1 DEF IsCascade
  <2>3. Ended(k, T, Front(F), m)
    BY <1>1, <2>2 DEF Ended
  <2>4. Front(F) \in Seq(KillFrames)
    BY <1>2, <1>8, FrontFrames
  <2> QED
    BY <1>1, <1>7, <2>3, <2>4, EndChanges
<1>17. KillEnds(k, c, F, d, x, T, m)
  BY <1>1, <1>2, <1>3, <1>7, <1>8, <1>11, <1>12, <1>13, <1>14, <1>15, <1>16 DEF KillEnds
<1> QED
  BY <1>1, <1>17

(* Who is left, and whose victims.                                         *)
LEMMA EndEntries ==
  ASSUME 1 \in Shells, NEW k, NEW r, Sound(k, r), r \in [Pids -> Nat],
         NEW c, NEW F, NEW d, NEW x, NEW T, NEW m, KillEnds(k, c, F, d, x, T, m)
  PROVE  /\ Live(m) = Live(k) \ {x} /\ x \in Live(k) /\ x \in Pids
         /\ Killers(m) = IF d = 1 THEN Killers(k) \ {c} ELSE Killers(k)
         /\ d # 1 => c # x /\ T.currpid = c /\ Victim(m, c) = Victim(k, c)
                     /\ Fated(m, c) = Fated(k, c) \ {x}
         /\ \A q \in Killers(k) \ {c} :
              /\ q # x /\ q \in Pids /\ Victim(k, q) # x /\ m.kills[q] = k.kills[q]
              /\ Victim(m, q) = Victim(k, q) /\ Fated(m, q) = Fated(k, q) \ {x}
         /\ Len(m.kills[c]) = d - 1
         /\ \A j \in 1 .. d - 1 : m.kills[c][j] = F[j]
<1>1. /\ c = k.sch.currpid /\ c \in Killers(k) /\ F = k.kills[c] /\ d = Len(F)
      /\ F \in Seq(KillFrames) /\ d \in Nat \ {0}
      /\ x \in Live(k) \ {NULLPROC, Root} /\ x \in Fated(k, c)
      /\ \A y \in Live(k) \ {NULLPROC, Root} : k.prparent[y] # x
      /\ \A j \in 1 .. d - 1 : F[j].pid # x
      /\ c = x => d = 1
  BY DEF KillEnds
<1>2. Left(k.sch, x, T) /\ EndedFields(k, T, Front(F), m)
  BY DEF KillEnds
<1>3. /\ m.sch = T /\ m.prparent = k.prparent /\ m.user_process = k.user_process
      /\ m.kills[c] = Front(F)
      /\ \A q \in Pids \ {c} : m.kills[q] = k.kills[q]
  BY <1>1, <1>2 DEF EndedFields
<1>4. TreeSound(k, r) /\ IsCascade(k) /\ c \in Pids
  BY <1>1, CallerFacts DEF Sound
<1>d. d \in Nat \ {0} /\ d # 0 /\ F \in Seq(KillFrames) /\ d = Len(F)
  BY <1>1
<1>e. d # 1 => 1 \in 1 .. d - 1
  BY <1>d
<1>f. /\ Front(F) \in Seq(KillFrames) /\ Len(Front(F)) = d - 1
      /\ \A j \in 1 .. d - 1 : Front(F)[j] = F[j]
  BY <1>d, FrontFrames
<1>5. Len(m.kills[c]) = d - 1 /\ \A j \in 1 .. d - 1 : m.kills[c][j] = F[j]
  BY <1>3, <1>f
<1>6. Live(m) = Live(k) \ {x} /\ x \in Live(k) /\ x \in Pids
  BY <1>1, <1>2, <1>3 DEF Left, Live
<1>7. ASSUME NEW v \in Live(k) \ {NULLPROC, x}
      PROVE  doomed_in(m, v) = doomed_in(k, v) \ {x}
  <2>1. v \in Live(m) \ {NULLPROC}
    BY <1>6, <1>7
  <2> QED
    BY <1>1, <1>3, <1>4, <1>6, <2>1, FamilyWithout
<1>8. ASSUME NEW q \in Killers(k) \ {c}
      PROVE  /\ q # x /\ q \in Pids /\ Victim(k, q) # x /\ m.kills[q] = k.kills[q]
             /\ Victim(m, q) = Victim(k, q) /\ Fated(m, q) = Fated(k, q) \ {x}
  <2>1. q \notin Fated(k, c) /\ Victim(k, q) \notin Fated(k, c)
    BY <1>1 DEF Sound, KillersWait
  <2>2. q \in Pids \ {c} /\ q # x /\ Victim(k, q) # x
    BY <1>1, <2>1 DEF Killers
  <2>3. m.kills[q] = k.kills[q] /\ Victim(m, q) = Victim(k, q)
    BY <1>3, <2>2 DEF Victim
  <2>4. /\ Victim(k, q) \in Live(k) \ {NULLPROC, Root}
        /\ Fated(k, q) = doomed_in(k, Victim(k, q))
    BY KillerFacts
  <2>5. Victim(k, q) \in Live(k) \ {NULLPROC, x}
    BY <2>2, <2>4
  <2>6. doomed_in(m, Victim(k, q)) = doomed_in(k, Victim(k, q)) \ {x}
    BY <1>7, <2>5
  <2> QED
    BY <2>2, <2>3, <2>4, <2>6 DEF Fated
<1>9. Killers(m) = IF d = 1 THEN Killers(k) \ {c} ELSE Killers(k)
  <2>1. m.kills[c] = << >> <=> d = 1
    <3>1. PICK G : G = Front(F)
      OBVIOUS
    <3>2. G \in Seq(KillFrames) /\ Len(G) = d - 1
      BY <1>f, <3>1
    <3>3. G = << >> <=> Len(G) = 0
      BY <3>2, EmptySeq
    <3>4. Len(G) = 0 <=> d = 1
      BY <1>d, <3>2
    <3> QED
      BY <1>3, <3>1, <3>3, <3>4
  <2>2. \A q \in Pids \ {c} : q \in Killers(m) <=> q \in Killers(k)
    BY <1>3 DEF Killers
  <2>3. c \in Killers(m) <=> d # 1
    BY <1>4, <2>1 DEF Killers
  <2>4. Killers(m) \subseteq Pids /\ Killers(k) \subseteq Pids
    BY DEF Killers
  <2>5. d = 1 => Killers(m) = Killers(k) \ {c}
    BY <2>2, <2>3, <2>4
  <2>6. c \in Killers(k)
    BY <1>1
  <2>7. d # 1 => Killers(m) = Killers(k)
    BY <2>2, <2>3, <2>4, <2>6
  <2> QED
    BY <2>5, <2>7
<1>10. ASSUME d # 1
       PROVE  /\ c # x /\ T.currpid = c /\ Victim(m, c) = Victim(k, c)
              /\ Fated(m, c) = Fated(k, c) \ {x}
  <2>1. c # x /\ T.currpid = c
    BY <1>1, <1>2, <1>10 DEF Left
  <2>2. 1 \in 1 .. d - 1
    BY <1>e, <1>10
  <2>3. m.kills[c][1] = k.kills[c][1] /\ k.kills[c][1].pid # x
    BY <1>1, <1>5, <2>2
  <2>4. Victim(m, c) = Victim(k, c) /\ Victim(k, c) # x
    BY <2>3 DEF Victim
  <2>5. Victim(k, c) \in Live(k) \ {NULLPROC, Root} /\ Fated(k, c) = doomed_in(k, Victim(k, c))
    BY <1>1, KillerFacts
  <2>6. doomed_in(m, Victim(k, c)) = doomed_in(k, Victim(k, c)) \ {x}
    BY <1>7, <2>4, <2>5
  <2> QED
    BY <2>1, <2>4, <2>5, <2>6 DEF Fated
<1> QED
  BY <1>5, <1>6, <1>8, <1>9, <1>10

LEMMA KillEndSound ==
  ASSUME 1 \in Shells, NEW r, Sound(cascade, r), r \in [Pids -> Nat], kill_end
  PROVE  Sound(cascade', r)
<1>1. PICK k, m : k = cascade /\ m = cascade'
  OBVIOUS
<1>2. PICK c, F, d, x, T : KillEnds(k, c, F, d, x, T, m)
  BY <1>1, KillEndFacts
<1>3. /\ c = k.sch.currpid /\ c \in Killers(k) /\ F = k.kills[c] /\ d = Len(F) /\ x = F[d].pid
      /\ d \in Nat \ {0} /\ F \in Seq(KillFrames)
      /\ x \in Live(k) \ {NULLPROC, Root} /\ x \in Fated(k, c)
      /\ \A y \in Live(k) \ {NULLPROC, Root} : k.prparent[y] # x
      /\ \A j \in 1 .. d - 1 : F[j].pid # x
  BY <1>2 DEF KillEnds
<1>4. /\ Left(k.sch, x, T)
      /\ IsCascade(m) /\ m.sch = T /\ m.prparent = k.prparent /\ m.user_process = k.user_process
      /\ m.receiving = k.receiving /\ m.prcount = k.prcount
  BY <1>2 DEF KillEnds, EndedFields
<1>d. d \in Nat \ {0} /\ d \in 1 .. d /\ c \in Killers(k) /\ x \in Fated(k, c)
  <2>1. d \in Nat \ {0} /\ c \in Killers(k) /\ x \in Fated(k, c)
    BY <1>3
  <2>2. d \in 1 .. d
    BY <2>1
  <2> QED
    BY <2>1, <2>2
<1>e. /\ \A j \in 1 .. d - 1 : j \in 1 .. d /\ j < d
      /\ \A j \in 1 .. d : j # d => j \in 1 .. d - 1
      /\ d # 1 => 1 \in 1 .. d - 1
  BY <1>d
<1>5. Sound(k, r)
  BY <1>1
<1>6. IsCascade(k) /\ MainReceives(k) /\ TreeSound(k, r) /\ CountRight(k)
  BY <1>5 DEF Sound
<1>7. Live(m) = Live(k) \ {x} /\ x \in Pids /\ Killers(m) \subseteq Killers(k)
  BY <1>2, <1>5, EndEntries
<1>8. /\ c \in Killers(m) => d # 1
      /\ d # 1 => c # x /\ T.currpid = c /\ Victim(m, c) = Victim(k, c)
                  /\ Fated(m, c) = Fated(k, c) \ {x}
  BY <1>2, <1>5, EndEntries
<1>9. /\ Len(m.kills[c]) = d - 1
      /\ \A j \in 1 .. d - 1 : m.kills[c][j] = F[j]
  BY <1>2, <1>5, EndEntries
<1>10. \A q \in Killers(k) \ {c} :
         /\ q # x /\ q \in Pids /\ Victim(k, q) # x /\ m.kills[q] = k.kills[q]
         /\ Victim(m, q) = Victim(k, q) /\ Fated(m, q) = Fated(k, q) \ {x}
  BY <1>2, <1>5, EndEntries
<1>w. \A q \in Killers(k) \ {c} : Len(k.kills[q]) = 1
  BY <1>3, <1>5 DEF Sound, KillersWait
<1>11. Fifo(m.sch) /\ MainReceives(m)
  <2>1. m.sch.prstate[x] # "RECV"
    <3>1. T.prstate[x] = "FREE"
      BY <1>4, <1>7 DEF Left
    <3> QED
      BY <1>4, <3>1
  <2> QED
    BY <1>4, <1>6, <2>1 DEF Left, MainReceives
<1>12. TreeSound(m, r)
  <2>1. Root \in Live(m) /\ m.prparent[Root] = 1 /\ \A p \in Shells : ~m.user_process[p]
    BY <1>3, <1>4, <1>6, <1>7 DEF TreeSound
  <2>3. ASSUME NEW y \in Live(m) \ {NULLPROC, Root}
        PROVE  /\ m.prparent[y] \in Live(m) \ {NULLPROC}
               /\ m.prparent[y] = Root \/ m.user_process[m.prparent[y]]
               /\ y \notin Shells => m.user_process[y]
               /\ r[m.prparent[y]] < r[y]
    <3>1. y \in Live(k) \ {NULLPROC, Root}
      BY <1>7
    <3>2. k.prparent[y] # x
      BY <1>3, <3>1
    <3>3. /\ k.prparent[y] \in Live(k) \ {NULLPROC}
          /\ k.prparent[y] = Root \/ k.user_process[k.prparent[y]]
          /\ y \notin Shells => k.user_process[y]
          /\ r[k.prparent[y]] < r[y]
      BY <1>6, <3>1 DEF TreeSound
    <3>4. k.prparent[y] \in Live(m) \ {NULLPROC}
      BY <1>7, <3>2, <3>3
    <3> QED
      BY <1>4, <3>3, <3>4
  <2> QED
    BY <2>1, <2>3 DEF TreeSound
<1>13. KillsSound(m, r)
  <2>1. ASSUME NEW q \in Killers(k) \ {c}
        PROVE  KillSound(m, r, q)
    <3>1. KillSound(k, r, q)
      BY <1>5 DEF Sound, KillsSound
    <3>2. FramesSound(m, r, Fated(k, q) \ {x}, k.kills[q])
      <4>1. \A j \in 1 .. Len(k.kills[q]) : k.kills[q][j].pid # x
        BY <1>10, <1>w DEF Victim
      <4> QED
        BY <1>4, <1>7, <3>1, <4>1 DEF KillSound, FramesSound
    <3>3. q \in Live(m) \ {NULLPROC}
      BY <1>7, <1>10, <3>1 DEF KillSound
    <3> QED
      BY <1>7, <1>10, <3>1, <3>2, <3>3 DEF KillSound
  <2>2. ASSUME d # 1
        PROVE  KillSound(m, r, c)
    <3>1. /\ c \in Live(k) \ {NULLPROC} /\ FramesSound(k, r, Fated(k, c), F)
          /\ F[1].doomed \cap Live(k) \subseteq Fated(k, c) /\ (c \in Fated(k, c) => c = Victim(k, c))
      BY <1>3, <1>5 DEF Sound, KillsSound, KillSound
    <3>2. 1 \in 1 .. d - 1 /\ m.kills[c][1] = F[1]
      <4>1. 1 \in 1 .. d - 1
        BY <1>e, <2>2
      <4> QED
        BY <1>9, <4>1
    <3>3. PICK G : G = m.kills[c]
      OBVIOUS
    <3>4. FramesSound(m, r, Fated(k, c) \ {x}, G)
      <4>1. Len(G) = d - 1 /\ \A j \in 1 .. d - 1 : G[j] = F[j] /\ j \in 1 .. d
        BY <1>9, <1>e, <3>3
      <4>2. ASSUME NEW j \in 1 .. d - 1
            PROVE  /\ G[j].pid \in Live(m) \ {NULLPROC, Root} /\ G[j].pid \in Fated(k, c) \ {x}
                   /\ \A y \in Live(m) \ {NULLPROC} :
                        m.prparent[y] = G[j].pid /\ y < G[j].i => j < d - 1 /\ y = G[j + 1].pid
        <5>1. /\ F[j].pid \in Live(k) \ {NULLPROC, Root} /\ F[j].pid \in Fated(k, c)
              /\ \A y \in Live(k) \ {NULLPROC} :
                   k.prparent[y] = F[j].pid /\ y < F[j].i => y = F[j + 1].pid
          <6>1. j \in 1 .. Len(F)
            BY <1>3, <4>1
          <6>2. /\ F[j].pid \in Live(k) \ {NULLPROC, Root} /\ F[j].pid \in Fated(k, c)
                /\ \A y \in Live(k) \ {NULLPROC} :
                     k.prparent[y] = F[j].pid /\ y < F[j].i => j < Len(F) /\ y = F[j + 1].pid
            BY <3>1, <6>1 DEF FramesSound
          <6> QED
            BY <6>2
        <5>2. G[j] = F[j] /\ F[j].pid # x
          BY <1>3, <4>1
        <5>3. ASSUME NEW y \in Live(m) \ {NULLPROC}, m.prparent[y] = G[j].pid, y < G[j].i
              PROVE  j < d - 1 /\ y = G[j + 1].pid
          <6>1. y = F[j + 1].pid /\ y # x
            BY <1>4, <1>7, <5>1, <5>2, <5>3
          <6>2. j + 1 # d
            BY <1>3, <6>1
          <6>3. j < d - 1 /\ j + 1 \in 1 .. d - 1
            BY <1>d, <6>2
          <6> QED
            BY <4>1, <6>1, <6>3
        <5> QED
          BY <1>7, <5>1, <5>2, <5>3
      <4>3. \A i, j \in 1 .. d - 1 : i < j => r[G[i].pid] < r[G[j].pid]
        <5>1. ASSUME NEW i \in 1 .. d - 1, NEW j \in 1 .. d - 1, i < j
              PROVE  r[G[i].pid] < r[G[j].pid]
          <6>1. i \in 1 .. Len(F) /\ j \in 1 .. Len(F)
            BY <1>3, <4>1
          <6>2. r[F[i].pid] < r[F[j].pid]
            BY <3>1, <5>1, <6>1 DEF FramesSound
          <6> QED
            BY <4>1, <6>2
        <5> QED
          BY <5>1
      <4> QED
        BY <4>1, <4>2, <4>3 DEF FramesSound
    <3>5. Fated(m, c) = Fated(k, c) \ {x} /\ Victim(m, c) = Victim(k, c) /\ c # x
      BY <1>8, <2>2
    <3>6. c \in Live(m) \ {NULLPROC}
      BY <1>7, <3>1, <3>5
    <3>7. m.kills[c][1].doomed \cap Live(m) \subseteq Fated(m, c)
      BY <1>7, <3>1, <3>2, <3>5
    <3> QED
      BY <3>1, <3>3, <3>4, <3>5, <3>6, <3>7 DEF KillSound
  <2> QED
    BY <1>7, <1>8, <2>1, <2>2 DEF KillsSound
<1>15. KillersWait(m)
  <2>1. ASSUME NEW p \in Killers(m), p # m.sch.currpid
        PROVE  /\ Len(m.kills[p]) = 1 /\ m.kills[p][1].i = 1
               /\ InGap(m.sch, p)
               /\ \A q \in Killers(m) \ {p} : p \notin Fated(m, q) /\ Victim(m, p) \notin Fated(m, q)
    <3>1. p \in Killers(k) \ {c}
      BY <1>4, <1>7, <1>8, <2>1
    <3>2. /\ Len(k.kills[p]) = 1 /\ k.kills[p][1].i = 1 /\ InGap(k.sch, p)
          /\ \A q \in Killers(k) \ {p} : p \notin Fated(k, q) /\ Victim(k, p) \notin Fated(k, q)
      BY <1>3, <1>5, <3>1 DEF Sound, KillersWait
    <3>3. p # NULLPROC
      BY <1>5, <3>1 DEF Sound, KillsSound, KillSound
    <3>4. m.kills[p] = k.kills[p] /\ Victim(m, p) = Victim(k, p) /\ p # x /\ p \in Pids
      BY <1>10, <3>1
    <3>6. InGap(m.sch, p)
      BY <1>4, <2>1, <3>2, <3>3, <3>4 DEF Left
    <3>7. \A q \in Killers(m) \ {p} : p \notin Fated(m, q) /\ Victim(m, p) \notin Fated(m, q)
      BY <1>7, <1>8, <1>10, <3>2, <3>4
    <3> QED
      BY <3>2, <3>4, <3>6, <3>7
  <2> QED
    BY <2>1 DEF KillersWait
<1>16. CountRight(m)
  <2>1. Victims(m) = Victims(k) \ {x}
    <3>1. ASSUME NEW p \in Killers(m), NEW i \in 1 .. Len(m.kills[p])
          PROVE  m.kills[p][i].pid \in Victims(k) /\ m.kills[p][i].pid # x
      <4>1. CASE p # c
        <5>1. m.kills[p] = k.kills[p] /\ Victim(k, p) # x /\ p \in Killers(k)
          BY <1>7, <1>10, <4>1
        <5>2. i \in 1 .. Len(k.kills[p]) /\ m.kills[p][i] = k.kills[p][i]
          BY <5>1
        <5>3. k.kills[p][i].pid = Victim(k, p)
          BY <1>w, <4>1, <5>1, <5>2 DEF Victim
        <5> QED
          BY <5>1, <5>2, <5>3 DEF Victims
      <4>2. CASE p = c
        <5>1. i \in 1 .. d - 1
          BY <1>9, <4>2
        <5>2. i \in 1 .. d /\ m.kills[p][i] = F[i] /\ F[i].pid # x
          BY <1>3, <1>9, <1>e, <4>2, <5>1
        <5>3. i \in 1 .. Len(k.kills[c]) /\ m.kills[p][i] = k.kills[c][i] /\ k.kills[c][i].pid # x
          BY <1>3, <5>2
        <5>4. k.kills[c][i].pid \in Victims(k)
          BY <1>d, <5>3 DEF Victims
        <5> QED
          BY <5>3, <5>4
      <4> QED
        BY <4>1, <4>2
    <3>2. ASSUME NEW p \in Killers(k), NEW i \in 1 .. Len(k.kills[p]), k.kills[p][i].pid # x
          PROVE  k.kills[p][i].pid \in Victims(m)
      <4>1. CASE p # c
        <5>1. m.kills[p] = k.kills[p] /\ p \in Killers(m)
          <6>1. m.kills[p] = k.kills[p] /\ p \in Pids
            BY <1>10, <4>1
          <6> QED
            BY <6>1 DEF Killers
        <5> QED
          BY <5>1 DEF Victims
      <4>2. CASE p = c
        <5>1. i # d /\ i \in 1 .. d
          BY <1>3, <3>2, <4>2
        <5>2. i \in 1 .. d - 1
          BY <1>e, <5>1
        <5>3. i \in 1 .. Len(m.kills[c]) /\ m.kills[c][i] = k.kills[p][i]
          <6>1. m.kills[c][i] = F[i] /\ F = k.kills[p]
            BY <1>3, <1>9, <4>2, <5>2
          <6>2. i \in 1 .. Len(m.kills[c])
            BY <1>9, <5>2
          <6> QED
            BY <6>1, <6>2
        <5>4. c \in Killers(m)
          <6>1. Len(m.kills[c]) # 0
            BY <1>9, <1>d, <5>2
          <6>2. m.kills[c] # << >>
            BY <6>1
          <6> QED
            BY <1>3, <6>2 DEF Killers
        <5> QED
          BY <5>3, <5>4 DEF Victims
      <4> QED
        BY <4>1, <4>2
    <3>3. \A v \in Victims(m) : v \in Victims(k) /\ v # x
      <4>1. ASSUME NEW v \in Victims(m)
            PROVE  v \in Victims(k) /\ v # x
        <5>1. PICK p \in Killers(m) : \E i \in 1 .. Len(m.kills[p]) : v = m.kills[p][i].pid
          BY <4>1 DEF Victims
        <5> QED
          BY <3>1, <5>1
      <4> QED
        BY <4>1
    <3>4. \A v \in Victims(k) : v # x => v \in Victims(m)
      <4>1. ASSUME NEW v \in Victims(k), v # x
            PROVE  v \in Victims(m)
        <5>1. PICK p \in Killers(k) : \E i \in 1 .. Len(k.kills[p]) : v = k.kills[p][i].pid
          BY <4>1 DEF Victims
        <5> QED
          BY <3>2, <4>1, <5>1
      <4> QED
        BY <4>1
    <3> QED
      BY <3>3, <3>4
  <2>2. x \in Victims(k)
    <3>1. d \in 1 .. Len(k.kills[c]) /\ k.kills[c][d].pid = x
      BY <1>3, <1>d
    <3> QED
      BY <1>d, <3>1 DEF Victims
  <2>3. PICK V, A, a, b : V = Victims(k) /\ A = Live(k) /\ a = Cardinality(A) /\ b = Cardinality(V)
    OBVIOUS
  <2>4. IsFiniteSet(V) /\ IsFiniteSet(A) /\ a \in Nat /\ b \in Nat
    BY <1>6, <2>3, VictimsFinite, LiveFinite
  <2>5. x \in A /\ x \in V
    BY <1>3, <2>2, <2>3
  <2>6. Cardinality(A \ {x}) = a - 1
    BY <2>3, <2>4, <2>5, FS_RemoveElement
  <2>7. Cardinality(V \ {x}) = b - 1
    BY <2>3, <2>4, <2>5, FS_RemoveElement
  <2>8. k.prcount = a - b /\ m.prcount = k.prcount
    BY <1>4, <1>6, <2>3 DEF CountRight
  <2> QED
    BY <1>7, <2>1, <2>3, <2>4, <2>6, <2>7, <2>8 DEF CountRight
<1>17. Sound(m, r)
  BY <1>4, <1>11, <1>12, <1>13, <1>15, <1>16 DEF Sound
<1> QED
  BY <1>1, <1>17

-----------------------------------------------------------------------------
LEMMA InitIsFifo ==
  ASSUME CascadeInit
  PROVE  Fifo(cascade.sch)
<1>1. PICK S : S = cascade.sch
  OBVIOUS
<1>2. /\ S = [prstate   |-> S.prstate, prprio |-> S.prprio, readylist |-> <<NULLPROC>>,
              sleepq    |-> << >>, qkey |-> S.qkey, currpid |-> Root,
              preempt   |-> QUANTUM, ndefers |-> 0, attempt |-> FALSE]
      /\ S.prstate = [p \in Pids |-> CASE p = NULLPROC -> "READY"
                                       [] p = Root -> "CURR" [] OTHER -> "FREE"]
      /\ S.prprio = [p \in Pids |-> IF p = Root THEN INITPRIO ELSE 0]
      /\ S.qkey = [p \in Pids |-> 0]
  BY <1>1 DEF CascadeInit
<1>3. Root \in Pids /\ NULLPROC \in Pids /\ Root # NULLPROC /\ INITPRIO \in Nat \ {0}
  BY RootIsAProcess, SchedAssumption, CascadeAssumption DEF Root, NULLPROC, Pids
<1>4. /\ S.readylist = <<NULLPROC>> /\ S.sleepq = << >> /\ S.currpid = Root
      /\ S.preempt = QUANTUM /\ S.ndefers = 0 /\ S.attempt = FALSE
  BY <1>2
<1>5. \A p \in Pids : /\ S.prstate[p] = (IF p = NULLPROC THEN "READY" ELSE IF p = Root THEN "CURR" ELSE "FREE")
                      /\ S.prprio[p] = (IF p = Root THEN INITPRIO ELSE 0)
                      /\ S.qkey[p] = 0
  <2>1. \A p \in Pids : S.prprio[p] = (IF p = Root THEN INITPRIO ELSE 0)
    BY <1>2
  <2>2. \A p \in Pids : S.qkey[p] = 0
    BY <1>2
  <2>3. \A p \in Pids : S.prstate[p] = (IF p = NULLPROC THEN "READY" ELSE IF p = Root THEN "CURR" ELSE "FREE")
    <3>1. S.prstate = [p \in Pids |-> CASE p = NULLPROC -> "READY"
                                        [] p = Root -> "CURR" [] OTHER -> "FREE"]
      BY <1>2
    <3> QED
      BY <1>3, <3>1
  <2> QED
    BY <2>1, <2>2, <2>3
<1>6. IsSched(S)
  <2>1. {S.qkey[p] : p \in DOMAIN S.qkey} = {0}
    BY <1>2, <1>3
  <2>2. S.prstate \in [Pids -> PrStates] /\ S.prprio \in [Pids -> Nat] /\ S.qkey \in [Pids -> {0}]
    BY <1>2, <1>3 DEF PrStates
  <2>3. <<NULLPROC>> \in Seq(Pids) /\ << >> \in Seq(Pids)
    BY <1>3
  <2>4. PICK st, pr, key : st = S.prstate /\ pr = S.prprio /\ key = S.qkey
    OBVIOUS
  <2>5. S = [prstate |-> st, prprio |-> pr, readylist |-> <<NULLPROC>>,
             sleepq  |-> << >>, qkey |-> key, currpid |-> Root,
             preempt |-> QUANTUM, ndefers |-> 0, attempt |-> FALSE]
    BY <1>2, <2>4
  <2>6. st \in [Pids -> PrStates] /\ pr \in [Pids -> Nat] /\ key \in [Pids -> {0}]
    BY <2>2, <2>4
  <2>7. QUANTUM \in 1 .. QUANTUM /\ 0 \in {0, 1} /\ FALSE \in BOOLEAN
    BY SchedAssumption
  <2>8. S \in SchedRecords({0})
    BY <1>3, <2>3, <2>5, <2>6, <2>7 DEF SchedRecords
  <2> QED
    BY <2>1, <2>8 DEF IsSched
<1>7. /\ IsInjective(S.readylist) /\ ToSet(S.readylist) = {NULLPROC}
      /\ IsInjective(S.sleepq) /\ ToSet(S.sleepq) = {}
  <2>1. IsInjective(<<NULLPROC>>) /\ ToSet(<<NULLPROC>>) = {NULLPROC}
    BY DEF IsInjective, ToSet
  <2>2. IsInjective(<< >>) /\ ToSet(<< >>) = {}
    BY DEF IsInjective, ToSet
  <2> QED
    BY <1>4, <2>1, <2>2
<1>8. SchedOK(S)
  <2>1. S.prstate[NULLPROC] \in Eligible
    BY <1>3, <1>5 DEF Eligible
  <2>2. \A p \in Pids : S.prstate[p] \notin Delayed
    BY <1>5 DEF Delayed
  <2> QED
    BY <1>4, <1>5, <1>6, <1>7, <2>1, <2>2 DEF SchedOK, Coherent
<1>9. Running(S) /\ \A p \in Pids : S.prstate[p] \in RunStates
  BY <1>3, <1>4, <1>5 DEF Running, RunStates
<1>10. MainLowest(S)
  BY <1>3, <1>5 DEF MainLowest
<1>11. InTurn(S) /\ HighestFirst(S)
  <2>1. S.qkey[NULLPROC] = 0 /\ S.prprio[NULLPROC] = 0 /\ S.prprio[S.currpid] = INITPRIO
    BY <1>3, <1>4, <1>5
  <2>2. Descending(S.readylist, S.prprio)
    <3>1. Len(S.readylist) = 1
      BY <1>4
    <3> QED
      BY <3>1 DEF Descending
  <2> QED
    BY <1>3, <1>7, <2>1, <2>2 DEF InTurn, HighestFirst
<1> QED
  BY <1>1, <1>4, <1>8, <1>9, <1>10, <1>11 DEF Fifo, InLine

LEMMA CascadeInitSound ==
  ASSUME CascadeInit
  PROVE  CascadeIInv
<1>1. PICK k, r : k = cascade /\ r = [p \in Pids |-> 0]
  OBVIOUS
<1>2. Fifo(k.sch)
  BY <1>1, InitIsFifo
<1>3. /\ k.prparent = [p \in Pids |-> IF p = Root THEN 1 ELSE NULLPROC]
      /\ k.prhasmsg = [p \in Pids |-> p = NULLPROC]
      /\ k.user_process = [p \in Pids |-> FALSE]
      /\ k.prcount = 2 /\ k.nextpid = (Root + 1) % NPROC /\ k.receiving = {}
      /\ k.kills = [p \in Pids |-> << >>]
  BY <1>1 DEF CascadeInit
<1>4. /\ Root \in Pids /\ NULLPROC \in Pids /\ Root # NULLPROC /\ 1 \in Pids
      /\ NPROC \in Nat /\ NPROC > 2
  BY RootIsAProcess, SchedAssumption DEF Root, NULLPROC, Pids
<1>5. \A p \in Pids : k.sch.prstate[p] = (IF p = NULLPROC THEN "READY" ELSE IF p = Root THEN "CURR" ELSE "FREE")
  <2>1. k.sch.prstate = [p \in Pids |-> CASE p = NULLPROC -> "READY"
                                           [] p = Root -> "CURR" [] OTHER -> "FREE"]
    BY <1>1 DEF CascadeInit
  <2> QED
    BY <1>4, <2>1
<1>6. IsCascade(k)
  <2>1. k.prparent \in [Pids -> Pids] /\ k.prhasmsg \in [Pids -> BOOLEAN] /\ k.user_process \in [Pids -> BOOLEAN]
    BY <1>3, <1>4
  <2>2. (Root + 1) % NPROC \in Pids
    BY <1>4 DEF Pids, Root
  <2>3. k.kills \in [Pids -> Seq(KillFrames)]
    <3>1. << >> \in Seq(KillFrames)
      OBVIOUS
    <3> QED
      BY <1>3, <3>1
  <2>4. k = [sch |-> k.sch, prparent |-> k.prparent, prhasmsg |-> k.prhasmsg,
             user_process |-> k.user_process, prcount |-> k.prcount, nextpid |-> k.nextpid,
             receiving |-> k.receiving, kills |-> k.kills]
    BY <1>1 DEF CascadeInit
  <2>5. k.prcount \in Int /\ k.nextpid \in Pids /\ k.receiving \in SUBSET Pids
    BY <1>3, <2>2
  <2> QED
    BY <2>1, <2>3, <2>4, <2>5 DEF IsCascade
<1>7. Live(k) = {NULLPROC, Root} /\ Killers(k) = {}
  BY <1>3, <1>4, <1>5 DEF Live, Killers
<1>8. MainReceives(k)
  BY <1>3, <1>5 DEF MainReceives
<1>9. TreeSound(k, r)
  <2>1. \A p \in Shells : ~k.user_process[p]
    BY <1>3, CascadeAssumption
  <2> QED
    BY <1>3, <1>4, <1>7, <2>1 DEF TreeSound
<1>10. KillsSound(k, r) /\ KillersWait(k)
  BY <1>7 DEF KillsSound, KillersWait
<1>11. CountRight(k)
  <2>1. Cardinality({NULLPROC, Root}) = 2
    <3>1. IsFiniteSet({NULLPROC}) /\ Cardinality({NULLPROC}) = 1
      BY FS_Singleton
    <3>2. Cardinality({NULLPROC} \cup {Root}) = 2
      BY <1>4, <3>1, FS_AddElement
    <3>3. {NULLPROC} \cup {Root} = {NULLPROC, Root}
      OBVIOUS
    <3> QED
      BY <3>2, <3>3
  <2>2. Victims(k) = {}
    BY <1>7 DEF Victims
  <2>3. Cardinality(Victims(k)) = 0
    BY <2>2, FS_EmptySet
  <2> QED
    BY <1>3, <1>7, <2>1, <2>3 DEF CountRight
<1>12. Sound(k, r)
  BY <1>2, <1>6, <1>8, <1>9, <1>10, <1>11 DEF Sound
<1>13. r \in [Pids -> Nat]
  BY <1>1
<1> QED
  BY <1>1, <1>12, <1>13 DEF CascadeIInv

LEMMA CascadeStepSound ==
  ASSUME Receivers \subseteq {Root}, 1 \in Shells, ~SystemForks, KillCases = {},
         \A prio \in CreatePrios : prio >= INITPRIO,
         CascadeIInv, CascadeNext
  PROVE  CascadeIInv'
<1>1. PICK r \in [Pids -> Nat] : Sound(cascade, r)
  BY DEF CascadeIInv
<1>2. SUFFICES \E s \in [Pids -> Nat] : Sound(cascade', s)
  BY DEF CascadeIInv
<1>3. CASE null_loop
  BY <1>1, <1>3 DEF null_loop
<1>4. CASE tree_yield
  BY <1>1, <1>4, YieldSound
<1>5. CASE tree_receive
  BY <1>1, <1>5, ReceiveSound
<1>6. CASE tree_received
  BY <1>1, <1>6, ReceivedSound
<1>7. ASSUME NEW p \in Children, NEW prio \in CreatePrios, tree_create(p, prio)
      PROVE  \E s \in [Pids -> Nat] : Sound(cascade', s)
  BY <1>1, <1>7, CreateSound
<1>8. ASSUME NEW p \in Children, fork(p)
      PROVE  \E s \in [Pids -> Nat] : Sound(cascade', s)
  BY <1>1, <1>8, ForkSound
<1>9. ASSUME NEW p \in Children, tree_resume(p)
      PROVE  \E s \in [Pids -> Nat] : Sound(cascade', s)
  BY <1>1, <1>9, ResumeSound
<1>10. ASSUME NEW p \in Children, tree_kill(p)
       PROVE  \E s \in [Pids -> Nat] : Sound(cascade', s)
  BY <1>1, <1>10, TreeKillSound
<1>11. CASE kill_child
  BY <1>1, <1>11, KillChildSound
<1>12. CASE kill_end
  BY <1>1, <1>12, KillEndSound
<1> QED
  BY <1>3, <1>4, <1>5, <1>6, <1>7, <1>8, <1>9, <1>10, <1>11, <1>12 DEF CascadeNext

(* CascadeIInv holds at every step, for any number of processes: the tree  *)
(* that fork makes and kill cuts down (fork.c, kill.c), the calls of kill  *)
(* that are under way, and what keeps those apart.  The conditions are     *)
(* those of SpecFamilyIntact.                                              *)
THEOREM CascadeInductive ==
  ASSUME Receivers \subseteq {Root}, 1 \in Shells, ~SystemForks, KillCases = {},
         \A prio \in CreatePrios : prio >= INITPRIO
  PROVE  CascadeSpec => []CascadeIInv
<1>1. CascadeInit => CascadeIInv
  BY CascadeInitSound
<1>2. CascadeIInv /\ [CascadeNext]_cascade => CascadeIInv'
  <2>1. CASE CascadeNext
    BY <2>1, CascadeStepSound
  <2>2. CASE UNCHANGED cascade
    BY <2>2 DEF CascadeIInv
  <2> QED
    BY <2>1, <2>2
<1> QED
  BY <1>1, <1>2, PTL DEF CascadeSpec

-----------------------------------------------------------------------------
(***************************************************************************)
(* What the invariant says of the family.  Ranks fall along prparent, and  *)
(* there are more generations than processes: so main is met.              *)
(***************************************************************************)
IsClimb(k, f) ==
  /\ f \in [0 .. NPROC -> Pids]
  /\ f[0] \in Live(k) \ {NULLPROC, Root}
  /\ \A n \in 1 .. NPROC : f[n] = k.prparent[f[n - 1]]

MeetsMain(f) == \E n \in 1 .. NPROC : f[n] = Root

LEMMA MainIsMet ==
  ASSUME NEW k, NEW r, r \in [Pids -> Nat], TreeSound(k, r), NEW f, IsClimb(k, f)
  PROVE  MeetsMain(f)
<1>0. /\ f \in [0 .. NPROC -> Pids]
      /\ f[0] \in Live(k) \ {NULLPROC, Root}
      /\ \A n \in 1 .. NPROC : f[n] = k.prparent[f[n - 1]]
  BY DEF IsClimb
<1>1. SUFFICES ASSUME \A n \in 1 .. NPROC : f[n] # Root PROVE FALSE
  BY DEF MeetsMain
<1>2. NPROC \in Nat \ {0}
  BY SchedAssumption
<1>3. \A n \in 0 .. NPROC : f[n] \in Live(k) \ {NULLPROC, Root}
  <2>1. PICK Bad : Bad = {n \in 0 .. NPROC : f[n] \notin Live(k) \ {NULLPROC, Root}}
    OBVIOUS
  <2>2. SUFFICES ASSUME Bad # {} PROVE FALSE
    BY <2>1
  <2>3. PICK n \in Bad : \A j \in Bad : n <= j
    <3>1. Bad \in SUBSET Nat
      BY <1>2, <2>1
    <3> QED
      BY <2>2, <3>1, LeastOfNaturals
  <2>4. n \in 0 .. NPROC /\ n # 0 /\ f[n] \notin Live(k) \ {NULLPROC, Root}
    BY <1>0, <2>1
  <2>5. n - 1 \in 0 .. NPROC /\ n \in 1 .. NPROC /\ n - 1 \notin Bad
    BY <1>2, <2>3, <2>4
  <2>6. f[n - 1] \in Live(k) \ {NULLPROC, Root}
    BY <2>1, <2>5
  <2>7. k.prparent[f[n - 1]] \in Live(k) \ {NULLPROC}
    BY <2>6 DEF TreeSound
  <2> QED
    BY <1>0, <1>1, <2>4, <2>5, <2>7
<1>4. \A n \in 1 .. NPROC : r[f[n]] < r[f[n - 1]]
  <2>1. ASSUME NEW n \in 1 .. NPROC
        PROVE  r[f[n]] < r[f[n - 1]]
    <3>1. n - 1 \in 0 .. NPROC
      BY <1>2
    <3>2. f[n - 1] \in Live(k) \ {NULLPROC, Root}
      BY <1>3, <3>1
    <3>3. r[k.prparent[f[n - 1]]] < r[f[n - 1]]
      BY <3>2 DEF TreeSound
    <3> QED
      BY <1>0, <3>3
  <2> QED
    BY <2>1
<1>5. ASSUME NEW i \in 0 .. NPROC
      PROVE  \A j \in 0 .. NPROC : i < j => r[f[j]] < r[f[i]]
  <2>1. PICK Bad : Bad = {j \in 0 .. NPROC : i < j /\ ~(r[f[j]] < r[f[i]])}
    OBVIOUS
  <2>2. SUFFICES ASSUME Bad # {} PROVE FALSE
    BY <2>1
  <2>3. PICK n \in Bad : \A j \in Bad : n <= j
    <3>1. Bad \in SUBSET Nat
      BY <1>2, <2>1
    <3> QED
      BY <2>2, <3>1, LeastOfNaturals
  <2>4. n \in 0 .. NPROC /\ i < n /\ ~(r[f[n]] < r[f[i]])
    BY <2>1
  <2>5. n - 1 \in 0 .. NPROC /\ n \in 1 .. NPROC /\ n - 1 \notin Bad
    BY <1>2, <2>3, <2>4
  <2>6. i < n - 1 => r[f[n - 1]] < r[f[i]]
    BY <2>1, <2>5
  <2>7. i < n - 1 \/ i = n - 1
    BY <1>2, <2>4
  <2>8. r[f[n]] < r[f[n - 1]]
    BY <1>4, <2>5
  <2>9. f[n] \in Pids /\ f[n - 1] \in Pids /\ f[i] \in Pids
    BY <1>0, <1>5, <2>4, <2>5
  <2>10. r[f[n]] \in Nat /\ r[f[n - 1]] \in Nat /\ r[f[i]] \in Nat
    BY <2>9
  <2> QED
    BY <2>4, <2>6, <2>7, <2>8, <2>10
<1>6. \E i, j \in 0 .. NPROC : i # j /\ f[i] = f[j]
  <2>1. IsFiniteSet(Pids) /\ Cardinality(Pids) = NPROC
    BY <1>2, FS_Interval DEF Pids
  <2>2. IsFiniteSet(0 .. NPROC) /\ Cardinality(0 .. NPROC) = NPROC + 1
    BY <1>2, FS_Interval
  <2>3. Cardinality(Pids) < Cardinality(0 .. NPROC)
    BY <1>2, <2>1, <2>2
  <2>4. PICK A, B : A = 0 .. NPROC /\ B = Pids
    OBVIOUS
  <2>5. IsFiniteSet(A) /\ IsFiniteSet(B) /\ Cardinality(B) < Cardinality(A) /\ f \in [A -> B]
    BY <1>0, <2>1, <2>2, <2>3, <2>4
  <2>6. \E i, j \in A : i # j /\ f[i] = f[j]
    BY <2>5, FS_PigeonHole
  <2> QED
    BY <2>4, <2>6
<1>7. PICK i \in 0 .. NPROC, j \in 0 .. NPROC : i < j /\ f[i] = f[j]
  BY <1>2, <1>6
<1>8. r[f[j]] < r[f[i]]
  BY <1>5, <1>7
<1>9. r[f[i]] \in Nat
  BY <1>0, <1>7
<1> QED
  BY <1>7, <1>8, <1>9

LEMMA MainIsAnAncestor ==
  ASSUME CascadeIInv, NEW p \in Children \ {Root}, IsLive(p)
  PROVE  Root \in ancestors(p) /\ IsLive(cascade.prparent[p])
<1>1. PICK k : k = cascade
  OBVIOUS
<1>2. PICK r \in [Pids -> Nat] : TreeSound(k, r) /\ IsCascade(k)
  BY <1>1 DEF CascadeIInv, Sound
<1>3. p \in Live(k) \ {NULLPROC, Root} /\ p \in Pids
  BY <1>1 DEF IsLive, Live, Children
<1>4. PICK g : g = k.prparent
  OBVIOUS
<1>5. g \in [Pids -> Pids] /\ NPROC \in Nat
  BY <1>2, <1>4, CascadeFields, SchedAssumption
<1>6. PICK e : IsIteration(e, Pids, p, g, NPROC)
  BY <1>3, <1>5, IterationExists
<1>7. PICK f : f = CHOOSE d : d = [n \in 0 .. NPROC |-> IF n = 0 THEN p ELSE g[d[n-1]]]
  OBVIOUS
<1>8. ancestors(p) = {f[n] : n \in 1 .. NPROC}
  BY <1>1, <1>4, <1>7 DEF ancestors
<1>9. e \in [0 .. NPROC -> Pids] /\ e = [n \in 0 .. NPROC |-> IF n = 0 THEN p ELSE g[e[n-1]]]
  BY <1>6 DEF IsIteration
<1>10. f = [n \in 0 .. NPROC |-> IF n = 0 THEN p ELSE g[f[n-1]]]
  BY <1>7, <1>9
<1>11. \A n \in 0 .. NPROC : f[n] = IF n = 0 THEN p ELSE g[f[n-1]]
  BY <1>10
<1>12. 0 \in 0 .. NPROC /\ \A n \in 1 .. NPROC : n \in 0 .. NPROC /\ n # 0 /\ n - 1 \in 0 .. NPROC
  BY <1>5
<1>13. f[0] = p /\ \A n \in 1 .. NPROC : f[n] = g[f[n - 1]]
  BY <1>11, <1>12
<1>14. f \in [0 .. NPROC -> Pids]
  <2>1. PICK Bad : Bad = {n \in 0 .. NPROC : f[n] \notin Pids}
    OBVIOUS
  <2>2. Bad = {}
    <3>1. SUFFICES ASSUME Bad # {} PROVE FALSE
      OBVIOUS
    <3>2. PICK n \in Bad : \A j \in Bad : n <= j
      <4>1. Bad \in SUBSET Nat
        BY <1>5, <2>1
      <4> QED
        BY <3>1, <4>1, LeastOfNaturals
    <3>3. n \in 0 .. NPROC /\ n # 0 /\ f[n] \notin Pids
      BY <1>3, <1>13, <2>1
    <3>4. n - 1 \in 0 .. NPROC /\ n \in 1 .. NPROC /\ n - 1 \notin Bad
      BY <1>5, <3>2, <3>3
    <3>5. f[n - 1] \in Pids /\ f[n] = g[f[n - 1]]
      BY <1>13, <2>1, <3>4
    <3> QED
      BY <1>5, <3>3, <3>5
  <2>3. f = [n \in 0 .. NPROC |-> f[n]]
    BY <1>10
  <2> QED
    BY <2>1, <2>2, <2>3
<1>15. IsClimb(k, f)
  BY <1>3, <1>4, <1>13, <1>14 DEF IsClimb
<1>16. \E n \in 1 .. NPROC : f[n] = Root
  BY <1>2, <1>15, MainIsMet DEF MeetsMain
<1>17. IsLive(cascade.prparent[p])
  BY <1>1, <1>2, <1>3 DEF TreeSound, Live, IsLive
<1> QED
  BY <1>8, <1>16, <1>17

(* Who is in kill, and whom it has counted down.                           *)
LEMMA CountsOfInvariant ==
  ASSUME CascadeIInv
  PROVE  CascadeCounts
<1>1. PICK k : k = cascade
  OBVIOUS
<1>2. PICK r \in [Pids -> Nat] : Sound(k, r)
  BY <1>1 DEF CascadeIInv
<1>3. IsCascade(k) /\ CountRight(k)
  BY <1>2 DEF Sound
<1>4. {p \in Pids : IsLive(p)} = Live(k)
  BY <1>1 DEF IsLive, Live
<1>5. InKills = Killers(k)
  <2>1. \A p \in Killers(k) : p \in Live(k) \ {NULLPROC}
    BY <1>2 DEF Sound, KillsSound, KillSound
  <2> QED
    BY <1>1, <2>1 DEF InKills, Killers, InKill, IsLive, Live, Children
<1>6. \A p \in Killers(k) : DOMAIN k.kills[p] = 1 .. Len(k.kills[p])
  <2>1. \A p \in Killers(k) : k.kills[p] \in Seq(KillFrames)
    BY <1>3, VictimIsAProcess
  <2> QED
    BY <2>1
<1>7. ASSUME NEW p \in Killers(k)
      PROVE  {k.kills[p][i].pid : i \in DOMAIN k.kills[p]} = {k.kills[p][i].pid : i \in 1 .. Len(k.kills[p])}
  BY <1>6
<1>8. UNION {{k.kills[p][i].pid : i \in DOMAIN k.kills[p]} : p \in Killers(k)} = Victims(k)
  BY <1>7 DEF Victims
<1>9. Counted = Victims(k)
  BY <1>1, <1>5, <1>8 DEF Counted
<1>10. cascade.prcount = Cardinality(Live(k)) - Cardinality(Victims(k))
  BY <1>1, <1>3 DEF CountRight
<1> QED
  BY <1>4, <1>9, <1>10 DEF CascadeCounts

(* Every step but kill_end: no call of kill is over.                       *)
EndsNone(k, m) == \A p \in Pids : m.kills[p] = << >> => k.kills[p] = << >>

LEMMA OthersEndNone ==
  ASSUME 1 \in Shells, ~SystemForks, KillCases = {}, CascadeIInv, CascadeNext, ~kill_end
  PROVE  EndsNone(cascade, cascade')
<1>1. PICK k, m : k = cascade /\ m = cascade'
  OBVIOUS
<1>2. PICK r \in [Pids -> Nat] : Sound(k, r)
  BY <1>1 DEF CascadeIInv
<1>3. IsCascade(k) /\ IsSched(k.sch)
  BY <1>2 DEF Sound, Fifo, InLine, SchedOK, Coherent
<1>4. m.kills = k.kills => EndsNone(k, m)
  BY DEF EndsNone
<1>5. CASE null_loop
  BY <1>1, <1>4, <1>5 DEF null_loop
<1>6. CASE tree_yield
  <2>1. m.kills = k.kills
    BY <1>1, <1>3, <1>6 DEF tree_yield, IsCascade
  <2> QED
    BY <1>1, <1>4, <2>1
<1>7. CASE tree_receive
  <2>1. PICK T, R, c : m = [k EXCEPT !.prhasmsg[c] = FALSE] \/ m = [k EXCEPT !.sch = T, !.receiving = R]
    BY <1>1, <1>7 DEF tree_receive
  <2>2. m.kills = k.kills
    BY <1>3, <2>1 DEF IsCascade
  <2> QED
    BY <1>1, <1>4, <2>2
<1>8. CASE tree_received
  <2>1. m.kills = k.kills
    BY <1>1, <1>3, <1>8 DEF tree_received, IsCascade
  <2> QED
    BY <1>1, <1>4, <2>1
<1>9. ASSUME NEW p \in Children, can_make(p), NEW prio, NEW n, n = new_process(k, p, prio)
      PROVE  EndsNone(k, n) /\ IsCascade(n)
  <2>1. k.sch.prstate[p] = "FREE" /\ p \in Pids
    BY <1>1, <1>2, <1>9, CanMakeFacts DEF Children
  <2>2. NewFields(k, p, prio, n)
    BY <1>3, <1>9, <2>1, NewProcessFields
  <2>3. p \notin Killers(k) /\ \A q \in Pids \ {p} : n.kills[q] = Forgotten(k.kills[q], p)
    BY <1>2, <1>9, <2>1, <2>2, NewEntries
  <2>4. k.kills[p] = << >>
    BY <2>1, <2>3 DEF Killers
  <2>5. ASSUME NEW q \in Pids, n.kills[q] = << >>
        PROVE  k.kills[q] = << >>
    <3>1. k.kills[q] \in Seq(KillFrames)
      BY <1>3, CascadeFields
    <3>2. q # p => (n.kills[q] = << >> <=> k.kills[q] = << >>)
      BY <2>3, <3>1, ForgottenFrames
    <3> QED
      BY <2>4, <2>5, <3>2
  <2> QED
    BY <2>2, <2>5 DEF NewFields, EndsNone
<1>10. ASSUME NEW p \in Children, NEW prio \in CreatePrios, tree_create(p, prio)
       PROVE  EndsNone(k, m)
  BY <1>1, <1>9, <1>10 DEF tree_create
<1>11. ASSUME NEW p \in Children, fork(p)
       PROVE  EndsNone(k, m)
  <2>1. PICK prio, n : n = new_process(k, p, prio) /\ m = forked(n, p)
    BY <1>1, <1>11 DEF fork
  <2>2. EndsNone(k, n) /\ IsCascade(n)
    BY <1>9, <1>11, <2>1 DEF fork
  <2>3. m.kills = n.kills
    BY <2>1, <2>2 DEF forked, IsCascade
  <2> QED
    BY <2>2, <2>3 DEF EndsNone
<1>12. ASSUME NEW p \in Children, tree_resume(p)
       PROVE  EndsNone(k, m)
  <2>1. m.kills = k.kills
    BY <1>1, <1>3, <1>12 DEF tree_resume, IsCascade
  <2> QED
    BY <1>1, <1>4, <2>1
<1>13. NoneEnds(k, m) => EndsNone(k, m)
  BY DEF NoneEnds, EndsNone
<1>14. ASSUME NEW p \in Children, tree_kill(p)
       PROVE  EndsNone(k, m)
  BY <1>1, <1>2, <1>13, <1>14, TreeKillSound
<1>15. CASE kill_child
  BY <1>1, <1>2, <1>13, <1>15, KillChildSound
<1> QED
  BY <1>1, <1>5, <1>6, <1>7, <1>8, <1>10, <1>11, <1>12, <1>14, <1>15 DEF CascadeNext

(* The last victim of a call of kill is its first, and the last of those   *)
(* doomed.                                                                 *)
LEMMA KillEndsAll ==
  ASSUME 1 \in Shells, CascadeIInv, kill_end,
         NEW p \in Children, Len(cascade.kills[p]) = 1, cascade'.kills[p] = << >>,
         NEW d \in cascade.kills[p][1].doomed
  PROVE  cascade'.sch.prstate[d] = "FREE"
<1>1. PICK k, m : k = cascade /\ m = cascade'
  OBVIOUS
<1>2. PICK r \in [Pids -> Nat] : Sound(k, r)
  BY <1>1 DEF CascadeIInv
<1>3. PICK c, F, l, x, T : KillEnds(k, c, F, l, x, T, m)
  BY <1>1, <1>2, KillEndFacts
<1>4. /\ c = k.sch.currpid /\ c \in Killers(k) /\ F = k.kills[c] /\ l = Len(F) /\ x = F[l].pid
      /\ x \in Live(k) \ {NULLPROC, Root}
      /\ \A y \in Live(k) \ {NULLPROC, Root} : k.prparent[y] # x
      /\ Left(k.sch, x, T) /\ EndedFields(k, T, Front(F), m)
  BY <1>3 DEF KillEnds
<1>5. Len(k.kills[p]) = 1 /\ m.kills[p] = << >> /\ d \in k.kills[p][1].doomed /\ p \in Pids
  BY <1>1 DEF Children
<1>6. p = c
  <2>1. SUFFICES ASSUME p # c PROVE FALSE
    OBVIOUS
  <2>2. k.kills[p] = << >>
    BY <1>4, <1>5, <2>1 DEF EndedFields
  <2> QED
    BY <1>5, <2>2
<1>7. Victim(k, c) = x /\ x \in Pids /\ k.sch.prstate[x] # "FREE"
  BY <1>4, <1>5, <1>6 DEF Victim, Live
<1>8. doomed_in(k, x) \subseteq {x}
  <2>1. ASSUME NEW y \in Children, k.sch.prstate[y] # "FREE", k.prparent[y] = x,
               k.user_process[x]
        PROVE  FALSE
    <3>1. TreeSound(k, r)
      BY <1>2 DEF Sound
    <3>2. y # Root
      BY <2>1, <3>1 DEF TreeSound
    <3>3. y \in Live(k) \ {NULLPROC, Root}
      BY <2>1, <3>2 DEF Live, Children
    <3> QED
      BY <1>4, <2>1, <3>3
  <2>2. Closed(k, {x})
    BY <2>1 DEF Closed, Joined
  <2> QED
    BY <1>7, <2>2, DoomedIsLeast
<1>9. k.kills[c][1].doomed \cap Live(k) \subseteq {x} /\ d \in Pids
  <2>1. KillSound(k, r, c) /\ IsCascade(k)
    BY <1>2, <1>4 DEF Sound, KillsSound
  <2>2. Fated(k, c) \subseteq {x}
    BY <1>7, <1>8 DEF Fated
  <2>3. k.kills[c][1] \in KillFrames
    BY <1>4, <2>1, VictimIsAProcess
  <2>4. k.kills[c][1].doomed \in SUBSET Pids
    BY <2>3 DEF KillFrames
  <2> QED
    BY <1>5, <1>6, <2>1, <2>2, <2>4 DEF KillSound
<1>10. T.prstate[d] = "FREE"
  <2>1. d = x \/ k.sch.prstate[d] = "FREE"
    BY <1>5, <1>6, <1>9 DEF Live
  <2> QED
    BY <1>4, <1>9, <2>1 DEF Left
<1> QED
  BY <1>1, <1>4, <1>10 DEF EndedFields

-----------------------------------------------------------------------------
(* FamilyIntact, for any number of processes and any priorities that are    *)
(* not below main's: whatever is forked, killed and killed in the middle   *)
(* of kill, every live process but main and the null process has a live    *)
(* parent and comes down from main.  The conditions: main is the only one  *)
(* to wait for messages; process ID 1 goes to no user process, as          *)
(* startup's does not; of the system processes main alone makes processes, *)
(* and main does not end, since kill leaves the children of a system       *)
(* process alive (kill.c:33); nobody kills who is in kill, who has been    *)
(* counted down, or an own ancestor; and create is asked for no priority   *)
(* below main's.                                                           *)
THEOREM SpecFamilyIntact ==
  ASSUME Receivers \subseteq {Root}, 1 \in Shells, ~SystemForks, KillCases = {},
         \A prio \in CreatePrios : prio >= INITPRIO
  PROVE  CascadeSpec => []FamilyIntact
<1>1. CascadeSpec => []CascadeIInv
  BY CascadeInductive
<1>2. CascadeIInv => FamilyIntact
  BY MainIsAnAncestor DEF FamilyIntact
<1> QED
  BY <1>1, <1>2, PTL

(* CascadeCounts: prcount, counted down at the start of kill, is off by    *)
(* just the victims of calls of kill that are under way (kill.c, create.c), *)
(* each counted down once, for any number of processes.  The conditions    *)
(* are those of SpecFamilyIntact: above all nobody kills a process that a  *)
(* call of kill under way has counted down, which the code does not keep   *)
(* anyone from (kill.c:19-22), and it would count it twice.                *)
THEOREM SpecCascadeCounts ==
  ASSUME Receivers \subseteq {Root}, 1 \in Shells, ~SystemForks, KillCases = {},
         \A prio \in CreatePrios : prio >= INITPRIO
  PROVE  CascadeSpec => []CascadeCounts
<1>1. CascadeSpec => []CascadeIInv
  BY CascadeInductive
<1>2. CascadeIInv => CascadeCounts
  BY CountsOfInvariant
<1> QED
  BY <1>1, <1>2, PTL

(* CascadeKillsAll: when the outermost call of kill returns, all that were *)
(* to die with its victim are dead (kill.c:32-36), though others ran in    *)
(* the middle of it and may have made children, for any number of          *)
(* processes.  The conditions are those of SpecFamilyIntact.               *)
THEOREM SpecCascadeKillsAll ==
  ASSUME Receivers \subseteq {Root}, 1 \in Shells, ~SystemForks, KillCases = {},
         \A prio \in CreatePrios : prio >= INITPRIO
  PROVE  CascadeSpec => CascadeKillsAll
<1>1. CascadeSpec => []CascadeIInv
  BY CascadeInductive
<1>2. ASSUME CascadeIInv, [CascadeNext]_cascade,
             NEW p \in Children, Len(cascade.kills[p]) = 1, cascade'.kills[p] = << >>,
             NEW d \in cascade.kills[p][1].doomed
      PROVE  cascade'.sch.prstate[d] = "FREE"
  <2>1. cascade.kills[p] # << >> /\ p \in Pids
    <3>1. Len(<< >>) = 0
      OBVIOUS
    <3> QED
      BY <1>2, <3>1 DEF Children
  <2>2. cascade' # cascade
    BY <1>2, <2>1
  <2>3. CascadeNext
    BY <1>2, <2>2
  <2>4. kill_end
    BY <1>2, <2>1, <2>3, OthersEndNone DEF EndsNone
  <2> QED
    BY <1>2, <2>4, KillEndsAll
<1>3. CascadeIInv /\ [CascadeNext]_cascade =>
        [\A p \in Children :
           Len(cascade.kills[p]) = 1 /\ cascade'.kills[p] = << >> =>
             \A d \in cascade.kills[p][1].doomed : cascade'.sch.prstate[d] = "FREE"]_cascade
  BY <1>2
<1> QED
  BY <1>1, <1>3, PTL DEF CascadeSpec, CascadeKillsAll

=============================================================================

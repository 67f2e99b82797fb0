------------------------------ MODULE XinuQueue ------------------------------
(***************************************************************************)
(* Process queues (include/queue.h, system/queue.c, insert.c, insertd.c,   *)
(* getitem.c).  The kernel keeps every queue as a doubly linked list in    *)
(* queuetab, with one entry per process, so that a process is on at most   *)
(* one queue and has one key.  Here a queue is the sequence of its process *)
(* IDs from head to tail, and the keys are one function on process IDs.    *)
(*                                                                         *)
(* A definition whose name adds a slip to another's (unsleep_key_lost) is  *)
(* that definition with the slip in it.  Nothing uses it; put in place of  *)
(* the definition, it makes a run find a property violated.                *)
(***************************************************************************)
EXTENDS Integers, SequencesExt

insert_place_ahead_of_equals(q, qkey, k) ==
  Min({i \in 1 .. Len(q) : qkey[q[i]] <= k} \cup {Len(q) + 1})

unsleep_key_lost(q, qkey, pid) == qkey

(***************************************************************************)
(* insert walks from the head past every entry whose key is at least k, so *)
(* the queue is in descending order and equal keys keep arrival order.     *)
(***************************************************************************)
insert_place(q, qkey, k) ==
  Min({i \in 1 .. Len(q) : qkey[q[i]] < k} \cup {Len(q) + 1})

insert(q, qkey, pid, k) == InsertAt(q, insert_place(q, qkey, k), pid)

(* getitem unlinks pid from the queue it is on, wherever it stands.        *)
getitem(q, pid) == RemoveAt(q, CHOOSE i \in 1 .. Len(q) : q[i] = pid)

(***************************************************************************)
(* A delta list (sleepq): the key of an entry is what it waits beyond the  *)
(* entry before it.  delta_sum(q, qkey)[i] is the delay of the i-th entry. *)
(***************************************************************************)
delta_sum(q, qkey) ==
  LET sum[i \in 0 .. Len(q)] == IF i = 0 THEN 0 ELSE sum[i-1] + qkey[q[i]]
  IN  sum

(* Ticks a process on the delta list q still has to wait.                  *)
delay_of(q, qkey, pid) ==
  delta_sum(q, qkey)[CHOOSE i \in 1 .. Len(q) : q[i] = pid]

(* insertd steps past the entries that are due no later than the new one.  *)
insertd_place(q, qkey, delay) ==
  Min({i \in 1 .. Len(q) : delta_sum(q, qkey)[i] > delay} \cup {Len(q) + 1})

insertd(q, qkey, pid, delay) == InsertAt(q, insertd_place(q, qkey, delay), pid)

(* Adding d to the key of the entry at place i, if there is one.           *)
add_to_key(q, qkey, i, d) ==
  IF i \in 1 .. Len(q) THEN [qkey EXCEPT ![q[i]] = @ + d] ELSE qkey

(* The new entry keeps what is left of the delay, and its follower gives   *)
(* up as much.                                                             *)
insertd_key(q, qkey, pid, delay) ==
  LET at   == insertd_place(q, qkey, delay)
      left == delay - delta_sum(q, qkey)[at - 1]
  IN  [add_to_key(q, qkey, at, -left) EXCEPT ![pid] = left]

(* unsleep gives the key of the entry it removes to the follower.          *)
unsleep_key(q, qkey, pid) ==
  LET at == CHOOSE i \in 1 .. Len(q) : q[i] = pid
  IN  add_to_key(q, qkey, at + 1, qkey[pid])
=============================================================================

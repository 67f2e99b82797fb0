------------------------------- MODULE XinuPool -------------------------------
(***************************************************************************)
(* Buffer pools (system/mkbufpool.c, getbuf.c, freebuf.c): memory from     *)
(* getmem that is divided into buffers, which a semaphore counts, beside   *)
(* other users of the heap.  The calls run with interrupts off; getbuf is  *)
(* the one that waits.  The fields of the record pool:                     *)
(*   buftab   of each pool made: bpsize, bpsem, the list of buffers at     *)
(*            bpnext, and the request for its memory                       *)
(*   sems     semaphores that semcreate has left                           *)
(*   call     of each process: what it does next, and with which pool      *)
(*   held     the buffers each process has, with the pool ID in the word   *)
(*            before them                                                  *)
(* Bounds: no process is killed between being woken and going on (the      *)
(* buffer it was counted for would stay on the list); processes free the   *)
(* buffers they have, once.                                                *)
(* A definition named for a slip is the mutant of the one after it.        *)
(***************************************************************************)
EXTENDS XinuMemory, XinuSemUse

CONSTANTS PoolUsers,   \* process IDs of the processes that use buffers
          PoolShapes,  \* <<bufsiz, numbufs>> that mkbufpool is called with
          NBPOOLS,     \* bound of the pool table
          PoolSems     \* semaphores that are left

IdBytes == 4   \* sizeof(bpid32)

round4(n) == 4 * ((n + 3) \div 4)

(* mkbufpool bounds both sizes, BP_MAXB and BP_MAXN, far below the size of *)
(* the address space; the processes are NPROC at most.                     *)
ASSUME PoolAssumption ==
  /\ PoolUsers \subseteq Nat /\ IsFiniteSet(PoolUsers) /\ NBPOOLS \in Nat /\ PoolSems \in Nat
  /\ \A s \in PoolShapes : /\ s[1] \in Nat /\ s[2] \in Nat \ {0}
                           /\ s[2] * (round4(s[1]) + IdBytes) <= AddressSpace - 8

VARIABLE pool

NoPoolCall == [at |-> "idle", id |-> 0]

PoolInit ==
  pool = [buftab |-> << >>, sems |-> PoolSems,
          call |-> [p \in PoolUsers |-> NoPoolCall], held |-> [p \in PoolUsers |-> {}]]

Pools == DOMAIN pool.buftab

pool_at(p, point) == pool.call[p].at = point

layout_without_ids(base, bufsiz, numbufs) == [k \in 1 .. numbufs |-> base + (k - 1) * bufsiz]

(* The buffers of a pool, in the order in which they are linked.           *)
layout(base, bufsiz, numbufs) ==
  [k \in 1 .. numbufs |-> base + (k - 1) * (bufsiz + IdBytes)]

(* Without memory, or without a semaphore, when the memory is given back,  *)
(* there is no new pool.                                                   *)
mkbufpool(bufsiz, numbufs) ==
  LET size    == round4(bufsiz)
      request == numbufs * (size + IdBytes)
      n       == roundmb(request)
      k       == Min(fitting(mem.memlist, n))
      base    == mem.memlist[k].addr
      rest    == without_low(mem.memlist, k, n)
  IN  /\ Len(pool.buftab) < NBPOOLS /\ fitting(mem.memlist, n) # {}
      /\ IF pool.sems = 0
         THEN /\ mem' = [mem EXCEPT !.memlist = freed(rest, base, request)]
              /\ UNCHANGED pool
         ELSE /\ mem' = [memlist |-> rest, inuse |-> mem.inuse \cup {Block(base, request)}]
              /\ pool' = [pool EXCEPT
                   !.sems = @ - 1,
                   !.buftab = Append(@, [bpsize |-> size, bpsem |-> semcreate(numbufs),
                                         list |-> layout(base, size, numbufs),
                                         memory |-> Block(base, request)])]

(* The first buffer of the list goes to p, and the pool's ID into it.      *)
unlinked(p, i, sem) ==
  [pool EXCEPT !.buftab[i].bpsem = sem, !.buftab[i].list = Tail(@),
               !.held[p] = @ \cup {[buf |-> Head(pool.buftab[i].list), id |-> i]},
               !.call[p] = NoPoolCall]

getbuf(p, i) ==
  LET sem == pool.buftab[i].bpsem
  IN  /\ pool_at(p, "idle")
      /\ pool' = IF blocks(sem)
                 THEN [pool EXCEPT !.buftab[i].bpsem = waited(sem, p),
                                   !.call[p] = [at |-> "wait", id |-> i]]
                 ELSE unlinked(p, i, waited(sem, p))
      /\ UNCHANGED mem

getbuf_after_wait(p) ==
  /\ pool_at(p, "unlink")
  /\ pool' = unlinked(p, pool.call[p].id, pool.buftab[pool.call[p].id].bpsem)
  /\ UNCHANGED mem

freebuf(p, b) ==
  /\ pool_at(p, "idle") /\ b \in pool.held[p]
  /\ pool' = [pool EXCEPT
       !.buftab[b.id].list  = << b.buf >> \o @,
       !.buftab[b.id].bpsem = signalled(@),
       !.held[p] = @ \ {b},
       !.call = [q \in PoolUsers |-> IF q \in woken(pool.buftab[b.id].bpsem)
                                     THEN [@[q] EXCEPT !.at = "unlink"] ELSE @[q]]]
  /\ UNCHANGED mem

kill_getbuf(p) ==
  /\ pool_at(p, "wait")
  /\ pool' = [pool EXCEPT !.buftab[pool.call[p].id].bpsem = killed(@, p), !.call[p] = NoPoolCall]
  /\ UNCHANGED mem

(* The other users of the heap.                                            *)
PoolMemory == {pool.buftab[i].memory : i \in Pools}

PoolNext ==
  \/ \E s \in PoolShapes : mkbufpool(s[1], s[2])
  \/ \E p \in PoolUsers : \/ \E i \in Pools : getbuf(p, i)
                          \/ getbuf_after_wait(p)
                          \/ \E b \in pool.held[p] : freebuf(p, b)
                          \/ kill_getbuf(p)
  \/ (\E n \in Sizes : getmem(n) \/ getstk(n)) /\ UNCHANGED pool
  \/ (\E b \in Freeable \ PoolMemory : freemem(b)) /\ UNCHANGED pool

PoolSpec == MemInit /\ PoolInit /\ [][PoolNext]_<<mem, pool>>
-----------------------------------------------------------------------------
(* Every buffer of a pool is on its list or held by one process; a buffer  *)
(* with its ID shares no byte with another or with memory the pool was not *)
(* given; and the semaphore counts the buffers on the list that are not    *)
(* promised to a process it let through, which then finds one there.       *)
BuffersConserved ==
  \A i \in Pools :
    LET entry    == pool.buftab[i]
        held     == {b \in UNION {pool.held[p] : p \in PoolUsers} : b.id = i}
        promised == {p \in PoolUsers : pool_at(p, "unlink") /\ pool.call[p].id = i}
        buffers  == ToSet(entry.list) \cup {b.buf : b \in held}
        room(b)  == b .. b + IdBytes + entry.bpsize - 1
    IN  /\ Cardinality(buffers) = Len(entry.list) + Cardinality(held)
        /\ Cardinality(buffers) * (entry.bpsize + IdBytes) = entry.memory.mlength
        /\ UNION {room(b) : b \in buffers} = bytes(entry.memory)
        /\ entry.memory \in mem.inuse
        /\ Len(entry.list) - Cardinality(promised)
             = (IF entry.bpsem.scount > 0 THEN entry.bpsem.scount ELSE 0)
=============================================================================

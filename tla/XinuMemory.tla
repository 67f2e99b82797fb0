------------------------------ MODULE XinuMemory ------------------------------
(***************************************************************************)
(* The memory manager (system/getmem.c, getstk.c, freemem.c, meminit.c):   *)
(* the list of free blocks, in the order of their addresses, from which    *)
(* getmem takes the first block that fits and getstk the last.  Addresses  *)
(* and lengths are in bytes, arithmetic is modulo 2^32 written as          *)
(* AddressSpace; the calls run with interrupts off and never wait, so that *)
(* each is one step.  The fields of the record mem:                        *)
(*   memlist   the free blocks, each its address and mlength               *)
(*   inuse     the requests that were granted: address and size asked for  *)
(* Bound: WrapSizes.  roundmb takes the last seven sizes below 2^32 to 0,  *)
(* and getmem then returns a block that stays on the list; freemem.c:44    *)
(* compares the end of a block modulo 2^32, and puts one that reaches that *)
(* far on the list, over whatever is free or in use there.  Where such     *)
(* sizes are asked for (WrapSizes), HeapIsWhole does not hold.             *)
(* A definition named for a slip is the mutant of the one after it.        *)
(***************************************************************************)
EXTENDS Integers, FiniteSets, SequencesExt, FiniteSetsExt

CONSTANTS HeapBlocks,   \* what meminit puts on the list: the heap but for the hole
          AddressSpace, \* 2^32, or less for TLC
          Requests,     \* sizes asked for
          WrapSizes     \* whether those that arithmetic takes past 2^32 are

Block(a, n) == [addr |-> a, mlength |-> n]
after(b) == b.addr + b.mlength

(* meminit rounds, leaves the hole between its blocks, and ends the heap   *)
(* at maxheap, far below 2^32.                                             *)
ASSUME MemoryAssumption ==
  /\ AddressSpace \in Nat /\ AddressSpace % 8 = 0
  /\ \A n \in Requests : n \in 0 .. AddressSpace - 1
  /\ WrapSizes \in BOOLEAN
  /\ HeapBlocks \in Seq([addr : Nat, mlength : Nat])
  /\ \A b \in ToSet(HeapBlocks) : b.addr % 8 = 0 /\ b.mlength % 8 = 0 /\ b.mlength > 0
                               /\ after(b) < AddressSpace
  /\ \A i, j \in DOMAIN HeapBlocks : i < j => after(HeapBlocks[i]) < HeapBlocks[j].addr

VARIABLE mem

roundmb(n) == LET up == (7 + n) % AddressSpace IN up - (up % 8)

bytes(b) == b.addr .. after(b) - 1
Heap == UNION {bytes(b) : b \in ToSet(HeapBlocks)}
HeapUnits == {a \in Heap : a % 8 = 0}

MemInit == mem = [memlist |-> HeapBlocks, inuse |-> {}]

-----------------------------------------------------------------------------
fitting(list, n) == {k \in DOMAIN list : list[k].mlength >= n}

(* The list without the low, or the top, part of length n of its block k.  *)
without_low(list, k, n) ==
  IF list[k].mlength = n THEN RemoveAt(list, k)
  ELSE [list EXCEPT ![k] = Block(@.addr + n, @.mlength - n)]

without_top(list, k, n) ==
  IF list[k].mlength = n THEN RemoveAt(list, k)
  ELSE [list EXCEPT ![k] = Block(@.addr, @.mlength - n)]

Sizes == {n \in Requests : WrapSizes \/ n <= AddressSpace - 8}

(* The request is refused, and nothing changes, when no block fits.        *)
getmem(nbytes) ==
  LET n == roundmb(nbytes)
      k == Min(fitting(mem.memlist, n))
  IN  /\ nbytes # 0 /\ fitting(mem.memlist, n) # {}
      /\ mem' = [memlist |-> without_low(mem.memlist, k, n),
                 inuse   |-> mem.inuse \cup {Block(mem.memlist[k].addr, nbytes)}]

(* The caller gets the address of the last word of the stack, from which   *)
(* freestk works out the block's again.                                    *)
getstk(nbytes) ==
  LET n == roundmb(nbytes)
      k == Max(fitting(mem.memlist, n))
  IN  /\ nbytes # 0 /\ fitting(mem.memlist, n) # {}
      /\ mem' = [memlist |-> without_top(mem.memlist, k, n),
                 inuse   |-> mem.inuse \cup {Block(after(mem.memlist[k]) - n, nbytes)}]

-----------------------------------------------------------------------------
(* The number of free blocks before the address.                           *)
before(list, a) == Cardinality({k \in DOMAIN list : list[k].addr < a})

(* The end of the block as freemem computes it.                            *)
top(b) == after(b) % AddressSpace

overlaps(list, b) ==
  LET prev == before(list, b.addr)
  IN  \/ prev > 0 /\ b.addr < after(list[prev])
      \/ prev < Len(list) /\ top(b) > list[prev + 1].addr

linked_not_to_next(list, b) ==
  LET prev  == before(list, b.addr)
      low   == prev > 0 /\ after(list[prev]) = b.addr
      start == IF low THEN list[prev].addr ELSE b.addr
  IN  SubSeq(list, 1, IF low THEN prev - 1 ELSE prev)
        \o << Block(start, (after(b) - start) % AddressSpace) >> \o SubSeq(list, prev + 1, Len(list))

(* The list with the block in its place, one with the free blocks it       *)
(* touches.                                                                *)
linked(list, b) ==
  LET prev  == before(list, b.addr)
      low   == prev > 0 /\ after(list[prev]) = b.addr
      high  == prev < Len(list) /\ top(b) = list[prev + 1].addr
      start == IF low THEN list[prev].addr ELSE b.addr
      end   == IF high THEN after(list[prev + 1]) ELSE after(b)
  IN  SubSeq(list, 1, IF low THEN prev - 1 ELSE prev)
        \o << Block(start, (end - start) % AddressSpace) >>
        \o SubSeq(list, IF high THEN prev + 2 ELSE prev + 1, Len(list))

freed(list, a, nbytes) ==
  LET b == Block(a, roundmb(nbytes))
  IN  IF nbytes = 0 \/ overlaps(list, b) THEN list ELSE linked(list, b)

freemem(b) ==
  mem' = [memlist |-> freed(mem.memlist, b.addr, b.mlength), inuse |-> mem.inuse \ {b}]

(* A block in use is freed, or memory some of which is free: an error of   *)
(* the caller, which freemem refuses.                                      *)
FreeBytes == UNION {bytes(b) : b \in ToSet(mem.memlist)}

Freeable ==
  mem.inuse \cup
    {b \in {Block(a, n) : a \in HeapUnits, n \in Sizes \ {0}} :
       LET whole == Block(b.addr, roundmb(b.mlength))
       IN  /\ b \notin mem.inuse /\ bytes(whole) \cap FreeBytes # {}
           /\ WrapSizes \/ after(whole) < AddressSpace}

MemNext ==
  \/ \E n \in Sizes : getmem(n) \/ getstk(n)
  \/ \E b \in Freeable : freemem(b)

MemSpec == MemInit /\ [][MemNext]_mem
-----------------------------------------------------------------------------
(* Every unit of the heap is free or in one granted request, never both,   *)
(* and never in two: nothing leaks, nobody is given what another has,      *)
(* whatever is freed twice.  Free memory that lies together is one block,  *)
(* so that a request is refused only when no run of free bytes is as long. *)
HeapIsWhole ==
  LET granted == {Block(b.addr, roundmb(b.mlength)) : b \in mem.inuse}
      owned   == granted \cup ToSet(mem.memlist)
  IN  /\ \A b \in owned : b.mlength % 8 = 0 /\ {b.addr, after(b) - 8} \subseteq HeapUnits
      /\ \A a \in HeapUnits : \E b \in owned : a \in bytes(b)
      /\ \A b, c \in owned : b = c \/ after(b) <= c.addr \/ after(c) <= b.addr
      /\ Cardinality(granted) = Cardinality(mem.inuse)
      /\ Cardinality(owned) = Cardinality(granted) + Len(mem.memlist)
      /\ \A k \in 1 .. Len(mem.memlist) - 1 : after(mem.memlist[k]) < mem.memlist[k + 1].addr
=============================================================================

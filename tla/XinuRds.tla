-------------------------------- MODULE XinuRds --------------------------------
(***************************************************************************)
(* The remote disk (device/rds): processes that read and write blocks put  *)
(* requests on a list; a communication process takes them off in order and *)
(* exchanges a message with the server for each, over a network that loses *)
(* messages.  Blocks written stay in a cache.  The fields of the record    *)
(* rds:                                                                    *)
(*   list     the request nodes with their links, and rd_qhead, rd_qtail   *)
(*            and rd_qfree                                                 *)
(*   cache    the cached blocks and their contents, the newest first       *)
(*   comsem   the signals the communication process has not taken          *)
(*   com      what the communication process does, for which request       *)
(*   toserver, toclient   the messages under way                           *)
(*   disk     the server's blocks                                          *)
(*   user     of each process whether it runs, is suspended until its      *)
(*            request is done, or goes round a cycle of the list           *)
(*   buf      its buffer                                                   *)
(*   want     what its buffer must hold when the call returns              *)
(*   last     of each block what was last written, at the call             *)
(* Its priority is above that of every process that reads or writes        *)
(* (rdisksys.h): they run only while it waits.                             *)
(* Bounds: TakeEarlier, MaxWrites, MaxExchanges.  A process is not         *)
(* preempted between its look at the list and its suspension.  Nobody asks *)
(* for RDS_CTL_SYNC: rdscontrol does not link its request behind the one   *)
(* before it, so it is lost, and may take later ones with it.              *)
(* A definition named for a slip is the mutant of the one after it.        *)
(***************************************************************************)
EXTENDS Integers, Sequences, SequencesExt, FiniteSetsExt

CONSTANTS RdsUsers,     \* process IDs of the processes that read and write
          RdsBlocks,    \* block numbers
          RD_CNODES,    \* cache buffers
          RD_RETRIES,   \* times a message is sent
          TakeEarlier,  \* bound: whether an earlier reply passes for a later one
          MaxWrites,    \* bound: writes in all, each of a new content
          MaxExchanges  \* bound: exchanges with the server in all

ASSUME RdsAssumption ==
  /\ RD_CNODES \in Nat \ {0} /\ RD_RETRIES \in Nat \ {0} /\ TakeEarlier \in BOOLEAN
  /\ MaxWrites \in Nat /\ MaxExchanges \in Nat

NoNode == 0                               \* NULL
RD_QNODES == Cardinality(RdsUsers)        \* a node for each process
RdsNodes == 1 .. RD_QNODES
FreshNode == [rd_next |-> NoNode, rd_prev |-> NoNode,
              rd_op |-> "none", rd_blknum |-> 0, rd_pid |-> 0]
NotServing == [at |-> "wait", node |-> NoNode, op |-> "none", blk |-> 0, data |-> 0,
               seq |-> 0, tries |-> 0]

VARIABLE rds

RdsInit ==
  rds = [list     |-> [node |-> [n \in RdsNodes |->
                                   [FreshNode EXCEPT !.rd_next = (n + 1) % (RD_QNODES + 1)]],
                       qhead |-> NoNode, qtail |-> NoNode, qfree |-> 1],
         cache    |-> <<>>, comsem |-> 0, com |-> NotServing, seq |-> 1,
         toserver |-> <<>>, toclient |-> <<>>,
         disk     |-> [b \in RdsBlocks |-> b],
         user     |-> [p \in RdsUsers |-> "idle"],
         buf      |-> [p \in RdsUsers |-> 0], want |-> [p \in RdsUsers |-> 0],
         last     |-> [b \in RdsBlocks |-> b], writes |-> 0]

-----------------------------------------------------------------------------
(* The request list.                                                       *)

(* The nodes met from n on along the links, as long as there are any and   *)
(* no more than there are nodes.                                           *)
walk(list, n, link) ==
  LET at[k \in 1 .. RD_QNODES] ==
        IF k = 1 THEN n ELSE IF at[k - 1] = NoNode THEN NoNode ELSE list.node[at[k - 1]][link]
  IN  SelectSeq([k \in 1 .. RD_QNODES |-> at[k]], LAMBDA m : m # NoNode)

queue_of(list) == walk(list, list.qhead, "rd_next")
backward(list) == walk(list, list.qtail, "rd_prev")
goes_round(list) ==
  LET w == backward(list)
  IN  Len(w) = RD_QNODES /\ list.node[Last(w)].rd_prev # NoNode

(* rdqunlink: the links of a node taken off the head are not all undone:   *)
(* the new head's rd_prev still leads to the free node.                    *)
rdqunlink(list, n) ==
  LET next == list.node[n].rd_next
      prev == list.node[n].rd_prev
      out  == IF n = list.qhead
              THEN IF n = list.qtail
                   THEN [list EXCEPT !.qhead = NoNode, !.qtail = NoNode]
                   ELSE [list EXCEPT !.qhead = next]
              ELSE IF n = list.qtail
                   THEN [list EXCEPT !.qtail = prev, !.node[prev].rd_next = NoNode]
                   ELSE [list EXCEPT !.node[prev].rd_next = next, !.node[next].rd_prev = prev]
  IN  [out EXCEPT !.node[n].rd_next = list.qfree, !.qfree = n]

(* A node taken from the free list and filled in.                          *)
allocated(list, p, op, b) ==
  LET n == list.qfree
  IN  [list EXCEPT !.qfree = list.node[n].rd_next,
                   !.node[n].rd_op = op, !.node[n].rd_blknum = b, !.node[n].rd_pid = p]

(* The end of rdsread: a new request goes to the tail of the list.         *)
insert_read(list, p, b) ==
  LET n == list.qfree
      l == allocated(list, p, "read", b)
  IN  IF list.qhead = NoNode
      THEN [l EXCEPT !.qhead = n, !.qtail = n,
                     !.node[n].rd_next = NoNode, !.node[n].rd_prev = NoNode]
      ELSE [l EXCEPT !.node[list.qtail].rd_next = n, !.node[n].rd_prev = list.qtail,
                     !.node[n].rd_next = NoNode, !.qtail = n]

rdqinsert(list, p, b) ==
  LET n == list.qfree
      l == [allocated(list, p, "write", b) EXCEPT
              !.node[n].rd_next = NoNode, !.node[n].rd_prev = list.qtail, !.qtail = n]
  IN  IF list.qtail = NoNode THEN [l EXCEPT !.qhead = n]
      ELSE [l EXCEPT !.node[list.qtail].rd_next = n]

(* The cache, of blocks and their contents.                                *)
cached(b) == {c \in ToSet(rds.cache) : c[1] = b}
rdcinsert(b, v) == SubSeq(<<<<b, v>>>> \o rds.cache, 1, Min({RD_CNODES, Len(rds.cache) + 1}))
rdcunlink(b) == SelectSeq(rds.cache, LAMBDA c : c[1] # b)

-----------------------------------------------------------------------------
(* The processes that use the disk.                                        *)

users_run == \/ rds.com.at = "wait" /\ rds.comsem = 0
             \/ rds.com.at \in {"send", "recv"}

may_call(p) == users_run /\ rds.user[p] = "idle"

(* The request behind which the look back from the tail stops.             *)
latest(b) == SelectInSeq(backward(rds.list), LAMBDA n : rds.list.node[n].rd_blknum = b)
request(i) == rds.list.node[backward(rds.list)[i]]

rdsread_cached(p, b) ==
  /\ may_call(p)
  /\ \E c \in cached(b) : rds' = [rds EXCEPT !.buf[p] = c[2], !.want[p] = rds.last[b]]

(* The block is in the buffer of a process that waits to write it.         *)
rdsread_pending(p, b) ==
  /\ may_call(p) /\ cached(b) = {} /\ latest(b) # 0
  /\ request(latest(b)).rd_op = "write"
  /\ rds' = [rds EXCEPT !.buf[p] = rds.buf[request(latest(b)).rd_pid],
                        !.want[p] = rds.last[b]]

rdsread_goes_round(p, b) ==
  /\ may_call(p) /\ cached(b) = {} /\ latest(b) = 0 /\ goes_round(rds.list)
  /\ rds' = [rds EXCEPT !.user[p] = "goes_round"]

rdsread(p, b) ==
  /\ may_call(p) /\ cached(b) = {} /\ rds.list.qfree # NoNode
  /\ IF latest(b) = 0 THEN ~goes_round(rds.list)
     ELSE request(latest(b)).rd_op # "write"
  /\ rds' = [rds EXCEPT !.list = insert_read(rds.list, p, b), !.comsem = @ + 1,
                        !.user[p] = "suspended", !.want[p] = rds.last[b]]

rdswrite_cache_kept(p, b) ==
  /\ may_call(p) /\ rds.list.qfree # NoNode /\ rds.writes < MaxWrites
  /\ rds' = [rds EXCEPT !.list = rdqinsert(rds.list, p, b), !.comsem = @ + 1,
                        !.user[p] = "suspended", !.writes = @ + 1,
                        !.buf[p] = rds.writes + 1, !.want[p] = rds.writes + 1,
                        !.last[b] = rds.writes + 1]

rdswrite(p, b) ==
  /\ may_call(p) /\ rds.list.qfree # NoNode /\ rds.writes < MaxWrites
  /\ rds' = [rds EXCEPT !.cache = rdcunlink(b),
                        !.list = rdqinsert(rds.list, p, b), !.comsem = @ + 1,
                        !.user[p] = "suspended", !.writes = @ + 1,
                        !.buf[p] = rds.writes + 1, !.want[p] = rds.writes + 1,
                        !.last[b] = rds.writes + 1]

-----------------------------------------------------------------------------
(* The communication process, rdsprocess, and rdscomm for it.              *)

head == rds.list.node[rds.list.qhead]
serves(op) == /\ rds.com.at = "wait" /\ rds.comsem > 0
              /\ rds.list.qhead # NoNode /\ head.rd_op = op

(* A request was satisfied early.                                          *)
com_continue ==
  /\ rds.com.at = "wait" /\ rds.comsem > 0 /\ rds.list.qhead = NoNode
  /\ rds' = [rds EXCEPT !.comsem = @ - 1]

com_read ==
  /\ serves("read") /\ rds.seq <= MaxExchanges
  /\ rds' = [rds EXCEPT !.comsem = @ - 1, !.seq = @ + 1,
       !.com = [NotServing EXCEPT !.at = "send", !.node = rds.list.qhead, !.op = "read",
                                  !.blk = head.rd_blknum, !.seq = rds.seq]]

(* The loop that looks for a later write of the block tests one request    *)
(* again and again: it ends only if that is one, or there is none.         *)
com_write_goes_round ==
  /\ serves("write") /\ head.rd_next # NoNode
  /\ LET next == rds.list.node[head.rd_next]
     IN  next.rd_op # "write" \/ next.rd_blknum # head.rd_blknum
  /\ rds' = [rds EXCEPT !.comsem = @ - 1, !.com.at = "goes_round"]

com_write ==
  /\ serves("write") /\ rds.seq <= MaxExchanges
  /\ head.rd_next # NoNode =>
       LET next == rds.list.node[head.rd_next]
       IN  next.rd_op = "write" /\ next.rd_blknum = head.rd_blknum
  /\ rds' = [rds EXCEPT !.comsem = @ - 1, !.seq = @ + 1,
       !.cache = IF head.rd_next # NoNode THEN @
                 ELSE rdcinsert(head.rd_blknum, rds.buf[head.rd_pid]),
       !.user[head.rd_pid] = "idle",
       !.list = rdqunlink(rds.list, rds.list.qhead),
       !.com = [NotServing EXCEPT !.at = "send", !.op = "write", !.blk = head.rd_blknum,
                                  !.data = rds.buf[head.rd_pid], !.seq = rds.seq]]

message == [op |-> rds.com.op, blk |-> rds.com.blk, data |-> rds.com.data, seq |-> rds.com.seq]

(* A copy of the message is sent, and may be lost.                         *)
rdscomm_send ==
  /\ rds.com.at = "send"
  /\ \E lost \in BOOLEAN :
       rds' = [rds EXCEPT !.com.at = "recv",
                          !.toserver = IF lost THEN @ ELSE Append(@, message)]

(* Another turn of the loop, or, after the last, panic.                    *)
next_try(at) ==
  IF rds.com.tries + 1 < RD_RETRIES
  THEN [rds.com EXCEPT !.tries = @ + 1, !.at = at]
  ELSE [rds.com EXCEPT !.at = "panic"]

rdscomm_timeout ==
  /\ rds.com.at = "recv"
  /\ rds' = [rds EXCEPT !.com = next_try("send")]

(* A reply.  The test of its sequence number only decides whether the      *)
(* message is sent again: an earlier reply of the right type passes.       *)
reply == Head(rds.toclient)
replied == rds.com.at = "recv" /\ rds.toclient # <<>>
accepted(op) == /\ replied /\ reply.op = op /\ rds.com.op = op
                /\ reply.seq = rds.com.seq \/ TakeEarlier

rdscomm_mismatch ==
  /\ replied /\ reply.op # rds.com.op
  /\ rds' = [rds EXCEPT !.toclient = Tail(@), !.com = next_try("recv")]

com_written ==
  /\ accepted("write")
  /\ rds' = [rds EXCEPT !.toclient = Tail(@), !.com = NotServing]

(* The requests for the block that the reply satisfies: the first, and     *)
(* every one behind it up to a write of the block.                         *)
same_block(n) == rds.list.node[n].rd_blknum = rds.com.blk
satisfied ==
  LET behind == SelectSeq(queue_of(rdqunlink(rds.list, rds.com.node)), same_block)
      write  == SelectInSeq(behind, LAMBDA n : rds.list.node[n].rd_op = "write")
  IN  <<rds.com.node>> \o
        SelectSeq(IF write = 0 THEN behind ELSE SubSeq(behind, 1, write - 1),
                  LAMBDA n : rds.list.node[n].rd_op = "read")

com_have_read ==
  /\ accepted("read")
  /\ LET done == {rds.list.node[n].rd_pid : n \in ToSet(satisfied)}
     IN  rds' = [rds EXCEPT
           !.toclient = Tail(@), !.com = NotServing,
           !.list = FoldLeft(rdqunlink, rds.list, satisfied),
           !.buf  = [p \in RdsUsers |-> IF p \in done THEN reply.data ELSE @[p]],
           !.user = [p \in RdsUsers |-> IF p \in done THEN "idle" ELSE @[p]]]

-----------------------------------------------------------------------------
(* The server, which answers every message; an answer may be lost.         *)
rds_server ==
  /\ rds.toserver # <<>>
  /\ LET m == Head(rds.toserver)
         d == IF m.op = "write" THEN [rds.disk EXCEPT ![m.blk] = m.data] ELSE rds.disk
     IN  \E lost \in BOOLEAN :
           rds' = [rds EXCEPT !.toserver = Tail(@), !.disk = d,
                    !.toclient = IF lost THEN @
                                 ELSE Append(@, [op |-> m.op, data |-> d[m.blk], seq |-> m.seq])]

RdsNext ==
  \/ \E p \in RdsUsers, b \in RdsBlocks :
       \/ rdsread_cached(p, b) \/ rdsread_pending(p, b) \/ rdsread_goes_round(p, b)
       \/ rdsread(p, b) \/ rdswrite(p, b)
  \/ com_continue \/ com_read \/ com_write_goes_round \/ com_write
  \/ rdscomm_send \/ rdscomm_timeout \/ rdscomm_mismatch \/ com_written \/ com_have_read
  \/ rds_server

RdsSpec == RdsInit /\ [][RdsNext]_rds
-----------------------------------------------------------------------------
(* The disk behaves as if every read and write were done when it is called *)
(* for, whatever is cached, waits on the list or is under way: a call that *)
(* returns has left in the buffer what was last written before it.         *)
ReadsAreCurrent == \A p \in RdsUsers : rds.user[p] = "idle" => rds.buf[p] = rds.want[p]

(* No request is forgotten: a suspended process's request is on the list   *)
(* once, and the communication process has a signal for every request it   *)
(* has not begun to serve.                                                 *)
RequestsKept ==
  LET q == queue_of(rds.list)
      begun == IF rds.com.op = "read" /\ rds.com.at # "wait" THEN 1 ELSE 0
  IN  /\ \A p \in RdsUsers : rds.user[p] = "suspended" =>
           \E i \in DOMAIN q : \A j \in DOMAIN q : rds.list.node[q[j]].rd_pid = p <=> i = j
      /\ rds.com.at # "goes_round" => rds.comsem >= Len(q) - begun

(* A read is answered from a write request only while that is on the list: *)
(* the look back along the links, some of them left from requests that are *)
(* done, does not lead to one that has been served.                        *)
ServedFromList ==
  \A b \in RdsBlocks :
    cached(b) = {} /\ latest(b) # 0 /\ request(latest(b)).rd_op = "write"
      => backward(rds.list)[latest(b)] \in ToSet(queue_of(rds.list))

(* The three together.                                                     *)
RemoteDiskHolds == ReadsAreCurrent /\ RequestsKept /\ ServedFromList
=============================================================================

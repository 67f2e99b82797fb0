-------------------------------- MODULE XinuLfs --------------------------------
(***************************************************************************)
(* The local file system (device/lfs), on a disk (device/ram): a directory *)
(* in memory, files whose index blocks are linked and name the data        *)
(* blocks, and lists of free blocks of both kinds linked through the       *)
(* blocks themselves.  An open file has its current index block and data   *)
(* block in memory.  The fields of the record lfs:                         *)
(*   dir      the directory: the heads of the free lists, and the files    *)
(*   iblk, dblk   the index and the data blocks on the disk                *)
(*   ctl      the control blocks of the file devices                       *)
(*   opening  what lfsopen has found, before it has the directory's mutex  *)
(*   got      the character that the last call got, if it got one         *)
(*   panicked whether the blocks ran out                                   *)
(* The copy of the directory on the disk is never read once the first file *)
(* is open, and is left out.  An operation on a file runs under the file's *)
(* mutex, lfsetup and lftruncate under the directory's too: each is one    *)
(* step, but for lfsopen and lflclose.                                     *)
(* Bounds: OpenTogether, CloseApart, MaxSize.                              *)
(* A definition named for a slip is the mutant of the one after it.        *)
(***************************************************************************)
EXTENDS Integers, Sequences, SequencesExt, FiniteSetsExt

CONSTANTS LfNames,      \* names of files
          LfChars,      \* characters
          Nlfl,         \* file devices
          LF_BLKSIZ,    \* characters in a data block
          LF_IBLEN,     \* data blocks of an index block
          IBlocks,      \* index blocks on the disk, a multiple of a sector's
          DBlocks,      \* data blocks on the disk
          LF_NUM_DIR_ENT,  \* entries of the directory
          IbPerSector,  \* index blocks in a sector
          OpenTogether, \* bound: whether two processes may be in lfsopen
          CloseApart,   \* bound: whether index blocks may change between
                        \* lflclose's read and its write of a sector
          Offsets,      \* positions that are sought
          MaxSize       \* bound: characters in a file

ASSUME LfsAssumption ==
  /\ Nlfl \in Nat \ {0} /\ LF_BLKSIZ \in Nat \ {0} /\ LF_IBLEN \in Nat \ {0}
  /\ IBlocks \in Nat \ {0} /\ DBlocks \in Nat \ {0} /\ IbPerSector \in Nat \ {0}
  /\ IBlocks % IbPerSector = 0 /\ Offsets \subseteq Nat
  /\ OpenTogether \in BOOLEAN /\ CloseApart \in BOOLEAN

LfDevices == 0 .. Nlfl - 1
LF_IDATA  == LF_BLKSIZ * LF_IBLEN
LF_INULL  == -1
LF_DNULL  == -1
Unlinked  == -2                     \* the link of a data block full of characters
DFILL     == [i \in 0 .. LF_BLKSIZ - 1 |-> {}]

lfibclear(offset) ==
  [ib_next |-> LF_INULL, ib_offset |-> offset, ib_dba |-> [i \in 1 .. LF_IBLEN |-> LF_DNULL]]
free_dblock(next) == [lf_nextdb |-> next, chars |-> DFILL]
dblock(chars)     == [lf_nextdb |-> Unlinked, chars |-> chars]
link(i, n)        == IF i + 1 < n THEN i + 1 ELSE LF_INULL
NotInDirectory    == [ld_size |-> 0, ld_ilist |-> LF_INULL, used |-> FALSE]

(* A device as lfsopen leaves it, and as it is while free.                 *)
opened_on(n) ==
  [lfstate |-> "LF_USED", lfname |-> n, lfpos |-> 0, lfinum |-> LF_INULL,
   lfiblock |-> lfibclear(0), lfdnum |-> LF_DNULL, lfdblock |-> DFILL,
   lfbyte |-> LF_BLKSIZ, lfibdirty |-> FALSE, lfdbdirty |-> FALSE, sector |-> <<>>]
LF_FREE == [opened_on({}) EXCEPT !.lfstate = "LF_FREE"]

VARIABLE lfs

(* The disk as lfscreate formats it.                                       *)
LfsInit ==
  lfs = [dir  |-> [lfd_dfree |-> 0, lfd_ifree |-> 0, lfd_files |-> [n \in LfNames |-> NotInDirectory]],
         iblk |-> [i \in 0 .. IBlocks - 1 |-> [lfibclear(0) EXCEPT !.ib_next = link(i, IBlocks)]],
         dblk |-> [b \in 0 .. DBlocks - 1 |-> free_dblock(link(b, DBlocks))],
         ctl  |-> [d \in LfDevices |-> LF_FREE],
         opening |-> {}, got |-> {}, panicked |-> FALSE]

file(s, d) == s.dir.lfd_files[s.ctl[d].lfname]

-----------------------------------------------------------------------------
(* What the parts of the operations make of state s, for device d.         *)

lfflush(s, d) ==
  LET c == s.ctl[d]
  IN  [s EXCEPT !.dblk = IF c.lfdbdirty THEN [@ EXCEPT ![c.lfdnum] = dblock(c.lfdblock)] ELSE @,
                !.iblk = IF c.lfibdirty THEN [@ EXCEPT ![c.lfinum] = c.lfiblock] ELSE @,
                !.ctl[d].lfdbdirty = FALSE, !.ctl[d].lfibdirty = FALSE]

(* A new index block, of which none may be left: panic.                    *)
lfiballoc(s) ==
  IF s.dir.lfd_ifree = LF_INULL THEN [s EXCEPT !.panicked = TRUE]
  ELSE [s EXCEPT !.dir.lfd_ifree = s.iblk[@].ib_next]

lfdballoc(s, d) ==
  IF s.dir.lfd_dfree = LF_DNULL THEN [s EXCEPT !.panicked = TRUE]
  ELSE [s EXCEPT !.dir.lfd_dfree = s.dblk[@].lf_nextdb, !.ctl[d].lfdblock = DFILL]

load_index(s, d, i) == [s EXCEPT !.ctl[d].lfiblock = s.iblk[i], !.ctl[d].lfinum = i]
new_index(s, d, i, offset) ==
  [lfiballoc(s) EXCEPT !.ctl[d].lfiblock = lfibclear(offset), !.ctl[d].lfinum = i,
                       !.ctl[d].lfibdirty = TRUE]

start_index_where_it_is(s, d) ==
  LET c == s.ctl[d]
  IN  IF c.lfinum = LF_INULL
      THEN IF file(s, d).ld_ilist = LF_INULL
           THEN [new_index(s, d, s.dir.lfd_ifree, 0) EXCEPT
                   !.dir.lfd_files[c.lfname].ld_ilist = s.dir.lfd_ifree]
           ELSE load_index(s, d, file(s, d).ld_ilist)
      ELSE s

(* An index block of the file at or before the position is in memory.      *)
start_index(s, d) ==
  LET c == s.ctl[d]
  IN  IF c.lfinum = LF_INULL
      THEN IF file(s, d).ld_ilist = LF_INULL
           THEN [new_index(s, d, s.dir.lfd_ifree, 0) EXCEPT
                   !.dir.lfd_files[c.lfname].ld_ilist = s.dir.lfd_ifree]
           ELSE load_index(s, d, file(s, d).ld_ilist)
      ELSE IF c.lfpos < c.lfiblock.ib_offset THEN load_index(s, d, file(s, d).ld_ilist) ELSE s

(* The loop to the index block of the position; the old one is written     *)
(* with its link to a new one.                                             *)
RECURSIVE reach_index(_, _)
reach_index(s, d) ==
  LET c == s.ctl[d]
      ib == s.dir.lfd_ifree
      linked == [c.lfiblock EXCEPT !.ib_next = ib]
  IN  IF s.panicked \/ (c.lfpos \div LF_IDATA) * LF_IDATA <= c.lfiblock.ib_offset THEN s
      ELSE reach_index(
             [(IF c.lfiblock.ib_next # LF_INULL THEN load_index(s, d, c.lfiblock.ib_next)
               ELSE [new_index(s, d, ib, c.lfiblock.ib_offset + LF_IDATA) EXCEPT
                       !.iblk[c.lfinum] = linked])
              EXCEPT !.ctl[d].lfdnum = LF_DNULL], d)

(* The data block of the position is in memory.                            *)
data_block(s, d) ==
  LET c == s.ctl[d]
      i == (c.lfpos % LF_IDATA) \div LF_BLKSIZ + 1
      dnum == c.lfiblock.ib_dba[i]
      r == IF dnum = LF_DNULL
           THEN [lfdballoc(s, d) EXCEPT !.ctl[d].lfiblock.ib_dba[i] = s.dir.lfd_dfree,
                                        !.ctl[d].lfibdirty = TRUE,
                                        !.ctl[d].lfdnum = s.dir.lfd_dfree]
           ELSE IF dnum # c.lfdnum
           THEN [s EXCEPT !.ctl[d].lfdblock = s.dblk[dnum].chars, !.ctl[d].lfdbdirty = FALSE,
                          !.ctl[d].lfdnum = dnum]
           ELSE s
  IN  [r EXCEPT !.ctl[d].lfbyte = c.lfpos % LF_BLKSIZ]

lfsetup(s, d) ==
  LET r == reach_index(start_index(lfflush(s, d), d), d)
  IN  IF r.panicked THEN r ELSE data_block(r, d)

(* The block of the position is set up if it has to be.                    *)
ready_at(s, d) == IF s.ctl[d].lfbyte >= LF_BLKSIZ THEN lfsetup(s, d) ELSE s

lfdbfree(s, b) == [s EXCEPT !.dblk[b] = free_dblock(s.dir.lfd_dfree), !.dir.lfd_dfree = b]

(* The index blocks from i on are cleared and their data blocks freed; the *)
(* last is linked to the free ones, which ends the loop.                   *)
RECURSIVE free_from(_, _, _)
free_from(s, i, ifree) ==
  LET ib == s.iblk[i]
      next == IF ib.ib_next = LF_INULL THEN ifree ELSE ib.ib_next
      freed == FoldLeft(lfdbfree, s, SelectSeq(ib.ib_dba, LAMBDA b : b # LF_DNULL))
  IN  IF i = ifree THEN s
      ELSE free_from([freed EXCEPT !.iblk[i] = [lfibclear(0) EXCEPT !.ib_next = next]], next, ifree)

(* The blocks that a truncated file has in memory are not looked at again. *)
lftruncate(s, d) ==
  LET f == lfflush(s, d)
      first == file(s, d).ld_ilist
      reset == [f EXCEPT !.ctl[d] = opened_on(s.ctl[d].lfname), !.got = {},
                         !.dir.lfd_files[s.ctl[d].lfname].ld_ilist = LF_INULL,
                         !.dir.lfd_files[s.ctl[d].lfname].ld_size = 0]
  IN  [free_from(reset, first, f.dir.lfd_ifree) EXCEPT !.dir.lfd_ifree = first]

-----------------------------------------------------------------------------
(* The operations.                                                         *)

(* A process has the mutex of an open device.                              *)
has_open(d) == ~lfs.panicked /\ lfs.ctl[d].lfstate = "LF_USED" /\ lfs.ctl[d].sector = <<>>

(* Index blocks on the disk may be changed.                                *)
may_write == CloseApart \/ \A d \in LfDevices : lfs.ctl[d].sector = <<>>

free_devices == {d \in LfDevices : lfs.ctl[d].lfstate = "LF_FREE"}
is_open(n) == \E d \in LfDevices : lfs.ctl[d].lfstate = "LF_USED" /\ lfs.ctl[d].lfname = n

(* lfsopen looks for the name and a free device before it waits for the    *)
(* directory's mutex, mode "o" for an old file and "n" for a new one.      *)
lfsopen_search(n, mode) ==
  /\ ~lfs.panicked /\ (OpenTogether \/ lfs.opening = {})
  /\ ~is_open(n) /\ free_devices # {}
  /\ lfs' = [lfs EXCEPT !.opening = @ \cup {[name |-> n, mode |-> mode, dev |-> Min(free_devices)]}]

lfsopen_old(o) ==
  /\ o.mode = "o" /\ lfs.dir.lfd_files[o.name].used
  /\ lfs' = [lfs EXCEPT !.opening = @ \ {o}, !.ctl[o.dev] = opened_on(o.name),
                        !.got = {}]

directory_full == Cardinality({n \in LfNames : lfs.dir.lfd_files[n].used}) >= LF_NUM_DIR_ENT

lfsopen_new(o) ==
  /\ o.mode = "n" /\ ~lfs.dir.lfd_files[o.name].used /\ ~directory_full
  /\ lfs' = [lfs EXCEPT !.opening = @ \ {o}, !.ctl[o.dev] = opened_on(o.name),
                        !.dir.lfd_files[o.name].used = TRUE, !.got = {}]

lfsopen_refused(o) ==
  /\ IF o.mode = "o" THEN ~lfs.dir.lfd_files[o.name].used
     ELSE lfs.dir.lfd_files[o.name].used \/ directory_full
  /\ lfs' = [lfs EXCEPT !.opening = @ \ {o}]

(* After a panic nothing has changed but that.                             *)
becomes(s) == lfs' = IF s.panicked THEN [lfs EXCEPT !.panicked = TRUE] ELSE s

put_at(s, d, c) ==
  [s EXCEPT !.dir.lfd_files[s.ctl[d].lfname].ld_size =
              IF s.ctl[d].lfpos >= @ THEN @ + 1 ELSE @,
            !.ctl[d].lfdblock[s.ctl[d].lfbyte] = c,
            !.ctl[d].lfbyte = @ + 1, !.ctl[d].lfpos = @ + 1, !.ctl[d].lfdbdirty = TRUE, !.got = {}]

lflputc(d, c) ==
  /\ has_open(d) /\ lfs.ctl[d].lfpos < MaxSize
  /\ lfs.ctl[d].lfpos <= file(lfs, d).ld_size
  /\ lfs.ctl[d].lfbyte >= LF_BLKSIZ => may_write
  /\ LET s == ready_at(lfs, d)
     IN  becomes(IF s.panicked THEN s ELSE put_at(s, d, c))

lflgetc(d) ==
  /\ has_open(d) /\ lfs.ctl[d].lfpos < file(lfs, d).ld_size
  /\ lfs.ctl[d].lfbyte >= LF_BLKSIZ => may_write
  /\ LET s == ready_at(lfs, d)
         at == s.ctl[d].lfbyte
     IN  becomes([s EXCEPT !.got = s.ctl[d].lfdblock[at],
                           !.ctl[d].lfbyte = @ + 1, !.ctl[d].lfpos = @ + 1])

lflseek(d, offset) ==
  /\ has_open(d) /\ offset <= file(lfs, d).ld_size
  /\ lfs' = [lfs EXCEPT !.ctl[d].lfpos = offset, !.ctl[d].lfbyte = LF_BLKSIZ, !.got = {}]

lflcontrol_truncate(d) ==
  /\ has_open(d) /\ may_write /\ file(lfs, d).ld_size > 0
  /\ lfs' = lftruncate(lfs, d)

(* lflclose does not take the directory's mutex for lfflush, whose lfibput *)
(* reads the sector of the index block and writes it back changed.         *)
sector_of(i) == {j \in 0 .. IBlocks - 1 : j \div IbPerSector = i \div IbPerSector}

lflclose_clean(d) ==
  /\ has_open(d) /\ ~lfs.ctl[d].lfibdirty
  /\ lfs' = [lfflush(lfs, d) EXCEPT !.ctl[d] = LF_FREE, !.got = {}]

lflclose_read(d) ==
  /\ has_open(d) /\ may_write /\ lfs.ctl[d].lfibdirty
  /\ lfs' = [lfs EXCEPT
       !.dblk = lfflush(lfs, d).dblk, !.ctl[d].lfdbdirty = FALSE,
       !.ctl[d].sector = [j \in sector_of(lfs.ctl[d].lfinum) |->
                            IF j = lfs.ctl[d].lfinum THEN lfs.ctl[d].lfiblock ELSE lfs.iblk[j]]]

lflclose_write(d) ==
  /\ ~lfs.panicked /\ lfs.ctl[d].sector # <<>>
  /\ lfs' = [lfs EXCEPT !.iblk = [j \in DOMAIN @ |-> IF j \in DOMAIN lfs.ctl[d].sector
                                                     THEN lfs.ctl[d].sector[j] ELSE @[j]],
                        !.ctl[d] = LF_FREE, !.got = {}]

LfsNext ==
  \/ \E n \in LfNames, mode \in {"o", "n"} : lfsopen_search(n, mode)
  \/ ~lfs.panicked /\ \E o \in lfs.opening : lfsopen_old(o) \/ lfsopen_new(o) \/ lfsopen_refused(o)
  \/ \E d \in LfDevices :
       \/ \E c \in LfChars : lflputc(d, c)
       \/ \E offset \in Offsets : lflseek(d, offset)
       \/ lflgetc(d) \/ lflcontrol_truncate(d)
       \/ lflclose_clean(d) \/ lflclose_read(d) \/ lflclose_write(d)

LfsSpec == LfsInit /\ [][LfsNext]_lfs
-----------------------------------------------------------------------------
(* The file as its blocks have it: those an open device has in memory, the *)
(* others on the disk.                                                     *)
used_by(n) == {d \in LfDevices : lfs.ctl[d].lfstate = "LF_USED" /\ lfs.ctl[d].lfname = n}
index_block(n, i) ==
  IF \E d \in used_by(n) : lfs.ctl[d].lfinum = i
  THEN lfs.ctl[CHOOSE d \in used_by(n) : lfs.ctl[d].lfinum = i].lfiblock ELSE lfs.iblk[i]
block_chars(n, b) ==
  IF \E d \in used_by(n) : lfs.ctl[d].lfdnum = b
  THEN lfs.ctl[CHOOSE d \in used_by(n) : lfs.ctl[d].lfdnum = b].lfdblock ELSE lfs.dblk[b].chars

RECURSIVE index_from(_, _, _)
index_from(n, i, pos) ==
  LET ib == index_block(n, i)
  IN  IF pos < ib.ib_offset + LF_IDATA THEN ib ELSE index_from(n, ib.ib_next, pos)

char_at(n, pos) ==
  LET ib == index_from(n, lfs.dir.lfd_files[n].ld_ilist, pos)
  IN  block_chars(n, ib.ib_dba[(pos % LF_IDATA) \div LF_BLKSIZ + 1])[pos % LF_BLKSIZ]

(* The blocks met from block i on, which next leads from one to the next.  *)
chain(next, i) ==
  LET n == Cardinality(DOMAIN next)
      at[k \in 0 .. n] == IF k = 0 THEN i
                          ELSE IF at[k - 1] \in DOMAIN next THEN next[at[k - 1]] ELSE at[k - 1]
  IN  SelectSeq([k \in 1 .. n + 1 |-> at[k - 1]], LAMBDA b : b \in DOMAIN next)

index_blocks(n) ==
  chain([i \in DOMAIN lfs.iblk |-> index_block(n, i).ib_next], lfs.dir.lfd_files[n].ld_ilist)
data_blocks(n) ==
  FoldLeft(LAMBDA s, i : s \o SelectSeq(index_block(n, i).ib_dba, LAMBDA b : b # LF_DNULL),
           <<>>, index_blocks(n))

(* Each block is in one list or file, and there once.                      *)
shared_out(free, of(_), blocks) ==
  /\ ToSet(free) \cup UNION {ToSet(of(n)) : n \in LfNames} = blocks
  /\ Len(free) + MapThenSumSet(LAMBDA n : Len(of(n)), LfNames) = Cardinality(blocks)

(* No block is lost or in two files, also while some of a file's index is  *)
(* in memory only, whatever grows, is truncated and grows again.           *)
BlocksConserved ==
  lfs.panicked \/
    /\ shared_out(chain([i \in DOMAIN lfs.iblk |-> lfs.iblk[i].ib_next], lfs.dir.lfd_ifree),
                  index_blocks, DOMAIN lfs.iblk)
    /\ shared_out(chain([b \in DOMAIN lfs.dblk |-> lfs.dblk[b].lf_nextdb], lfs.dir.lfd_dfree),
                  data_blocks, DOMAIN lfs.dblk)

(* The local file system keeps its promise: files are sequences of         *)
(* characters, whatever blocks are allocated, freed and allocated again to *)
(* another file, are in memory or on the disk; and it loses no block.      *)
Store == INSTANCE FileStore WITH
  Names <- LfNames, Devices <- LfDevices, Chars <- LfChars,
  files  <- [n \in LfNames |->
               [exists |-> lfs.dir.lfd_files[n].used, size |-> lfs.dir.lfd_files[n].ld_size,
                chars |-> [i \in 1 .. lfs.dir.lfd_files[n].ld_size |-> char_at(n, i - 1)]]],
  opened <- [d \in LfDevices |->
               [open |-> lfs.ctl[d].lfstate = "LF_USED", name |-> lfs.ctl[d].lfname,
                pos |-> lfs.ctl[d].lfpos]],
  got    <- lfs.got

LfsIsFileStore == Store!FilesSpec /\ []BlocksConserved
=============================================================================

------------------------------- MODULE FileStore -------------------------------
(***************************************************************************)
(* What a file system promises: a file is a sequence of characters; a      *)
(* device opened on it has a position in it, at which characters are put   *)
(* and got; a file is open on one device at a time.                        *)
(***************************************************************************)
EXTENDS Naturals, Sequences

CONSTANTS Names, Devices, Chars

Absent == [size |-> 0, chars |-> <<>>, exists |-> FALSE]
Shut   == [open |-> FALSE, name |-> {}, pos |-> 0]
File(s) == [size |-> Len(s), chars |-> s, exists |-> TRUE]

VARIABLES files,   \* of each name its file
          opened,  \* of each device whether it is open, on which file and where
          got      \* the character that the last call got, if it got one

FilesInit == /\ files = [n \in Names |-> Absent]
             /\ opened = [d \in Devices |-> Shut]
             /\ got = {}

IsOpen(n) == \E d \in Devices : opened[d].open /\ opened[d].name = n
Text(d)   == files[opened[d].name].chars
Move(d, pos) == opened' = [opened EXCEPT ![d].pos = pos]

Open(d, n) ==
  /\ ~opened[d].open /\ ~IsOpen(n)
  /\ opened' = [opened EXCEPT ![d] = [open |-> TRUE, name |-> n, pos |-> 0]]
  /\ got' = {}
  /\ files' = [files EXCEPT ![n].exists = TRUE]

Close(d) ==
  /\ opened[d].open
  /\ opened' = [opened EXCEPT ![d] = Shut]
  /\ got' = {} /\ UNCHANGED files

(* A character replaces the one at the position, or is added at the end.   *)
Put(d, c) ==
  LET at == opened[d].pos + 1
  IN  /\ opened[d].open /\ Move(d, at) /\ got' = {}
      /\ files' = [files EXCEPT ![opened[d].name] =
                     File(IF at > Len(Text(d)) THEN Append(Text(d), c)
                          ELSE [Text(d) EXCEPT ![at] = c])]

Get(d) ==
  LET at == opened[d].pos + 1
  IN  /\ opened[d].open /\ Move(d, at) /\ at <= Len(Text(d))
      /\ got' = Text(d)[at] /\ UNCHANGED files

Seek(d) ==
  /\ opened[d].open
  /\ \E pos \in 0 .. Len(Text(d)) : Move(d, pos)
  /\ got' = {} /\ UNCHANGED files

Truncate(d) ==
  /\ opened[d].open /\ Move(d, 0) /\ got' = {}
  /\ files' = [files EXCEPT ![opened[d].name] = File(<<>>)]

FilesNext ==
  \E d \in Devices : \/ \E n \in Names : Open(d, n)
                     \/ \E c \in Chars : Put(d, c)
                     \/ Close(d) \/ Get(d) \/ Seek(d) \/ Truncate(d)

FilesSpec == FilesInit /\ [][FilesNext]_<<opened, got, files>>
=============================================================================

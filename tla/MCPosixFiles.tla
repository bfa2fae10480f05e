----------------------------- MODULE MCPosixFiles -----------------------------
(* Small instances of PosixFiles, and what its descriptors are to          *)
(* FileTable.                                                              *)
EXTENDS PosixFiles, MCDeviceTable, TLC

CONSTANTS o1, o2, h1, h2

Symmetry == Permutations({o1, o2}) \cup Permutations({h1, h2})

(* Two partitions of a disk, one that calls by number open as well, and    *)
(* one that is not there.                                                  *)
SomePaths == { <<LinuxLetters(0), 1>>, <<LinuxLetters(0), 2>>,
               <<LinuxLetters(2), 1>>, <<LinuxLetters(3), 0>> }
FirstDisk == {<<LinuxLetters(0), 0>>}
OnePath == {<<LinuxLetters(1), 1>>}
AndNull == SomePaths \cup {Null}

(* The drive and partition a descriptor leads to.                          *)
Where(o) ==
  IF o = Null THEN Null
  ELSE <<CHOOSE n \in Used : table[n] = opened[o].entry, opened[o].part>>

Files == INSTANCE FileTable WITH
  Numbers <- 0 .. Slots - 1, Parts <- 0 .. PartSlots - 1,
  path <- [fd \in Fds |-> IF given[fd] = Null THEN Null ELSE given[fd].path],
  device <- [fd \in Fds |-> IF given[fd] = Null THEN Null ELSE Where(Behind(fd))]

(* The descriptors refine FileTable: while it is open each one is, through *)
(* the CRT's table, the search and the entry, the partition Linux calls by *)
(* the path it was opened by, whatever the steps between.                  *)
ImplementsFiles == Files!Spec
=============================================================================

---------------------------- MODULE MCDeviceTable ----------------------------
(* Small instances of DeviceTable: what is plugged in.                     *)
EXTENDS DeviceTable

CONSTANTS t1, t2

Part(n, start, size) == [number |-> n, start |-> start, size |-> size]
Disk(n, parts) ==
  [number |-> n, removable |-> FALSE, ready |-> TRUE, size |-> 100, parts |-> parts]
Stick(n, parts) == [Disk(n, parts) EXCEPT !.removable = TRUE]
EmptyReader(n) == [Stick(n, <<>>) EXCEPT !.ready = FALSE]

(* Disks 0 and 2 have a partition at the same place; one volume spans two  *)
(* disks, one cannot be asked, one has no path, and one with an unknown    *)
(* file system hides another one from FindVolume.                          *)
Piece(n, start, size) == [disk |-> n, start |-> start, size |-> size]
Volume(extents) ==
  [readable |-> TRUE, recognised |-> TRUE, reachable |-> TRUE, extents |-> extents]
Mounted == << [Volume({Piece(0, 5, 10)}) EXCEPT !.readable = FALSE],
              Volume({Piece(1, 1, 20), Piece(2, 5, 10)}),
              Volume({Piece(0, 5, 10)}),
              [Volume({Piece(0, 15, 40)}) EXCEPT !.reachable = FALSE],
              [Volume({Piece(1, 21, 30)}) EXCEPT !.recognised = FALSE],
              Volume({Piece(1, 21, 30)}) >>

(* Device numbers in use without a gap, enumerated out of order: a disk    *)
(* with an unused layout slot, a stick whose partition numbers are wrong.  *)
Dense == << Stick(1, <<Part(0, 1, 20), Part(0, 21, 30)>>),
            Disk(0, <<Part(2, 5, 10), Part(0, 0, 0), Part(1, 15, 40)>>),
            Disk(2, <<Part(1, 5, 10)>>) >>
(* The second drive has the last number of the table.                      *)
AtTheEdge == << Disk(1, <<Part(1, 1, 50)>>), Disk(3, <<>>) >>
TwoDisks == << Disk(1, <<Part(1, 1, 50)>>), Disk(0, <<>>) >>

Sparse == << Disk(0, <<>>), Disk(2, <<>>) >>
WithReader == << Disk(0, <<>>), EmptyReader(1), Disk(2, <<>>) >>
WithExtended == << Disk(0, <<Part(1, 1, 30), Part(0, 31, 60), Part(2, 40, 50)>>) >>
LastSlot == << Disk(0, <<>>), Disk(1, <<>>), Disk(2, <<>>), Disk(3, <<>>) >>
=============================================================================

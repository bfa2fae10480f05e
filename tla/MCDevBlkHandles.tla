--------------------------- MODULE MCDevBlkHandles ---------------------------
(* Small instances of DevBlkHandles.                                       *)
EXTENDS DevBlkHandles, Sequences, TLC

CONSTANTS t1, t2, o1, o2, o3, h1, h2, h3

OneDrive == {0}
TwoDrives == {0, 1}
Everywhere == [t \in Threads |-> Drives]
Nowhere == [t \in Threads |-> {}]
Where(d1, d2) == [t \in Threads |-> IF t = t1 THEN d1 ELSE d2]
DriveEach == Where({0}, {1})
SecondCloses == Where({}, {1})
SecondAsks == Where({}, Drives)
Symmetry == Permutations(Objs) \cup Permutations(OSHandles)

----------------------------------------------------------------------------
(* The list a forward traversal sees is a HandleList: an open takes effect *)
(* with the store to Blink->Flink, and so does a close.                    *)
Behind(d, s) == flink[IF s = <<>> THEN d ELSE s[Len(s)]]
Forward(d) ==
  LET met[k \in 0 .. Cardinality(Objs)] ==
        IF k = 0 THEN <<>>
        ELSE IF Behind(d, met[k - 1]) \in Objs
             THEN Append(met[k - 1], Behind(d, met[k - 1])) ELSE met[k - 1]
  IN  met[Cardinality(Objs)]

List == INSTANCE HandleList WITH list <- [d \in Drives |-> Forward(d)]

(* With one thread changing the list of a drive, opens and closes are      *)
(* atomic appends and removals, whoever traverses it.                      *)
ImplementsList == List!Spec
=============================================================================

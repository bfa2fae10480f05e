----------------------------- MODULE MCDevBlkIO -----------------------------
(* Small instances of DevBlkIO.  Two-byte sectors, an 8-value DWORD and a  *)
(* 64-value LONGLONG bring every overflow within reach.                    *)
EXTENDS DevBlkIO

CONSTANTS t1, t2

FarDistances == {-32, -13, -3, -1, 0, 1, 2, 3, 13, 31}
NearDistances == {-13, -3, -1, 0, 1, 2, 13}
FewDistances == {-3, 0, 2}
SomeLongs == {-1, 0, 3}

----------------------------------------------------------------------------
(* One caller uses a PartitionFile: what it has asked for is in asked and  *)
(* req, its position moves when CurRelPos does, a seek has its result as   *)
(* soon as that is stored.                                                 *)
Pending ==
  CASE pc[t1] \in {"idle", "seekReturn"} -> [op |-> "none"]
    [] pc[t1] \in {"seekMove", "seekAbs", "seekRel"} ->
         [op |-> "seek", origin |-> asked[t1].method, by |-> asked[t1].by]
    [] OTHER -> [op |-> "read", count |-> req[t1]]

File == INSTANCE PartitionFile WITH
  Length  <- EndingOffset - StartingOffset,
  MayFail <- Faults \cap {"seek", "read"},
  pos     <- curRel,
  call    <- Pending,
  result  <- IF pc[t1] = "seekReturn" THEN curRel ELSE ret[t1]

(* What is beside the file: all that follows an escape; a DevBlkSetPointer *)
(* without a high half; a seek whose target is no LONGLONG; a read at a    *)
(* position inside a sector, which the OS refuses; one whose rounding      *)
(* wraps to zero.                                                          *)
Beside ==
  \/ escapes' # {}
  \/ narrow[t1] \/ narrow'[t1] \/ SeekQueryFails(t1, TRUE)
  \/ pc[t1] = "seekRel" /\ Wraps(t1)
  \/ pc[t1] = "readFile" /\ ~DiskReads(ReadsAt(t1), want[t1])
  \/ req[t1] > DwordMod - SectorSize

(* However the OS calls fail (but for the SetFilePointerEx after a read),  *)
(* DevBlkSetPointerEx and DevBlkRead do with their caller's arguments what *)
(* the calls of that file do.                                              *)
ImplementsFile == File!Init /\ [][Beside \/ File!Next]_File!vars
=============================================================================

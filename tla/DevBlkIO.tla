------------------------------ MODULE DevBlkIO ------------------------------
(***************************************************************************)
(* Seeking and reading through one open HDEVBLK (src/src/windevblk.c).     *)
(*                                                                         *)
(* An HDEVBLK names a byte range of a drive, the partition, but the OS     *)
(* handle behind it names the whole drive.  DevBlkSetPointerEx and         *)
(* DevBlkRead confine the caller to the partition by arithmetic on two     *)
(* copies of the position: the file pointer the OS keeps for DriveHandle   *)
(* (filePos) and the fields CurAbsPos, CurRelPos of the DEVBLK_OBJECT.     *)
(* Nothing locks an object, so the calls of several threads interleave     *)
(* between the OS calls and the stores to the two fields: each of these is *)
(* an action.  Distinct HDEVBLKs share no position, so one is enough.      *)
(*                                                                         *)
(* Abstracted: the bytes themselves (a read is the range it covers) and    *)
(* the bodies of malloc and memcpy.                                        *)
(***************************************************************************)
EXTENDS Integers

CONSTANTS
  Threads,         \* threads that use the HDEVBLK
  SectorSize,      \* Geometry.BytesPerSector of the drive
  DiskSize,        \* bytes on the drive
  StartingOffset,  \* first byte of the partition
  EndingOffset,    \* the byte after its last one
  LongHalf,        \* 2^31: LONG is -LongHalf .. LongHalf-1
  QuadHalf,        \* 2^63: LONGLONG is -QuadHalf .. QuadHalf-1
  Distances,       \* liDistanceToMove values callers pass to SetPointerEx
  Longs,           \* lDistanceToMove, *lpDistanceToMoveHigh for SetPointer
  ReadSizes,       \* nNumberOfBytesToRead values callers pass
  Overlaps,        \* offsets callers pass in an OVERLAPPED
  Faults           \* calls that may fail: "seek" (the SetFilePointerEx of
                   \* DevBlkSetPointerEx), "resync" (that of DevBlkRead),
                   \* "read", "malloc"

ASSUME IOAssumption ==
  /\ SectorSize \in Nat \ {0}
  /\ DiskSize \in Nat /\ StartingOffset \in Nat /\ EndingOffset \in Nat
  /\ StartingOffset <= EndingOffset /\ EndingOffset <= DiskSize
  /\ EndingOffset % SectorSize = 0
  /\ LongHalf \in Nat /\ SectorSize <= LongHalf
  /\ QuadHalf \in Nat /\ QuadHalf = 2 * LongHalf * LongHalf /\ DiskSize < QuadHalf
  /\ Distances \subseteq -QuadHalf .. QuadHalf - 1
  /\ Longs \subseteq -LongHalf .. LongHalf - 1
  /\ ReadSizes \subseteq 0 .. 2 * LongHalf - 1
  /\ Overlaps \subseteq 0 .. DiskSize

VARIABLES
  pc,       \* where each thread is in its call
  req,      \* bytes its read asked for
  ovl,      \* OVERLAPPED offset of its read, or NoOffset
  narrow,   \* whether its seek came in without a high half
  asked,    \* history: the method and the distance of its seek
  lPos,     \* its local lPos (before the move: the target lDist)
  want,     \* its local dwBytesToRead
  got,      \* its local dwReadBytes
  ret,      \* result of its last call: bytes or relative position, or Failed
  filePos,  \* file pointer of DriveHandle, kept by the OS
  curAbs,   \* CurAbsPos of the DEVBLK_OBJECT
  curRel,   \* CurRelPos of the DEVBLK_OBJECT
  escapes   \* history: which of EscapeKinds have happened so far

locals == <<req, ovl, narrow, asked, lPos, want, got>>
shared == <<filePos, curAbs, curRel>>
vars == <<pc, req, ovl, narrow, asked, lPos, want, got, ret, filePos, curAbs, curRel, escapes>>

NoOffset == -1
Failed == -1
Methods == {"FILE_BEGIN", "FILE_CURRENT", "FILE_END", "other"}
NoSeek == [method |-> "other", by |-> 0]
Labels == {"idle", "seekMove", "seekAbs", "seekRel", "seekReturn",
           "readFile", "readSync", "readAbs", "readRel"}

(* What takes the position out of the hands of the arithmetic below:       *)
(* a read of a fraction of a sector that is cut at the end of the          *)
(* partition, a read at an OVERLAPPED offset, a SetFilePointerEx that      *)
(* fails after the read it follows, a call made during another one.        *)
EscapeKinds == {"roundUp", "overlapped", "resync", "interleaved"}

----------------------------------------------------------------------------
(* Machine arithmetic.  Signed overflow wraps, as the compiler's does.     *)
DwordMod == 2 * LongHalf
Dword(x) == x % DwordMod
Long(x) == ((x + LongHalf) % DwordMod) - LongHalf
Quad(x) == ((x + QuadHalf) % (2 * QuadHalf)) - QuadHalf

(* Mutants of Clamp: one side of the check is forgotten.                   *)
ClampAbove(x) == IF x > EndingOffset THEN EndingOffset ELSE x
ClampBelow(x) == IF x < StartingOffset THEN StartingOffset ELSE x

(* "We cannot move outside the current partition".                         *)
Clamp(x) == IF x < StartingOffset THEN StartingOffset
            ELSE IF x > EndingOffset THEN EndingOffset ELSE x

(* Mutant of Origin: the position is not asked for, lPos stays 0.          *)
OriginUnasked(cur) ==
  [FILE_BEGIN |-> StartingOffset, FILE_CURRENT |-> 0, FILE_END |-> EndingOffset]

(* Where DevBlkSetPointerEx moves to when the OS pointer is at cur.  An    *)
(* unknown method leaves lDist at the 0 of the query.                      *)
Origin(cur) ==
  [FILE_BEGIN |-> StartingOffset, FILE_CURRENT |-> cur, FILE_END |-> EndingOffset]

SeekTarget(m, d, cur) ==
  Clamp(IF m = "other" THEN 0 ELSE Quad(Origin(cur)[m] + d))

Aligned(x) == x % SectorSize = 0

(* Mutants of Cut: the room left is that of the whole partition; the last  *)
(* byte of the partition is taken for its end.                             *)
CutToLength(n, abs) ==
  LET rest == EndingOffset - StartingOffset IN IF n > rest THEN Dword(rest) ELSE n
CutToLast(n, abs) ==
  LET rest == EndingOffset - 1 - abs IN IF n > rest THEN Dword(rest) ELSE n

(* dwBytesToRead after the cut at the end of the partition, abs = CurAbsPos *)
Cut(n, abs) ==
  LET rest == EndingOffset - abs
  IN  IF n > rest THEN Dword(rest) ELSE n

(* Rounded up to whole sectors: a multiple of a sector grows by one too.   *)
WholeSectors(x) == Dword(SectorSize * ((x \div SectorSize) + 1))

(* Mutant of BytesToRead: counts of whole sectors are rounded up too.      *)
BytesToReadRounded(n, abs) ==
  IF Cut(n, abs) > 0 THEN WholeSectors(Cut(n, abs)) ELSE 0

(* dwBytesToRead handed to ReadFile.                                       *)
BytesToRead(n, abs) ==
  IF ~Aligned(n) /\ Cut(n, abs) > 0 THEN WholeSectors(Cut(n, abs)) ELSE Cut(n, abs)

(* Relative move after the read: back over what was read in excess.        *)
MoveBack(n, k) == IF k > n THEN Long(n - k) ELSE 0
Reported(n, k) == IF k > n THEN n ELSE k

----------------------------------------------------------------------------
Init ==
  /\ pc = [t \in Threads |-> "idle"]
  /\ req = [t \in Threads |-> 0]
  /\ ovl = [t \in Threads |-> NoOffset]
  /\ narrow = [t \in Threads |-> FALSE]
  /\ asked = [t \in Threads |-> NoSeek]
  /\ lPos = [t \in Threads |-> 0]
  /\ want = [t \in Threads |-> 0]
  /\ got = [t \in Threads |-> 0]
  /\ ret = [t \in Threads |-> 0]
  /\ filePos = StartingOffset
  /\ curAbs = StartingOffset
  /\ curRel = 0
  /\ escapes = {}

Goto(t, l) == pc' = [pc EXCEPT ![t] = l]

(* A return forgets the locals of the call.                                *)
Return(t, v) ==
  /\ pc' = [pc EXCEPT ![t] = "idle"]
  /\ ret' = [ret EXCEPT ![t] = v]
  /\ req' = [req EXCEPT ![t] = 0]
  /\ ovl' = [ovl EXCEPT ![t] = NoOffset]
  /\ narrow' = [narrow EXCEPT ![t] = FALSE]
  /\ asked' = [asked EXCEPT ![t] = NoSeek]
  /\ lPos' = [lPos EXCEPT ![t] = 0]
  /\ want' = [want EXCEPT ![t] = 0]
  /\ got' = [got EXCEPT ![t] = 0]

Interleaving(t) ==
  IF \E u \in Threads \ {t} : pc[u] # "idle" THEN {"interleaved"} ELSE {}

----------------------------------------------------------------------------
(* DevBlkSetPointerEx                                                      *)

(* Entry, query of the current position, computation of the target.        *)
SeekBegin(t, m, d, low) ==
  /\ pc[t] = "idle"
  /\ Goto(t, "seekMove")
  /\ narrow' = [narrow EXCEPT ![t] = low]
  /\ asked' = [asked EXCEPT ![t] = [method |-> m, by |-> d]]
  /\ lPos' = [lPos EXCEPT ![t] = SeekTarget(m, d, filePos)]
  /\ escapes' = escapes \cup Interleaving(t)
  /\ UNCHANGED <<req, ovl, want, got, ret, shared>>

SetPointerEx(t, m, d) == SeekBegin(t, m, d, FALSE)

(* DevBlkSetPointer joins a LONG and an optional high half.  Without one,  *)
(* HighPart is whatever the stack held, and the caller gets a DWORD back.  *)
Joined(high, low) == high * DwordMod + Dword(low)

SetPointer(t, m, low, high) == SeekBegin(t, m, Joined(high, low), FALSE)

SetPointerNoHigh(t, m, low) ==
  \E high \in -LongHalf .. LongHalf - 1 : SeekBegin(t, m, Joined(high, low), TRUE)

(* FALSE, or INVALID_SET_FILE_POINTER from DevBlkSetPointer.               *)
SeekFails(t, low) == Return(t, IF low THEN DwordMod - 1 ELSE Failed)

SeekQueryFails(t, low) ==
  /\ "seek" \in Faults
  /\ pc[t] = "idle"
  /\ SeekFails(t, low)
  /\ escapes' = escapes \cup Interleaving(t)
  /\ UNCHANGED shared

SeekMove(t) ==
  /\ pc[t] = "seekMove"
  /\ \/ /\ filePos' = lPos[t]
        /\ Goto(t, "seekAbs")
        /\ UNCHANGED <<locals, ret>>
     \/ /\ "seek" \in Faults
        /\ SeekFails(t, narrow[t])
        /\ UNCHANGED filePos
  /\ UNCHANGED <<curAbs, curRel, escapes>>

SeekStoreAbs(t) ==
  /\ pc[t] = "seekAbs"
  /\ curAbs' = lPos[t]
  /\ Goto(t, "seekRel")
  /\ UNCHANGED <<locals, ret, filePos, curRel, escapes>>

(* Mutant of SeekStoreRel: the offset of the partition is not taken off.   *)
SeekStoreRelAbsolute(t) ==
  /\ pc[t] = "seekRel"
  /\ curRel' = lPos[t]
  /\ Goto(t, "seekReturn")
  /\ UNCHANGED <<locals, ret, filePos, curAbs, escapes>>

SeekStoreRel(t) ==
  /\ pc[t] = "seekRel"
  /\ curRel' = lPos[t] - StartingOffset
  /\ Goto(t, "seekReturn")
  /\ UNCHANGED <<locals, ret, filePos, curAbs, escapes>>

(* *lpNewFilePointer is read back from the object.                         *)
SeekReturn(t) ==
  /\ pc[t] = "seekReturn"
  /\ Return(t, IF narrow[t] THEN Dword(curRel) ELSE curRel)
  /\ UNCHANGED <<shared, escapes>>

----------------------------------------------------------------------------
(* DevBlkRead                                                              *)

RoundsPastEnd(n, abs) ==
  ~Aligned(n) /\ abs # EndingOffset /\ n > EndingOffset - abs

(* Entry up to the ReadFile: the cut, the rounding, the bounce buffer.     *)
ReadBegin(t, n, o) ==
  /\ pc[t] = "idle"
  /\ escapes' = escapes \cup Interleaving(t)
                  \cup (IF RoundsPastEnd(n, curAbs) THEN {"roundUp"} ELSE {})
                  \cup (IF o # NoOffset THEN {"overlapped"} ELSE {})
  /\ \/ /\ Goto(t, "readFile")
        /\ req' = [req EXCEPT ![t] = n]
        /\ ovl' = [ovl EXCEPT ![t] = o]
        /\ want' = [want EXCEPT ![t] = BytesToRead(n, curAbs)]
        /\ UNCHANGED <<narrow, asked, lPos, got, ret>>
     \/ /\ "malloc" \in Faults /\ ~Aligned(n) /\ Cut(n, curAbs) > 0
        /\ Return(t, Failed)
  /\ UNCHANGED shared

(* The OS reads whole sectors of the drive, at the file pointer or at the  *)
(* OVERLAPPED offset, up to the end of the drive, and moves the pointer.   *)
DiskReads(at, n) == n = 0 \/ (Aligned(at) /\ Aligned(n))
Transferred(at, n) ==
  IF at >= DiskSize THEN 0 ELSE IF n > DiskSize - at THEN DiskSize - at ELSE n

ReadsAt(t) == IF ovl[t] = NoOffset THEN filePos ELSE ovl[t]

ReadFile(t) ==
  LET at == ReadsAt(t)
      k  == Transferred(at, want[t])
  IN  /\ pc[t] = "readFile"
      /\ \/ /\ DiskReads(at, want[t])
            /\ filePos' = at + k
            /\ IF want[t] > 0
               THEN /\ Goto(t, "readSync")
                    /\ got' = [got EXCEPT ![t] = k]
                    /\ UNCHANGED <<req, ovl, narrow, asked, lPos, want, ret>>
               ELSE Return(t, 0)
         \/ /\ "read" \in Faults \/ ~DiskReads(at, want[t])
            /\ Return(t, Failed)
            /\ UNCHANGED filePos
      /\ UNCHANGED <<curAbs, curRel, escapes>>

(* SetFilePointerEx from the current position; it refuses to go below 0.   *)
ReadSync(t) ==
  LET to == filePos + MoveBack(req[t], got[t])
  IN  /\ pc[t] = "readSync"
      /\ \/ /\ to >= 0
            /\ filePos' = to
            /\ lPos' = [lPos EXCEPT ![t] = to]
            /\ got' = [got EXCEPT ![t] = Reported(req[t], got[t])]
            /\ Goto(t, "readAbs")
            /\ UNCHANGED <<req, ovl, narrow, asked, want, ret, escapes>>
         \/ /\ to < 0 \/ "resync" \in Faults
            /\ Return(t, Failed)
            /\ escapes' = escapes \cup {"resync"}
            /\ UNCHANGED filePos
      /\ UNCHANGED <<curAbs, curRel>>

ReadStoreAbs(t) ==
  /\ pc[t] = "readAbs"
  /\ curAbs' = lPos[t]
  /\ Goto(t, "readRel")
  /\ UNCHANGED <<locals, ret, filePos, curRel, escapes>>

ReadStoreRel(t) ==
  /\ pc[t] = "readRel"
  /\ curRel' = lPos[t] - StartingOffset
  /\ Return(t, got[t])
  /\ UNCHANGED <<filePos, curAbs, escapes>>

----------------------------------------------------------------------------
(* DevBlkGetFileSizeEx, and DevBlkWrite, which is an empty stub.           *)
GetFileSizeEx(t) ==
  /\ pc[t] = "idle"
  /\ Return(t, EndingOffset - StartingOffset)
  /\ UNCHANGED <<shared, escapes>>

Write(t) ==
  /\ pc[t] = "idle"
  /\ Return(t, Failed)
  /\ UNCHANGED <<shared, escapes>>

----------------------------------------------------------------------------
SeekStep(t) == SeekMove(t) \/ SeekStoreAbs(t) \/ SeekStoreRel(t) \/ SeekReturn(t)
ReadStep(t) == ReadFile(t) \/ ReadSync(t) \/ ReadStoreAbs(t) \/ ReadStoreRel(t)

Next == \E t \in Threads :
  \/ \E m \in Methods, d \in Distances : SetPointerEx(t, m, d)
  \/ \E m \in Methods, low, high \in Longs : SetPointer(t, m, low, high)
  \/ \E m \in Methods, low \in Longs : SetPointerNoHigh(t, m, low)
  \/ \E n \in ReadSizes, o \in Overlaps \cup {NoOffset} : ReadBegin(t, n, o)
  \/ \E low \in BOOLEAN : (low => Longs # {}) /\ SeekQueryFails(t, low)
  \/ SeekStep(t)
  \/ ReadStep(t)
  \/ GetFileSizeEx(t)
  \/ Write(t)

Spec == Init /\ [][Next]_vars

(* One caller that reads to the end, retrying a read that failed: it never *)
(* stops in the middle of a call, goes on calling, and the drive does not  *)
(* fail its reads for ever.                                                *)
ReaderNext == \E t \in Threads :
  (\E n \in ReadSizes : ReadBegin(t, n, NoOffset)) \/ ReadStep(t)

ReaderSpec ==
  /\ Init /\ [][ReaderNext]_vars
  /\ WF_vars(ReaderNext)
  /\ \A t \in Threads : SF_vars(ReadFile(t) /\ filePos' # filePos)

----------------------------------------------------------------------------
(* Properties                                                              *)

(* Byte counts stay DWORDs and every position a drive can have, whatever   *)
(* the conversions and wraps of DevBlkSetPointerEx and DevBlkRead do.      *)
TypeOK ==
  /\ pc \in [Threads -> Labels]
  /\ req \in [Threads -> Nat]
  /\ ovl \in [Threads -> Overlaps \cup {NoOffset}]
  /\ narrow \in [Threads -> BOOLEAN]
  /\ asked \in [Threads -> [method : Methods, by : Int]]
  /\ lPos \in [Threads -> Nat]
  /\ want \in [Threads -> 0 .. DwordMod - 1]
  /\ got \in [Threads -> 0 .. DwordMod - 1]
  /\ ret \in [Threads -> Int]
  /\ filePos \in Nat /\ curAbs \in Nat /\ curRel \in Int
  /\ escapes \subseteq EscapeKinds

Partition == StartingOffset .. EndingOffset
Tame == escapes = {}

(* The bytes a pending ReadFile would transfer lie in the partition: the   *)
(* cut at EndingOffset (windevblk.c:424-432) uses CurAbsPos as it was, the *)
(* OS reads at the file pointer or the OVERLAPPED offset as it is.         *)
ReadsInside == \A t \in Threads :
  pc[t] = "readFile" /\ want[t] > 0 /\ DiskReads(ReadsAt(t), want[t])
    => ReadsAt(t) \in Partition /\ ReadsAt(t) + want[t] <= EndingOffset

(* DevBlkRead gives ReadFile the caller's buffer when the count is whole   *)
(* sectors, so it may not ask for more than the caller did.                *)
BufferFits == \A t \in Threads :
  pc[t] = "readFile" /\ Aligned(req[t]) => want[t] <= req[t]

(* Unless one of EscapeKinds happened, a caller can never see, seek or     *)
(* read bytes of a neighbouring partition, whatever it asks for and        *)
(* whichever OS call fails, and no read overruns the caller's buffer.      *)
Confined == Tame =>
  /\ filePos \in Partition /\ curAbs \in Partition
  /\ curRel \in 0 .. EndingOffset - StartingOffset
  /\ ReadsInside
  /\ BufferFits

(* The three copies of the position, the OS's and the object's two, agree  *)
(* whenever no call is under way.                                          *)
Agree == filePos = curAbs /\ curRel = curAbs - StartingOffset
Synced == Tame /\ (\A t \in Threads : pc[t] = "idle") => Agree

(* Without "interleaved" calls the steps of one call run alone.  What each *)
(* of them relies on: the inductive strengthening of Confined and Synced.  *)
Alone == \A t, u \in Threads : pc[t] # "idle" /\ pc[u] # "idle" => t = u

CallInv(t) ==
  /\ pc[t] \in {"seekMove", "seekReturn", "readFile"} => Agree
  /\ pc[t] \in {"seekMove", "seekAbs", "seekRel", "readAbs", "readRel"} => lPos[t] \in Partition
  /\ pc[t] = "readFile" => /\ ovl[t] = NoOffset
                           /\ Aligned(filePos) => filePos + want[t] <= EndingOffset
                           /\ Aligned(req[t]) => want[t] <= req[t]
                           /\ want[t] <= req[t] + SectorSize
  /\ pc[t] = "readSync" => /\ got[t] <= req[t] + SectorSize
                           /\ filePos = curAbs + got[t]
                           /\ curRel = curAbs - StartingOffset
                           /\ filePos <= EndingOffset
  /\ pc[t] \in {"seekAbs", "readAbs"} => filePos = lPos[t]
  /\ pc[t] \in {"seekRel", "readRel"} => filePos = lPos[t] /\ curAbs = lPos[t]

Steady ==
  /\ Alone
  /\ filePos \in Partition /\ curAbs \in Partition
  /\ curRel \in 0 .. EndingOffset - StartingOffset
  /\ (\A t \in Threads : pc[t] = "idle") => Agree
  /\ \A t \in Threads : CallInv(t)

(* Until one of EscapeKinds happens each step of DevBlkSetPointerEx and    *)
(* DevBlkRead finds the position as the step before it left it.            *)
IOInv == Tame => Steady

(* However the seeks of several threads interleave, no copy of the         *)
(* position ever leaves the partition (the copies may disagree).           *)
SeeksInside ==
  filePos \in Partition /\ curAbs \in Partition /\ curRel + StartingOffset \in Partition

(* DevBlkSetPointer without a high half moves by the signed 32-bit         *)
(* distance, as the optional parameter of windevblk.h:236 says.            *)
NoHighIsSigned == [][\A t \in Threads, m \in Methods, low \in Longs :
  SetPointerNoHigh(t, m, low) => lPos'[t] = SeekTarget(m, low, filePos)]_vars

(* The byte a seek under way was told to go to, from where it began; its   *)
(* target is computed as a LONGLONG (windevblk.c:358-368) and may wrap.    *)
Goal(t) == IF asked[t].method = "other" THEN 0
           ELSE Origin(StartingOffset + curRel)[asked[t].method] + asked[t].by
Wraps(t) == Quad(Goal(t)) # Goal(t)

(* "We cannot move outside the current partition" (windevblk.c:370): a     *)
(* seek beyond an end moves to that end, and any other where it was told.  *)
SeekNearest == \A t \in Threads :
  pc[t] = "seekMove" /\ Tame => lPos[t] = Clamp(Goal(t))

(* A read before the end of the partition that succeeds returns something. *)
NoEmptyRead == [][\A t \in Threads :
  ReadFile(t) /\ pc'[t] = "idle" /\ ret'[t] = 0 /\ Tame
    => req[t] = 0 \/ curAbs = EndingOffset]_vars

(* The caller of ReaderSpec sees the whole partition in the end.           *)
ReachesEnd == <>(curAbs = EndingOffset)
=============================================================================

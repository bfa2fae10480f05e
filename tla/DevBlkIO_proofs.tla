--------------------------- MODULE DevBlkIO_proofs ---------------------------
(* Proofs about DevBlkIO, for every drive, partition, sector size, integer *)
(* width, set of threads and set of arguments that IOAssumption allows.    *)
EXTENDS MCDevBlkIO, TLAPS

(* The bounds of an n-bit unsigned remainder, whatever the modulus.        *)
LEMMA ModBounds ==
  ASSUME NEW x \in Int, NEW m \in Nat \ {0}
  PROVE  x % m \in 0 .. m - 1
OBVIOUS

LEMMA ModSmall ==
  ASSUME NEW x \in Nat, NEW m \in Nat \ {0}, x < m
  PROVE  x % m = x
OBVIOUS

LEMMA ModAtMost ==
  ASSUME NEW x \in Nat, NEW m \in Nat \ {0}
  PROVE  x % m <= x
<1>1. CASE x < m
  BY <1>1, ModSmall
<1>2. CASE x >= m
  BY <1>2, ModBounds
<1> QED BY <1>1, <1>2

LEMMA DivMod ==
  ASSUME NEW x \in Int, NEW m \in Nat \ {0}
  PROVE  /\ x \div m \in Int
         /\ x = (m * (x \div m)) + (x % m)
         /\ x >= 0 => x \div m >= 0
OBVIOUS

LEMMA Product ==
  ASSUME NEW m \in Nat, NEW a \in Nat, NEW b \in Int
  PROVE  /\ m * a \in Nat
         /\ m * b \in Int
         /\ m * (a + 1) = (m * a) + m
         /\ m * (a - b) = (m * a) - (m * b)
OBVIOUS

LEMMA MultipleMod ==
  ASSUME NEW m \in Nat \ {0}, NEW r \in Int
  PROVE  (m * r) % m = 0
OBVIOUS

(* The distance of two multiples of a sector is one.                       *)
LEMMA MultipleDistance ==
  ASSUME NEW m \in Nat \ {0}, NEW x \in Nat, NEW y \in Nat,
         x % m = 0, y % m = 0
  PROVE  \E r \in Int : x - y = m * r
<1> DEFINE a == x \div m
           b == y \div m
<1>1. a \in Nat /\ b \in Int /\ x = m * a /\ y = m * b
  BY DivMod
<1>2. x - y = m * (a - b) /\ a - b \in Int
  BY <1>1, Product
<1> QED BY <1>2

----------------------------------------------------------------------------
(* The operators of DevBlkIO.                                              *)

LEMMA Widths ==
  /\ DwordMod \in Nat \ {0} /\ SectorSize \in Nat \ {0}
  /\ StartingOffset \in Nat /\ EndingOffset \in Nat /\ DiskSize \in Nat
  /\ StartingOffset <= EndingOffset
BY IOAssumption DEF IOAssumption, DwordMod

LEMMA TargetInside ==
  ASSUME NEW m \in Methods, NEW d \in Int, NEW cur \in Int
  PROVE  SeekTarget(m, d, cur) \in Partition
<1>1. \A x \in Int : Clamp(x) \in Partition
  BY Widths DEF Clamp, Partition
<1>2. \A x \in Int : Quad(x) \in Int
  BY IOAssumption DEF IOAssumption, Quad
<1>3. m # "other" => Origin(cur)[m] \in Int
  BY Widths DEF Methods, Origin
<1> QED BY <1>1, <1>2, <1>3, Widths DEF SeekTarget

LEMMA CutRange ==
  ASSUME NEW n \in 0 .. DwordMod - 1, NEW abs \in Int
  PROVE  Cut(n, abs) \in 0 .. DwordMod - 1
BY Widths, ModBounds DEF Cut, Dword

(* What DevBlkRead asks for is a DWORD.                                    *)
LEMMA PlanRange ==
  ASSUME NEW n \in 0 .. DwordMod - 1, NEW abs \in Int
  PROVE  BytesToRead(n, abs) \in 0 .. DwordMod - 1
<1>1. Cut(n, abs) \in 0 .. DwordMod - 1
  BY CutRange
<1>2. \A c \in Int : WholeSectors(c) \in 0 .. DwordMod - 1
  BY Widths, ModBounds, DivMod DEF WholeSectors, Dword
<1> QED BY <1>1, <1>2 DEF BytesToRead

(* Seen from a position in the partition, it is within the buffer when the *)
(* count is whole sectors, exceeds it by at most a sector otherwise, and   *)
(* ends in the partition, unless the rounding passes the end.              *)
LEMMA PlanFits ==
  ASSUME NEW n \in 0 .. DwordMod - 1, NEW abs \in Partition,
         ~RoundsPastEnd(n, abs)
  PROVE  /\ Aligned(n) => BytesToRead(n, abs) <= n
         /\ BytesToRead(n, abs) <= n + SectorSize
         /\ Aligned(abs) => abs + BytesToRead(n, abs) <= EndingOffset
<1> DEFINE rest == EndingOffset - abs
<1>1. abs \in Int /\ rest \in Nat /\ n \in Nat
  BY Widths DEF Partition
<1>2. n > rest => Cut(n, abs) = rest
  <2>1. n > rest => rest % DwordMod = rest
    BY <1>1, Widths, ModSmall
  <2> QED BY <2>1 DEF Cut, Dword
<1>3. ~(n > rest) => Cut(n, abs) = n
  BY DEF Cut
<1>4. CASE Aligned(n) \/ abs = EndingOffset
  <2>1. Cut(n, abs) <= n /\ Cut(n, abs) <= rest
    BY <1>1, <1>2, <1>3
  <2>2. BytesToRead(n, abs) = Cut(n, abs)
    <3>1. abs = EndingOffset => Cut(n, abs) = 0
      BY <1>1, <1>2, <1>3, Widths
    <3> QED BY <1>4, <3>1 DEF BytesToRead
  <2>3. Cut(n, abs) \in Nat
    BY CutRange, <1>1
  <2> QED BY <1>1, <2>1, <2>2, <2>3, Widths
<1>5. CASE ~Aligned(n) /\ abs # EndingOffset
  <2> DEFINE q == n \div SectorSize
             w == SectorSize * (q + 1)
  <2>1. n <= rest
    BY <1>1, <1>5 DEF RoundsPastEnd
  <2>2. /\ q \in Nat /\ w \in Nat
        /\ SectorSize * q <= n
    <3>1. q \in Nat /\ n = (SectorSize * q) + (n % SectorSize)
      BY <1>1, Widths, DivMod
    <3>2. SectorSize * q \in Nat /\ w = (SectorSize * q) + SectorSize
      BY <3>1, Product, Widths
    <3> QED BY <1>1, <3>1, <3>2, ModBounds, Widths
  <2>3. BytesToRead(n, abs) <= w
    <3>1. WholeSectors(n) <= w
      BY <2>2, Widths, ModAtMost DEF WholeSectors, Dword
    <3>2. BytesToRead(n, abs) \in {WholeSectors(n), n}
      BY <1>1, <1>3, <2>1 DEF BytesToRead
    <3>3. n <= w
      BY <1>1, <2>2, Widths, DivMod, ModBounds
    <3> QED BY <3>1, <3>2, <3>3
  <2>4. w <= n + SectorSize
    BY <1>1, <2>2, Widths
  <2>5. Aligned(abs) => w <= rest
    <3> SUFFICES ASSUME Aligned(abs) PROVE w <= rest
      OBVIOUS
    <3>1. PICK r \in Int : rest = SectorSize * r
      <4>1. /\ EndingOffset % SectorSize = 0 /\ abs % SectorSize = 0
            /\ abs \in Nat
        BY Widths, IOAssumption DEF IOAssumption, Aligned, Partition
      <4>2. \E r \in Int : EndingOffset - abs = SectorSize * r
        BY <4>1, MultipleDistance, Widths
      <4> QED BY <4>2
    <3>2. n # rest
      <4>1. rest % SectorSize = 0
        BY <3>1, Widths, MultipleMod
      <4> QED BY <1>5, <4>1 DEF Aligned
    <3>3. SectorSize * q < SectorSize * r
      BY <1>1, <2>1, <2>2, <3>1, <3>2, Widths
    <3>4. q + 1 <= r
      BY <2>2, <3>1, <3>3, Widths
    <3> QED BY <2>2, <3>1, <3>4, Widths
  <2>6. BytesToRead(n, abs) \in Nat
    BY <1>1, PlanRange
  <2> QED BY <1>1, <1>5, <2>2, <2>3, <2>4, <2>5, <2>6, Widths
<1> QED BY <1>4, <1>5

(* The move back undoes the excess exactly: the excess fits a LONG.        *)
LEMMA MoveBackExact ==
  ASSUME NEW n \in Nat, NEW k \in Nat, k <= n + SectorSize
  PROVE  /\ k + MoveBack(n, k) = Reported(n, k)
         /\ Reported(n, k) \in 0 .. k
         /\ MoveBack(n, k) \in Int
<1>1. CASE k > n
  <2>1. n - k + LongHalf \in Nat /\ n - k + LongHalf < DwordMod
    BY <1>1, Widths, IOAssumption DEF IOAssumption, DwordMod
  <2>2. (n - k + LongHalf) % DwordMod = n - k + LongHalf
    BY <2>1, Widths, ModSmall
  <2>3. Long(n - k) = n - k
    BY <2>2, IOAssumption DEF IOAssumption, Long
  <2> QED BY <1>1, <2>3 DEF MoveBack, Reported
<1>2. CASE ~(k > n)
  BY <1>2 DEF MoveBack, Reported
<1> QED BY <1>1, <1>2

LEMMA MoveBackType ==
  ASSUME NEW n \in Nat, NEW k \in Nat
  PROVE  MoveBack(n, k) \in Int /\ Reported(n, k) \in 0 .. k
BY IOAssumption, Widths, ModBounds DEF IOAssumption, MoveBack, Reported, Long

LEMMA TransferredRange ==
  ASSUME NEW at \in Nat, NEW n \in Nat
  PROVE  Transferred(at, n) \in 0 .. n
BY Widths DEF Transferred

----------------------------------------------------------------------------
(* Type correctness.                                                       *)

LEMMA ReturnTypes ==
  ASSUME TypeOK, NEW t \in Threads, NEW v \in Int, Return(t, v)
  PROVE  /\ pc' \in [Threads -> Labels] /\ ret' \in [Threads -> Int]
         /\ req' \in [Threads -> Nat] /\ lPos' \in [Threads -> Nat]
         /\ ovl' \in [Threads -> Overlaps \cup {NoOffset}]
         /\ narrow' \in [Threads -> BOOLEAN]
         /\ asked' \in [Threads -> [method : Methods, by : Int]]
         /\ want' \in [Threads -> 0 .. DwordMod - 1]
         /\ got' \in [Threads -> 0 .. DwordMod - 1]
BY Widths DEF TypeOK, Return, Labels, NoSeek, Methods

LEMMA SeekBeginTypes ==
  ASSUME TypeOK, NEW t \in Threads, NEW m \in Methods, NEW d \in Int,
         NEW low \in BOOLEAN, SeekBegin(t, m, d, low)
  PROVE  TypeOK'
<1>1. SeekTarget(m, d, filePos) \in Nat
  BY TargetInside, Widths DEF TypeOK, Partition
<1>2. escapes' \subseteq EscapeKinds
  BY DEF TypeOK, SeekBegin, Interleaving, EscapeKinds
<1>3. lPos' \in [Threads -> Nat] /\ pc' \in [Threads -> Labels]
  BY <1>1 DEF TypeOK, SeekBegin, Goto, Labels
<1> QED BY <1>2, <1>3 DEF TypeOK, SeekBegin, shared

LEMMA JoinedInt ==
  ASSUME NEW high \in Int, NEW low \in Int
  PROVE  Joined(high, low) \in Int
BY Widths, ModBounds DEF Joined, Dword

LEMMA Arguments ==
  /\ Distances \subseteq Int /\ Longs \subseteq Int
  /\ ReadSizes \subseteq 0 .. DwordMod - 1 /\ ReadSizes \subseteq Nat
  /\ LongHalf \in Nat /\ -LongHalf .. LongHalf - 1 \subseteq Int
  /\ Overlaps \subseteq Nat
<1>1. Distances \subseteq Int
  BY IOAssumption DEF IOAssumption
<1>2. LongHalf \in Nat /\ Longs \subseteq Int
  BY IOAssumption DEF IOAssumption
<1>3. ReadSizes \subseteq 0 .. DwordMod - 1 /\ ReadSizes \subseteq Nat
  BY IOAssumption DEF IOAssumption, DwordMod
<1>4. Overlaps \subseteq Nat
  BY IOAssumption, Widths DEF IOAssumption
<1>5. -LongHalf .. LongHalf - 1 \subseteq Int
  BY <1>2
<1> QED BY <1>1, <1>2, <1>3, <1>4, <1>5

LEMMA ReadsAtNat ==
  ASSUME TypeOK, NEW t \in Threads
  PROVE  ReadsAt(t) \in Nat
<1>2. ovl[t] \in Overlaps \/ ovl[t] = NoOffset
  BY DEF TypeOK
<1>3. filePos \in Nat
  BY DEF TypeOK
<1> QED BY <1>2, <1>3, Arguments DEF ReadsAt

LEMMA TypeStep == TypeOK /\ [Next]_vars => TypeOK'
<1> SUFFICES ASSUME TypeOK, [Next]_vars PROVE TypeOK'
  OBVIOUS
<1>1. CASE UNCHANGED vars
  BY <1>1 DEF TypeOK, vars
<1> SUFFICES ASSUME Next PROVE TypeOK'
  BY <1>1
<1> PICK t \in Threads :
     \/ \E m \in Methods, d \in Distances : SetPointerEx(t, m, d)
     \/ \E m \in Methods, low, high \in Longs : SetPointer(t, m, low, high)
     \/ \E m \in Methods, low \in Longs : SetPointerNoHigh(t, m, low)
     \/ \E n \in ReadSizes, o \in Overlaps \cup {NoOffset} : ReadBegin(t, n, o)
     \/ \E low \in BOOLEAN : (low => Longs # {}) /\ SeekQueryFails(t, low)
     \/ SeekStep(t)
     \/ ReadStep(t)
     \/ GetFileSizeEx(t)
     \/ Write(t)
  BY DEF Next
<1>2. ASSUME NEW m \in Methods, NEW d \in Distances, SetPointerEx(t, m, d)
      PROVE  TypeOK'
  <2>1. d \in Int
    BY Arguments
  <2> QED BY <1>2, <2>1, SeekBeginTypes DEF SetPointerEx
<1>3. ASSUME NEW m \in Methods, NEW low \in Longs, NEW high \in Longs,
             SetPointer(t, m, low, high)
      PROVE  TypeOK'
  <2>1. Joined(high, low) \in Int
    BY JoinedInt, Arguments
  <2> QED BY <1>3, <2>1, SeekBeginTypes DEF SetPointer
<1>4. ASSUME NEW m \in Methods, NEW low \in Longs, SetPointerNoHigh(t, m, low)
      PROVE  TypeOK'
  <2>1. PICK high \in Int : SeekBegin(t, m, Joined(high, low), TRUE)
    BY <1>4, Arguments DEF SetPointerNoHigh
  <2>2. Joined(high, low) \in Int
    BY JoinedInt, Arguments
  <2> QED BY <2>1, <2>2, SeekBeginTypes
<1>5. ASSUME NEW low \in BOOLEAN, SeekQueryFails(t, low)
      PROVE  TypeOK'
  <2>1. PICK v \in Int : Return(t, v)
    BY <1>5, Widths DEF SeekQueryFails, SeekFails, Failed
  <2> QED BY <1>5, <2>1, ReturnTypes
          DEF SeekQueryFails, TypeOK, shared, Interleaving, EscapeKinds
<1>6. ASSUME NEW n \in ReadSizes, NEW o \in Overlaps \cup {NoOffset},
             ReadBegin(t, n, o)
      PROVE  TypeOK'
  <2>1. n \in 0 .. DwordMod - 1 /\ n \in Nat
    BY Arguments
  <2>2. BytesToRead(n, curAbs) \in 0 .. DwordMod - 1
    <3>1. curAbs \in Int
      BY DEF TypeOK
    <3> QED BY <2>1, <3>1, PlanRange
  <2>3. escapes' \subseteq EscapeKinds
    BY <1>6 DEF ReadBegin, TypeOK, Interleaving, EscapeKinds
  <2>4. CASE Return(t, Failed)
    BY <1>6, <2>3, <2>4, ReturnTypes DEF ReadBegin, TypeOK, shared, Failed
  <2>5. CASE /\ Goto(t, "readFile")
             /\ req' = [req EXCEPT ![t] = n]
             /\ ovl' = [ovl EXCEPT ![t] = o]
             /\ want' = [want EXCEPT ![t] = BytesToRead(n, curAbs)]
             /\ UNCHANGED <<narrow, asked, lPos, got, ret>>
    <3>1. want' \in [Threads -> 0 .. DwordMod - 1] /\ req' \in [Threads -> Nat]
      BY <2>1, <2>2, <2>5 DEF TypeOK
    <3>2. pc' \in [Threads -> Labels]
      BY <2>5 DEF TypeOK, Goto, Labels
    <3>3. ovl' \in [Threads -> Overlaps \cup {NoOffset}]
      BY <2>5 DEF TypeOK
    <3> QED BY <1>6, <2>3, <2>5, <3>1, <3>2, <3>3 DEF ReadBegin, TypeOK, shared
  <2> QED BY <1>6, <2>4, <2>5 DEF ReadBegin
<1>7. ASSUME SeekStep(t) PROVE TypeOK'
  <2>1. CASE SeekMove(t)
    <3>1. CASE SeekFails(t, narrow[t]) /\ UNCHANGED filePos
      <4>1. PICK v \in Int : Return(t, v)
        BY <3>1, Widths DEF SeekFails, Failed
      <4> QED BY <2>1, <3>1, <4>1, ReturnTypes DEF SeekMove, TypeOK
    <3>2. CASE filePos' = lPos[t] /\ Goto(t, "seekAbs") /\ UNCHANGED <<locals, ret>>
      BY <2>1, <3>2 DEF SeekMove, TypeOK, Goto, Labels, locals
    <3> QED BY <2>1, <3>1, <3>2 DEF SeekMove
  <2>2. CASE SeekStoreAbs(t)
    BY <2>2 DEF SeekStoreAbs, TypeOK, Goto, Labels, locals
  <2>3. CASE SeekStoreRel(t)
    BY <2>3, Widths DEF SeekStoreRel, TypeOK, Goto, Labels, locals
  <2>4. CASE SeekReturn(t)
    <3>1. PICK v \in Int : Return(t, v)
      <4>1. curRel \in Int /\ Dword(curRel) \in Int
        BY Widths, ModBounds DEF TypeOK, Dword
      <4> QED BY <2>4, <4>1 DEF SeekReturn
    <3> QED BY <2>4, <3>1, ReturnTypes DEF SeekReturn, TypeOK, shared
  <2> QED BY <1>7, <2>1, <2>2, <2>3, <2>4 DEF SeekStep
<1>8. ASSUME ReadStep(t) PROVE TypeOK'
  <2>1. CASE ReadFile(t)
    <3> DEFINE at == ReadsAt(t)
               k  == Transferred(at, want[t])
    <3>1. want[t] \in Nat /\ want[t] \in 0 .. DwordMod - 1
      BY Widths DEF TypeOK
    <3>2. at \in Nat /\ k \in 0 .. want[t]
      BY <3>1, ReadsAtNat, TransferredRange
    <3>3. k \in 0 .. DwordMod - 1 /\ at + k \in Nat
      BY <3>1, <3>2, Widths
    <3> HIDE DEF at, k
    <3>4. CASE \E v \in Int : Return(t, v)
      <4>1. filePos' \in Nat
        BY <2>1, <3>3 DEF ReadFile, TypeOK, at, k
      <4> QED BY <2>1, <3>4, <4>1, ReturnTypes DEF ReadFile, TypeOK
    <3>5. CASE /\ Goto(t, "readSync") /\ filePos' = at + k
               /\ got' = [got EXCEPT ![t] = k]
               /\ UNCHANGED <<req, ovl, narrow, asked, lPos, want, ret>>
      <4>1. got' \in [Threads -> 0 .. DwordMod - 1] /\ filePos' \in Nat
        BY <3>3, <3>5 DEF TypeOK
      <4> QED BY <2>1, <3>5, <4>1 DEF ReadFile, TypeOK, Goto, Labels
    <3> QED BY <2>1, <3>4, <3>5 DEF ReadFile, Failed, at, k
  <2>2. CASE ReadSync(t)
    <3> DEFINE to == filePos + MoveBack(req[t], got[t])
    <3>1. req[t] \in Nat /\ got[t] \in 0 .. DwordMod - 1 /\ got[t] \in Nat
      BY Widths DEF TypeOK
    <3>2. to \in Int /\ Reported(req[t], got[t]) \in 0 .. DwordMod - 1
      <4>1. /\ MoveBack(req[t], got[t]) \in Int
            /\ Reported(req[t], got[t]) \in 0 .. got[t]
        BY <3>1, MoveBackType
      <4> QED BY <3>1, <4>1, Widths DEF TypeOK
    <3> HIDE DEF to
    <3>3. CASE /\ Return(t, Failed) /\ escapes' = escapes \cup {"resync"}
               /\ UNCHANGED filePos
      <4>1. escapes' \subseteq EscapeKinds
        BY <3>3 DEF TypeOK, EscapeKinds
      <4> QED BY <2>2, <3>3, <4>1, ReturnTypes DEF ReadSync, TypeOK, Failed
    <3>4. CASE /\ to >= 0 /\ filePos' = to
               /\ lPos' = [lPos EXCEPT ![t] = to]
               /\ got' = [got EXCEPT ![t] = Reported(req[t], got[t])]
               /\ Goto(t, "readAbs")
               /\ UNCHANGED <<req, ovl, narrow, asked, want, ret, escapes>>
      <4>1. filePos' \in Nat /\ lPos' \in [Threads -> Nat]
        BY <3>2, <3>4 DEF TypeOK
      <4>2. got' \in [Threads -> 0 .. DwordMod - 1]
        BY <3>2, <3>4 DEF TypeOK
      <4> QED BY <2>2, <3>4, <4>1, <4>2 DEF ReadSync, TypeOK, Goto, Labels
    <3> QED BY <2>2, <3>3, <3>4 DEF ReadSync, to
  <2>3. CASE ReadStoreAbs(t)
    BY <2>3 DEF ReadStoreAbs, TypeOK, Goto, Labels, locals
  <2>4. CASE ReadStoreRel(t)
    <3>1. got[t] \in Int /\ lPos[t] - StartingOffset \in Int
      BY Widths DEF TypeOK
    <3> QED BY <2>4, <3>1, ReturnTypes DEF ReadStoreRel, TypeOK
  <2> QED BY <1>8, <2>1, <2>2, <2>3, <2>4 DEF ReadStep
<1>9. ASSUME GetFileSizeEx(t) PROVE TypeOK'
  BY <1>9, ReturnTypes, Widths DEF GetFileSizeEx, TypeOK, shared
<1>10. ASSUME Write(t) PROVE TypeOK'
  BY <1>10, ReturnTypes DEF Write, TypeOK, shared, Failed
<1> QED BY <1>2, <1>3, <1>4, <1>5, <1>6, <1>7, <1>8, <1>9, <1>10

(* Every variable keeps its type: in particular the positions never become *)
(* negative and a request is always a DWORD (windevblk.c:330-495).         *)
THEOREM TypeCorrect == Spec => []TypeOK
<1>1. Init => TypeOK
  BY Widths, IOAssumption DEF Init, TypeOK, Labels, IOAssumption, DwordMod, NoSeek, Methods
<1>2. TypeOK /\ [Next]_vars => TypeOK'
  BY TypeStep
<1> QED BY <1>1, <1>2, PTL DEF Spec

----------------------------------------------------------------------------
(* Confinement.  Steady relates the copies of the position at each label;  *)
(* a call that runs alone leads from one of these relations to the next.   *)

(* Only one thread is in a call before and after the step.                 *)
LEMMA SoloStep ==
  ASSUME NEW t \in Threads,
         \A u \in Threads \ {t} : pc'[u] = "idle",
         filePos' \in Partition, curAbs' \in Partition,
         curRel' \in 0 .. EndingOffset - StartingOffset,
         pc'[t] = "idle" => Agree', CallInv(t)'
  PROVE  Steady'
<1>1. Alone'
  BY DEF Alone
<1>2. (\A u \in Threads : pc[u] = "idle")' => Agree'
  OBVIOUS
<1>3. \A u \in Threads : CallInv(u)'
  BY DEF CallInv
<1> QED BY <1>1, <1>2, <1>3 DEF Steady

LEMMA OthersIdle ==
  ASSUME Steady, NEW t \in Threads, pc[t] # "idle"
  PROVE  \A u \in Threads \ {t} : pc[u] = "idle"
BY DEF Steady, Alone

(* A call may begin only while no other is under way, if it is to be tame. *)
LEMMA BeginsAlone ==
  ASSUME Steady, NEW t \in Threads, pc[t] = "idle", Interleaving(t) = {}
  PROVE  (\A u \in Threads : pc[u] = "idle") /\ Agree
BY DEF Steady, Interleaving

(* A call that returns without having moved anything.                      *)
LEMMA ReturnSteady ==
  ASSUME TypeOK, Steady, NEW t \in Threads, NEW v, Return(t, v), Agree,
         \A u \in Threads \ {t} : pc[u] = "idle",
         UNCHANGED shared
  PROVE  Steady'
<1>1. pc'[t] = "idle" /\ \A u \in Threads \ {t} : pc'[u] = "idle"
  BY DEF Return, TypeOK
<1>2. CallInv(t)'
  BY <1>1 DEF CallInv
<1>3. Agree' /\ filePos' \in Partition /\ curAbs' \in Partition
  BY DEF Agree, shared, Steady
<1>4. curRel' \in 0 .. EndingOffset - StartingOffset
  BY DEF Steady, shared
<1> QED BY <1>1, <1>2, <1>3, <1>4, SoloStep

LEMMA SeekBeginSteady ==
  ASSUME TypeOK, Steady, NEW t \in Threads, NEW m \in Methods, NEW d \in Int,
         NEW low, SeekBegin(t, m, d, low), Interleaving(t) = {}
  PROVE  Steady'
<1>1. pc[t] = "idle" /\ (\A u \in Threads : pc[u] = "idle") /\ Agree
  BY BeginsAlone DEF SeekBegin
<1>2. pc'[t] = "seekMove" /\ \A u \in Threads \ {t} : pc'[u] = "idle"
  BY <1>1 DEF SeekBegin, Goto, TypeOK
<1>3. lPos'[t] \in Partition
  <2>1. SeekTarget(m, d, filePos) \in Partition
    BY TargetInside DEF TypeOK
  <2> QED BY <2>1 DEF SeekBegin, TypeOK
<1>4. Agree'
  BY <1>1 DEF SeekBegin, shared, Agree
<1>5. CallInv(t)'
  BY <1>2, <1>3, <1>4 DEF CallInv
<1>6. /\ filePos' \in Partition /\ curAbs' \in Partition
      /\ curRel' \in 0 .. EndingOffset - StartingOffset
  BY DEF Steady, SeekBegin, shared
<1> QED BY <1>2, <1>5, <1>6, SoloStep

LEMMA SeekStepSteady ==
  ASSUME TypeOK, Steady, NEW t \in Threads, SeekStep(t)
  PROVE  Steady'
<1>1. pc[t] # "idle" /\ pc[t] \in Labels
  BY DEF SeekStep, SeekMove, SeekStoreAbs, SeekStoreRel, SeekReturn, TypeOK
<1>2. \A u \in Threads \ {t} : pc[u] = "idle"
  BY <1>1, OthersIdle
<1>3. CallInv(t) /\ filePos \in Partition /\ curAbs \in Partition
      /\ curRel \in 0 .. EndingOffset - StartingOffset
  BY DEF Steady
<1>4. CASE SeekMove(t)
  <2>1. CASE SeekFails(t, narrow[t]) /\ UNCHANGED filePos
    <3>1. Agree
      BY <1>3, <1>4 DEF SeekMove, CallInv
    <3> QED BY <1>2, <1>4, <2>1, <3>1, ReturnSteady DEF SeekMove, SeekFails, shared
  <2>2. CASE filePos' = lPos[t] /\ Goto(t, "seekAbs") /\ UNCHANGED <<locals, ret>>
    <3>1. pc'[t] = "seekAbs" /\ \A u \in Threads \ {t} : pc'[u] = "idle"
      BY <1>2, <2>2 DEF Goto, TypeOK
    <3>2. lPos[t] \in Partition /\ lPos' = lPos
      BY <1>3, <1>4, <2>2 DEF SeekMove, CallInv, locals
    <3>3. CallInv(t)'
      BY <2>2, <3>1, <3>2 DEF CallInv
    <3> QED BY <1>3, <1>4, <2>2, <3>1, <3>2, <3>3, SoloStep DEF SeekMove
  <2> QED BY <1>4, <2>1, <2>2 DEF SeekMove
<1>5. CASE SeekStoreAbs(t)
  <2>1. pc'[t] = "seekRel" /\ \A u \in Threads \ {t} : pc'[u] = "idle"
    BY <1>2, <1>5 DEF SeekStoreAbs, Goto, TypeOK
  <2>2. lPos[t] \in Partition /\ filePos = lPos[t] /\ lPos' = lPos /\ curAbs' = lPos[t]
    BY <1>3, <1>5 DEF SeekStoreAbs, CallInv, locals
  <2>3. CallInv(t)'
    BY <1>5, <2>1, <2>2 DEF CallInv, SeekStoreAbs
  <2> QED BY <1>3, <1>5, <2>1, <2>2, <2>3, SoloStep DEF SeekStoreAbs
<1>6. CASE SeekStoreRel(t)
  <2>1. pc'[t] = "seekReturn" /\ \A u \in Threads \ {t} : pc'[u] = "idle"
    BY <1>2, <1>6 DEF SeekStoreRel, Goto, TypeOK
  <2>2. /\ lPos[t] \in Partition /\ filePos = lPos[t] /\ curAbs = lPos[t]
        /\ curRel' = lPos[t] - StartingOffset
    BY <1>3, <1>6 DEF SeekStoreRel, CallInv
  <2>3. Agree' /\ curRel' \in 0 .. EndingOffset - StartingOffset
    BY <1>6, <2>2, Widths DEF Agree, SeekStoreRel, Partition
  <2>4. CallInv(t)'
    BY <2>1, <2>3 DEF CallInv
  <2> QED BY <1>3, <1>6, <2>1, <2>3, <2>4, SoloStep DEF SeekStoreRel
<1>7. CASE SeekReturn(t)
  <2>1. Agree
    BY <1>3, <1>7 DEF SeekReturn, CallInv
  <2> QED BY <1>2, <1>7, <2>1, ReturnSteady DEF SeekReturn
<1> QED BY <1>4, <1>5, <1>6, <1>7 DEF SeekStep

LEMMA ReadBeginSteady ==
  ASSUME TypeOK, Steady, NEW t \in Threads, NEW n \in ReadSizes,
         ReadBegin(t, n, NoOffset), Interleaving(t) = {}, ~RoundsPastEnd(n, curAbs)
  PROVE  Steady'
<1>1. pc[t] = "idle" /\ (\A u \in Threads : pc[u] = "idle") /\ Agree
  BY BeginsAlone DEF ReadBegin
<1>2. CASE Return(t, Failed)
  BY <1>1, <1>2, ReturnSteady DEF ReadBegin
<1>3. CASE /\ Goto(t, "readFile")
           /\ req' = [req EXCEPT ![t] = n]
           /\ ovl' = [ovl EXCEPT ![t] = NoOffset]
           /\ want' = [want EXCEPT ![t] = BytesToRead(n, curAbs)]
           /\ UNCHANGED <<narrow, asked, lPos, got, ret>>
  <2>1. pc'[t] = "readFile" /\ \A u \in Threads \ {t} : pc'[u] = "idle"
    BY <1>1, <1>3 DEF Goto, TypeOK
  <2>2. req'[t] = n /\ ovl'[t] = NoOffset /\ want'[t] = BytesToRead(n, curAbs)
    BY <1>3 DEF TypeOK
  <2>3. /\ filePos' = curAbs /\ curAbs' = curAbs /\ Agree'
        /\ filePos' \in Partition /\ curAbs \in Partition
        /\ curRel' \in 0 .. EndingOffset - StartingOffset
    BY <1>1 DEF ReadBegin, shared, Agree, Steady
  <2>4. /\ Aligned(n) => BytesToRead(n, curAbs) <= n
        /\ BytesToRead(n, curAbs) <= n + SectorSize
        /\ Aligned(curAbs) => curAbs + BytesToRead(n, curAbs) <= EndingOffset
    BY <2>3, Arguments, PlanFits
  <2>5. CallInv(t)'
    BY <2>1, <2>2, <2>3, <2>4 DEF CallInv, Aligned
  <2> QED BY <2>1, <2>3, <2>5, SoloStep
<1> QED BY <1>2, <1>3 DEF ReadBegin

LEMMA ReadFileSteady ==
  ASSUME TypeOK, Steady, NEW t \in Threads, ReadFile(t)
  PROVE  Steady'
<1>1. pc[t] = "readFile"
  BY DEF ReadFile
<1>2. \A u \in Threads \ {t} : pc[u] = "idle"
  BY <1>1, OthersIdle
<1>3. /\ filePos \in Partition /\ curAbs \in Partition /\ Agree
      /\ curRel \in 0 .. EndingOffset - StartingOffset
      /\ ReadsAt(t) = filePos
      /\ Aligned(filePos) => filePos + want[t] <= EndingOffset
      /\ want[t] <= req[t] + SectorSize
  BY <1>1 DEF Steady, CallInv, ReadsAt
<1>4. want[t] \in Nat /\ filePos \in Nat /\ req[t] \in Nat
  BY Widths DEF TypeOK
<1> DEFINE k == Transferred(filePos, want[t])
<1>5. k \in 0 .. want[t] /\ k \in Nat
  <2>1. k \in 0 .. want[t]
    BY <1>4, TransferredRange
  <2> QED BY <1>4, <2>1
<1> HIDE DEF k
<1>6. CASE UNCHANGED filePos /\ \E v : Return(t, v)
  BY <1>2, <1>3, <1>6, ReturnSteady DEF ReadFile, shared
<1>7. CASE want[t] = 0 /\ filePos' = filePos + k /\ Return(t, 0)
  <2>1. filePos' = filePos
    BY <1>4, <1>5, <1>7
  <2> QED BY <1>2, <1>3, <1>7, <2>1, ReturnSteady DEF ReadFile, shared
<1>8. CASE /\ want[t] > 0 /\ DiskReads(filePos, want[t])
           /\ filePos' = filePos + k
           /\ Goto(t, "readSync")
           /\ got' = [got EXCEPT ![t] = k]
           /\ UNCHANGED <<req, ovl, narrow, asked, lPos, want, ret>>
  <2>1. pc'[t] = "readSync" /\ \A u \in Threads \ {t} : pc'[u] = "idle"
    BY <1>2, <1>8 DEF Goto, TypeOK
  <2>2. got'[t] = k /\ req'[t] = req[t]
    BY <1>8 DEF TypeOK
  <2>3. Aligned(filePos)
    BY <1>4, <1>8 DEF DiskReads
  <2>4. filePos' <= EndingOffset /\ filePos' \in Partition /\ k <= req[t] + SectorSize
    BY <1>3, <1>4, <1>5, <1>8, <2>3, Widths DEF Partition
  <2>5. curAbs' = curAbs /\ curRel' = curRel /\ filePos' = curAbs + k
        /\ curRel = curAbs - StartingOffset
    BY <1>3, <1>8 DEF ReadFile, Agree
  <2>6. CallInv(t)'
    BY <2>1, <2>2, <2>4, <2>5 DEF CallInv
  <2> QED BY <1>3, <2>1, <2>4, <2>5, <2>6, SoloStep
<1> QED BY <1>3, <1>4, <1>6, <1>7, <1>8 DEF ReadFile, k

(* After the move back the position is past exactly what is reported.      *)
LEMMA ReadSyncSteady ==
  ASSUME TypeOK, Steady, NEW t \in Threads, ReadSync(t), Tame'
  PROVE  Steady'
<1>1. pc[t] = "readSync"
  BY DEF ReadSync
<1>2. \A u \in Threads \ {t} : pc[u] = "idle"
  BY <1>1, OthersIdle
<1>3. /\ filePos \in Partition /\ curAbs \in Partition
      /\ curRel \in 0 .. EndingOffset - StartingOffset
      /\ got[t] <= req[t] + SectorSize
      /\ filePos = curAbs + got[t]
  BY <1>1 DEF Steady, CallInv
<1> DEFINE to == filePos + MoveBack(req[t], got[t])
<1>4. got[t] \in Nat /\ req[t] \in Nat
  BY Widths DEF TypeOK
<1>5. to \in Partition
  <2>1. /\ got[t] + MoveBack(req[t], got[t]) \in 0 .. got[t]
        /\ MoveBack(req[t], got[t]) \in Int
    BY <1>3, <1>4, MoveBackExact
  <2> QED BY <1>3, <1>4, <2>1, Widths DEF Partition
<1> HIDE DEF to
<1>6. /\ filePos' = to
      /\ lPos' = [lPos EXCEPT ![t] = to]
      /\ Goto(t, "readAbs")
  BY DEF ReadSync, Tame, to
<1>7. pc'[t] = "readAbs" /\ lPos'[t] = to /\ \A u \in Threads \ {t} : pc'[u] = "idle"
  BY <1>2, <1>6 DEF Goto, TypeOK
<1>8. CallInv(t)'
  BY <1>5, <1>6, <1>7 DEF CallInv
<1>9. UNCHANGED <<curAbs, curRel>>
  BY DEF ReadSync
<1> QED BY <1>3, <1>5, <1>6, <1>7, <1>8, <1>9, SoloStep

LEMMA ReadStoresSteady ==
  ASSUME TypeOK, Steady, NEW t \in Threads, ReadStoreAbs(t) \/ ReadStoreRel(t)
  PROVE  Steady'
<1>1. pc[t] # "idle"
  BY DEF ReadStoreAbs, ReadStoreRel
<1>2. \A u \in Threads \ {t} : pc[u] = "idle"
  BY <1>1, OthersIdle
<1>3. /\ CallInv(t) /\ filePos \in Partition /\ curAbs \in Partition
      /\ curRel \in 0 .. EndingOffset - StartingOffset
  BY DEF Steady
<1>4. CASE ReadStoreAbs(t)
  <2>1. pc'[t] = "readRel" /\ \A u \in Threads \ {t} : pc'[u] = "idle"
    BY <1>2, <1>4 DEF ReadStoreAbs, Goto, TypeOK
  <2>2. lPos[t] \in Partition /\ filePos = lPos[t] /\ lPos' = lPos /\ curAbs' = lPos[t]
    BY <1>3, <1>4 DEF ReadStoreAbs, CallInv, locals
  <2>3. CallInv(t)'
    BY <1>4, <2>1, <2>2 DEF CallInv, ReadStoreAbs
  <2> QED BY <1>3, <1>4, <2>1, <2>2, <2>3, SoloStep DEF ReadStoreAbs
<1>5. CASE ReadStoreRel(t)
  <2>1. pc'[t] = "idle" /\ \A u \in Threads \ {t} : pc'[u] = "idle"
    BY <1>2, <1>5 DEF ReadStoreRel, Return, TypeOK
  <2>2. /\ lPos[t] \in Partition /\ filePos = lPos[t] /\ curAbs = lPos[t]
        /\ curRel' = lPos[t] - StartingOffset
    BY <1>3, <1>5 DEF ReadStoreRel, CallInv
  <2>3. Agree' /\ curRel' \in 0 .. EndingOffset - StartingOffset
    BY <1>5, <2>2, Widths DEF Agree, ReadStoreRel, Partition
  <2>4. CallInv(t)'
    BY <2>1 DEF CallInv
  <2> QED BY <1>3, <1>5, <2>1, <2>3, <2>4, SoloStep DEF ReadStoreRel
<1> QED BY <1>4, <1>5

(* A query returns at once and touches nothing, whoever else is in a call. *)
LEMMA QuerySteady ==
  ASSUME TypeOK, Steady, NEW t \in Threads, NEW v,
         pc[t] = "idle", Return(t, v), UNCHANGED shared
  PROVE  Steady'
<1>1. pc' = pc
  BY DEF Return, TypeOK
<1>2. \A u \in Threads \ {t} : /\ req'[u] = req[u] /\ ovl'[u] = ovl[u]
                               /\ lPos'[u] = lPos[u] /\ want'[u] = want[u]
                               /\ got'[u] = got[u]
  BY DEF Return, TypeOK
<1>3. \A u \in Threads : CallInv(u)'
  <2> SUFFICES ASSUME NEW u \in Threads PROVE CallInv(u)'
    OBVIOUS
  <2>1. CASE u = t
    BY <1>1, <2>1 DEF CallInv
  <2>2. CASE u # t
    BY <1>1, <1>2, <2>2 DEF CallInv, Steady, Agree, shared, Aligned
  <2> QED BY <2>1, <2>2
<1>4. Alone' /\ ((\A u \in Threads : pc[u] = "idle")' => Agree')
  BY <1>1 DEF Steady, Alone, Agree, shared
<1> QED BY <1>3, <1>4 DEF Steady, shared

LEMMA SteadyStep ==
  ASSUME TypeOK, Steady, [Next]_vars, Tame'
  PROVE  Steady'
<1>1. CASE UNCHANGED vars
  BY <1>1 DEF Steady, Alone, CallInv, Agree, Aligned, vars
<1> SUFFICES ASSUME Next PROVE Steady'
  BY <1>1
<1> PICK t \in Threads :
     \/ \E m \in Methods, d \in Distances : SetPointerEx(t, m, d)
     \/ \E m \in Methods, low, high \in Longs : SetPointer(t, m, low, high)
     \/ \E m \in Methods, low \in Longs : SetPointerNoHigh(t, m, low)
     \/ \E n \in ReadSizes, o \in Overlaps \cup {NoOffset} : ReadBegin(t, n, o)
     \/ \E low \in BOOLEAN : (low => Longs # {}) /\ SeekQueryFails(t, low)
     \/ SeekStep(t)
     \/ ReadStep(t)
     \/ GetFileSizeEx(t)
     \/ Write(t)
  BY DEF Next
<1>2. ASSUME NEW m \in Methods, NEW d \in Int, NEW low, SeekBegin(t, m, d, low)
      PROVE  Steady'
  <2>1. Interleaving(t) = {}
    BY <1>2 DEF SeekBegin, Tame
  <2> QED BY <1>2, <2>1, SeekBeginSteady
<1>3. ASSUME NEW m \in Methods, NEW d \in Distances, SetPointerEx(t, m, d)
      PROVE  Steady'
  <2>1. d \in Int
    BY Arguments
  <2> QED BY <1>2, <1>3, <2>1 DEF SetPointerEx
<1>4. ASSUME NEW m \in Methods, NEW low \in Longs, NEW high \in Longs,
             SetPointer(t, m, low, high)
      PROVE  Steady'
  <2>1. Joined(high, low) \in Int
    BY JoinedInt, Arguments
  <2> QED BY <1>2, <1>4, <2>1 DEF SetPointer
<1>5. ASSUME NEW m \in Methods, NEW low \in Longs, SetPointerNoHigh(t, m, low)
      PROVE  Steady'
  <2>1. PICK high \in Int : SeekBegin(t, m, Joined(high, low), TRUE)
    BY <1>5, Arguments DEF SetPointerNoHigh
  <2>2. Joined(high, low) \in Int
    BY JoinedInt, Arguments
  <2> QED BY <1>2, <2>1, <2>2
<1>6. ASSUME NEW low \in BOOLEAN, SeekQueryFails(t, low)
      PROVE  Steady'
  BY <1>6, QuerySteady DEF SeekQueryFails, SeekFails
<1>7. ASSUME NEW n \in ReadSizes, NEW o \in Overlaps \cup {NoOffset},
             ReadBegin(t, n, o)
      PROVE  Steady'
  <2>1. Interleaving(t) = {} /\ ~RoundsPastEnd(n, curAbs) /\ o = NoOffset
    BY <1>7 DEF ReadBegin, Tame
  <2> QED BY <1>7, <2>1, ReadBeginSteady
<1>8. ASSUME SeekStep(t) PROVE Steady'
  BY <1>8, SeekStepSteady
<1>9. ASSUME ReadStep(t) PROVE Steady'
  BY <1>9, ReadFileSteady, ReadSyncSteady, ReadStoresSteady DEF ReadStep
<1>10. ASSUME GetFileSizeEx(t) PROVE Steady'
  BY <1>10, QuerySteady DEF GetFileSizeEx
<1>11. ASSUME Write(t) PROVE Steady'
  BY <1>11, QuerySteady DEF Write
<1> QED BY <1>3, <1>4, <1>5, <1>6, <1>7, <1>8, <1>9, <1>10, <1>11

(* Nothing takes an escape back.                                           *)
LEMMA TameBefore == [Next]_vars /\ Tame' => Tame
BY DEF Tame, Next, vars, SetPointerEx, SetPointer, SetPointerNoHigh, SeekBegin,
       ReadBegin, SeekQueryFails, SeekStep, SeekMove, SeekStoreAbs, SeekStoreRel,
       SeekReturn, ReadStep, ReadFile, ReadSync, ReadStoreAbs, ReadStoreRel,
       GetFileSizeEx, Write

(* The positions of the OS and of the object stay related as each label of *)
(* DevBlkSetPointerEx and DevBlkRead needs (windevblk.c:330-495).          *)
THEOREM Inductive == Spec => []IOInv
<1>1. Init => IOInv
  BY Widths DEF Init, IOInv, Steady, Alone, Agree, CallInv, Partition
<1>2. TypeOK /\ IOInv /\ [Next]_vars => IOInv'
  BY SteadyStep, TameBefore DEF IOInv
<1> QED BY <1>1, <1>2, TypeCorrect, PTL DEF Spec

(* For every drive, partition, width and argument: a caller that causes no *)
(* EscapeKinds never reaches a byte outside its partition nor a byte past  *)
(* its buffer, whichever OS call fails (windevblk.c:370-378, 424-444).     *)
THEOREM StaysConfined == Spec => []Confined
<1>1. IOInv /\ TypeOK => Confined
  <2> SUFFICES ASSUME Steady, TypeOK, Tame
               PROVE  ReadsInside /\ BufferFits
    BY DEF IOInv, Confined, Steady
  <2>1. ASSUME NEW t \in Threads, pc[t] = "readFile"
        PROVE  /\ ReadsAt(t) = filePos /\ filePos \in Partition
               /\ Aligned(filePos) => filePos + want[t] <= EndingOffset
               /\ Aligned(req[t]) => want[t] <= req[t]
    BY <2>1 DEF Steady, CallInv, ReadsAt
  <2> QED BY <2>1 DEF ReadsInside, BufferFits, DiskReads
<1> QED BY <1>1, Inductive, TypeCorrect, PTL

(* Between calls the object's two positions are the OS's position, seen    *)
(* from the drive and from the partition (windevblk.c:382-383, 462-474).   *)
THEOREM StaysSynced == Spec => []Synced
<1>1. IOInv => Synced
  BY DEF IOInv, Steady, Synced
<1> QED BY <1>1, Inductive, PTL

----------------------------------------------------------------------------
(* Threads that only seek.                                                 *)

SeekLabels == {"idle", "seekMove", "seekAbs", "seekRel", "seekReturn"}

(* What each of them still has to store is a position of the partition,    *)
(* whichever of them computed it from which earlier position.              *)
SeeksInv ==
  /\ SeeksInside
  /\ \A t \in Threads : pc[t] \in SeekLabels /\ (pc[t] # "idle" => lPos[t] \in Partition)

LEMMA SeekBeginInside ==
  ASSUME TypeOK, SeeksInv, NEW t \in Threads, NEW m \in Methods, NEW d \in Int,
         NEW low \in BOOLEAN, SeekBegin(t, m, d, low)
  PROVE  SeeksInv'
<1>1. SeekTarget(m, d, filePos) \in Partition
  BY TargetInside DEF TypeOK
<1>2. SeeksInside'
  BY DEF SeekBegin, shared, SeeksInv, SeeksInside, Partition
<1>3. ASSUME NEW u \in Threads
      PROVE  pc'[u] \in SeekLabels /\ (pc'[u] # "idle" => lPos'[u] \in Partition)
  BY <1>1 DEF SeekBegin, Goto, TypeOK, SeeksInv, SeekLabels
<1> QED BY <1>2, <1>3 DEF SeeksInv, Partition

(* A return leaves the positions and makes the thread idle.                *)
LEMMA ReturnInside ==
  ASSUME TypeOK, SeeksInv, NEW t \in Threads, NEW v, Return(t, v), UNCHANGED shared
  PROVE  SeeksInv'
<1>1. SeeksInside'
  BY DEF shared, SeeksInv, SeeksInside, Partition
<1>2. ASSUME NEW u \in Threads
      PROVE  pc'[u] \in SeekLabels /\ (pc'[u] # "idle" => lPos'[u] \in Partition)
  BY DEF Return, TypeOK, SeeksInv, SeekLabels
<1> QED BY <1>1, <1>2 DEF SeeksInv, Partition

LEMMA SeekStepInside ==
  ASSUME TypeOK, SeeksInv, NEW t \in Threads, SeekStep(t)
  PROVE  SeeksInv'
<1> DEFINE Stays == \A u \in Threads :
             pc'[u] \in SeekLabels /\ (pc'[u] # "idle" => lPos'[u] \in Partition)
<1>1. CASE SeekMove(t) /\ filePos' = lPos[t] /\ Goto(t, "seekAbs") /\ UNCHANGED lPos
  <2>1. SeeksInside'
    BY <1>1 DEF SeekMove, SeeksInv, SeeksInside, Partition
  <2>2. Stays
    BY <1>1 DEF SeekMove, Goto, TypeOK, SeeksInv, SeekLabels
  <2> QED BY <2>1, <2>2 DEF SeeksInv, Partition
<1>2. CASE SeekMove(t) /\ SeekFails(t, narrow[t]) /\ UNCHANGED filePos
  BY <1>2, ReturnInside DEF SeekMove, SeekFails, shared
<1>3. CASE SeekStoreAbs(t)
  <2>1. SeeksInside'
    BY <1>3 DEF SeekStoreAbs, SeeksInv, SeeksInside, Partition
  <2>2. Stays
    BY <1>3 DEF SeekStoreAbs, Goto, locals, TypeOK, SeeksInv, SeekLabels
  <2> QED BY <2>1, <2>2 DEF SeeksInv, Partition
<1>4. CASE SeekStoreRel(t)
  <2>1. curRel' + StartingOffset = lPos[t]
    BY <1>4, Widths DEF SeekStoreRel, TypeOK
  <2>2. SeeksInside'
    BY <1>4, <2>1 DEF SeekStoreRel, SeeksInv, SeeksInside, Partition
  <2>3. Stays
    BY <1>4 DEF SeekStoreRel, Goto, locals, TypeOK, SeeksInv, SeekLabels
  <2> QED BY <2>2, <2>3 DEF SeeksInv, Partition
<1>5. CASE SeekReturn(t)
  BY <1>5, ReturnInside DEF SeekReturn
<1> QED BY <1>1, <1>2, <1>3, <1>4, <1>5 DEF SeekStep, SeekMove, locals

LEMMA SeeksStep ==
  ASSUME ReadSizes = {}
  PROVE  TypeOK /\ SeeksInv /\ [Next]_vars => SeeksInv'
<1> SUFFICES ASSUME TypeOK, SeeksInv, [Next]_vars PROVE SeeksInv'
  OBVIOUS
<1>1. CASE UNCHANGED vars
  BY <1>1 DEF SeeksInv, SeeksInside, vars, shared, locals, Partition
<1>2. ASSUME NEW t \in Threads, NEW m \in Methods, NEW d \in Distances, SetPointerEx(t, m, d)
      PROVE  SeeksInv'
  BY <1>2, SeekBeginInside, Arguments DEF SetPointerEx
<1>3. ASSUME NEW t \in Threads, NEW m \in Methods, NEW low \in Longs, NEW high \in Longs,
             SetPointer(t, m, low, high)
      PROVE  SeeksInv'
  BY <1>3, SeekBeginInside, JoinedInt, Arguments DEF SetPointer
<1>4. ASSUME NEW t \in Threads, NEW m \in Methods, NEW low \in Longs,
             SetPointerNoHigh(t, m, low)
      PROVE  SeeksInv'
  BY <1>4, SeekBeginInside, JoinedInt, Arguments DEF SetPointerNoHigh
<1>5. ASSUME NEW t \in Threads, NEW low \in BOOLEAN, SeekQueryFails(t, low) PROVE SeeksInv'
  BY <1>5, ReturnInside DEF SeekQueryFails, SeekFails
<1>6. ASSUME NEW t \in Threads, SeekStep(t) PROVE SeeksInv'
  BY <1>6, SeekStepInside
<1>7. ASSUME NEW t \in Threads, ReadStep(t) PROVE SeeksInv'
  BY <1>7 DEF ReadStep, ReadFile, ReadSync, ReadStoreAbs, ReadStoreRel, SeeksInv, SeekLabels
<1>8. ASSUME NEW t \in Threads, GetFileSizeEx(t) \/ Write(t) PROVE SeeksInv'
  BY <1>8, ReturnInside DEF GetFileSizeEx, Write
<1> QED BY <1>1, <1>2, <1>3, <1>4, <1>5, <1>6, <1>7, <1>8 DEF Next

(* However many threads seek on one handle and however their steps         *)
(* interleave, whichever SetFilePointerEx fails, every copy of the         *)
(* position is in the partition: each of them was clamped, whatever it was *)
(* computed from (windevblk.c:370-385).                                    *)
THEOREM SeeksStayInside ==
  ASSUME ReadSizes = {}
  PROVE  Spec => []SeeksInside
<1>1. Init => SeeksInv
  BY Widths DEF Init, SeeksInv, SeeksInside, SeekLabels, Partition
<1>2. TypeOK /\ SeeksInv /\ [Next]_vars => SeeksInv'
  BY SeeksStep
<1>3. SeeksInv => SeeksInside
  BY DEF SeeksInv
<1> QED BY <1>1, <1>2, <1>3, TypeCorrect, PTL DEF Spec

----------------------------------------------------------------------------
(* Used by one caller, DevBlkIO implements PartitionFile.                  *)

Size == EndingOffset - StartingOffset

(* What a read of n bytes is to return.                                    *)
Share(n) == IF n < Size - curRel THEN n ELSE Size - curRel

Seeking == {"seekMove", "seekAbs", "seekRel"}
Reading == {"readFile", "readSync", "readAbs", "readRel"}

(* The calls under way: the target of a seek, the outcome of a read.       *)
FileInv == Tame =>
  /\ pc[t1] \in Seeking /\ ~narrow[t1] =>
       lPos[t1] = SeekTarget(asked[t1].method, asked[t1].by, StartingOffset + curRel)
  /\ pc[t1] \in Reading => req[t1] \in ReadSizes
  /\ pc[t1] = "readFile" => want[t1] = BytesToRead(req[t1], curAbs) /\ ~RoundsPastEnd(req[t1], curAbs)
  /\ pc[t1] = "readSync" /\ req[t1] <= DwordMod - SectorSize => Reported(req[t1], got[t1]) = Share(req[t1])
  /\ pc[t1] \in {"readAbs", "readRel"} /\ req[t1] <= DwordMod - SectorSize =>
       got[t1] = Share(req[t1]) /\ lPos[t1] - StartingOffset = curRel + got[t1]

----------------------------------------------------------------------------
(* What the file has been asked for.                                       *)
LEMMA PendingIs ==
  /\ pc[t1] \in {"idle", "seekReturn"} => Pending = File!NoCall
  /\ pc[t1] \in Seeking =>
       Pending = [op |-> "seek", origin |-> asked[t1].method, by |-> asked[t1].by]
  /\ pc[t1] \in Reading => Pending = [op |-> "read", count |-> req[t1]]
BY DEF Pending, Seeking, Reading, File!NoCall

(* A target that did not wrap is the byte the caller asked for, or the end *)
(* that is nearer to it.                                                   *)
LEMMA TargetTold ==
  ASSUME TypeOK, t1 \in Threads, pc[t1] \in Seeking, curRel \in 0 .. Size, ~Wraps(t1)
  PROVE  SeekTarget(asked[t1].method, asked[t1].by, StartingOffset + curRel) - StartingOffset
           = File!Within(File!Told(Pending))
<1> DEFINE m == asked[t1].method
           d == asked[t1].by
<1>0. /\ StartingOffset \in Nat /\ EndingOffset \in Nat /\ StartingOffset <= EndingOffset
      /\ m \in Methods /\ d \in Int /\ curRel \in Int
  BY IOAssumption DEF IOAssumption, TypeOK, Size
<1>1. Pending.origin = m /\ Pending.by = d
  BY PendingIs
<1> HIDE DEF m, d
<1>2. ASSUME NEW x \in Int
      PROVE  Clamp(x) - StartingOffset = File!Within(x - StartingOffset)
  BY <1>0 DEF Clamp, File!Within
<1>3. CASE m = "other"
  <2>1. File!Told(Pending) = 0
    BY <1>1, <1>3 DEF File!Told
  <2>2. SeekTarget(m, d, StartingOffset + curRel) - StartingOffset = 0
    BY <1>0, <1>3 DEF SeekTarget, Clamp
  <2>3. File!Within(0) = 0
    BY <1>0 DEF File!Within
  <2> QED BY <2>1, <2>2, <2>3 DEF m, d
<1>4. CASE m # "other"
  <2> DEFINE goal == Origin(StartingOffset + curRel)[m] + d
  <2>1. goal \in Int /\ File!Told(Pending) = goal - StartingOffset
    <3>1. CASE m = "FILE_BEGIN"
      BY <1>0, <1>1, <3>1 DEF Origin, File!Told
    <3>2. CASE m = "FILE_CURRENT"
      BY <1>0, <1>1, <3>2 DEF Origin, File!Told
    <3>3. CASE m = "FILE_END"
      BY <1>0, <1>1, <3>3 DEF Origin, File!Told
    <3> QED BY <1>0, <1>4, <3>1, <3>2, <3>3 DEF Methods
  <2>2. Quad(goal) = goal
    BY <1>4 DEF Wraps, Goal, m, d
  <2>3. SeekTarget(m, d, StartingOffset + curRel) = Clamp(goal)
    BY <1>4, <2>2 DEF SeekTarget
  <2> HIDE DEF goal
  <2> QED BY <1>2, <2>1, <2>3 DEF m, d
<1> QED BY <1>3, <1>4

(* The cut and the rounding of DevBlkRead, taken back after the read.      *)
LEMMA ReadShare ==
  ASSUME NEW n \in ReadSizes, n <= DwordMod - SectorSize, NEW abs \in Partition, ~RoundsPastEnd(n, abs),
         DiskReads(abs, BytesToRead(n, abs))
  PROVE  LET k == Transferred(abs, BytesToRead(n, abs))
             share == IF n < EndingOffset - abs THEN n ELSE EndingOffset - abs
         IN  Reported(n, k) = share /\ (BytesToRead(n, abs) = 0 => share = 0)
<1>0. /\ StartingOffset \in Nat /\ EndingOffset \in Nat /\ DiskSize \in Nat /\ EndingOffset <= DiskSize
      /\ abs \in StartingOffset .. EndingOffset /\ n \in 0 .. DwordMod - 1 /\ DwordMod \in Nat \ {0}
      /\ SectorSize \in Nat \ {0}
  BY IOAssumption, Widths, Arguments DEF IOAssumption, Partition
<1> DEFINE rest == EndingOffset - abs
<1>1. rest \in Nat
  BY <1>0
<1>2. Cut(n, abs) = IF n > rest THEN rest ELSE n
  BY <1>0, <1>1, ModSmall DEF Cut, Dword
<1>3. CASE Aligned(n)
  <2>1. BytesToRead(n, abs) = Cut(n, abs)
    BY <1>3 DEF BytesToRead
  <2> QED BY <1>0, <1>1, <1>2, <2>1 DEF Transferred, Reported
<1>4. CASE ~Aligned(n) /\ abs = EndingOffset
  <2>1. BytesToRead(n, abs) = 0
    BY <1>0, <1>1, <1>2, <1>4 DEF BytesToRead
  <2> QED BY <1>0, <1>4, <2>1 DEF Transferred, Reported
<1>5. CASE ~Aligned(n) /\ abs # EndingOffset
  <2>1. n <= rest /\ n > 0
    <3>1. n # 0
      BY <1>0, <1>5, ModSmall DEF Aligned
    <3> QED BY <1>0, <1>5, <3>1 DEF RoundsPastEnd
  <2> DEFINE q == n \div SectorSize
             whole == SectorSize * (q + 1)
  <2>2. /\ q \in Nat /\ n = (SectorSize * q) + (n % SectorSize)
        /\ n % SectorSize \in 0 .. SectorSize - 1
    <3>1. n \in Int /\ n >= 0
      BY <1>0
    <3>2. q \in Int /\ n = (SectorSize * q) + (n % SectorSize) /\ q >= 0
      BY <1>0, <3>1, DivMod
    <3>3. n % SectorSize \in 0 .. SectorSize - 1
      BY <1>0, <3>1, ModBounds
    <3> QED BY <3>2, <3>3
  <2>3. whole = (SectorSize * q) + SectorSize /\ SectorSize * q \in Nat
    BY <1>0, <2>2, Product
  <2>4. n % SectorSize # 0
    BY <1>5 DEF Aligned
  <2>5. n < whole /\ whole < n + SectorSize /\ whole \in Nat
    <3> HIDE DEF q
    <3>1. \A a, b, c \in Nat : b < c /\ b # 0 => a + b < a + c /\ a + c < a + b + c
      OBVIOUS
    <3> QED BY <1>0, <2>2, <2>3, <2>4, <3>1
  <2>6. Dword(whole) = whole
    <3> HIDE DEF whole
    <3> QED BY <1>0, <2>5, ModSmall DEF Dword
  <2>7. BytesToRead(n, abs) = whole
    BY <1>0, <1>1, <1>2, <1>5, <2>1, <2>6 DEF BytesToRead, WholeSectors
  <2> HIDE DEF whole, q
  <2>8. Aligned(abs)
    BY <1>0, <2>5, <2>7 DEF DiskReads
  <2>9. abs + whole <= EndingOffset
    BY <1>0, <2>7, <2>8, PlanFits
  <2>10. Transferred(abs, whole) = whole
    BY <1>0, <2>5, <2>9 DEF Transferred
  <2> QED BY <1>0, <1>1, <2>1, <2>5, <2>7, <2>10 DEF Reported
<1> QED BY <1>3, <1>4, <1>5

----------------------------------------------------------------------------
OneCaller == Threads = {t1}
Result == IF pc[t1] = "seekReturn" THEN curRel ELSE ret[t1]

(* A step that is one of the file, or beside it, or none.                  *)
Fits == FileInv' /\ (Beside \/ File!Next \/ UNCHANGED <<curRel, Pending, Result>>)

LEMMA ReturnResult ==
  ASSUME OneCaller, TypeOK, NEW v, Return(t1, v)
  PROVE  FileInv' /\ Result' = v /\ Pending' = File!NoCall
<1>1. pc'[t1] = "idle" /\ ret'[t1] = v
  BY DEF OneCaller, TypeOK, Return
<1> QED BY <1>1 DEF FileInv, Result, Pending, Seeking, Reading, File!NoCall

(* A call refused before anything is under way, and one that fails then.   *)
LEMMA RefuseFits ==
  ASSUME OneCaller, TypeOK, pc[t1] = "idle", Return(t1, Failed), UNCHANGED curRel
  PROVE  Fits
<1>1. FileInv' /\ Result' = -1 /\ Pending' = File!NoCall /\ Pending = File!NoCall
  BY ReturnResult, PendingIs DEF Failed
<1>2. File!Refuse
  BY <1>1 DEF File!Refuse, File!Answer, Result
<1> QED BY <1>1, <1>2 DEF Fits, File!Next

LEMMA FailFits ==
  ASSUME OneCaller, TypeOK, Pending.op \in Faults \cap {"seek", "read"}, Return(t1, Failed), UNCHANGED curRel
  PROVE  Fits
<1>1. FileInv' /\ Result' = -1 /\ Pending' = File!NoCall
  BY ReturnResult DEF Failed
<1>2. File!Fail
  BY <1>1 DEF File!Fail, File!Answer, Result
<1> QED BY <1>1, <1>2 DEF Fits, File!Next

LEMMA SeekBeginFits ==
  ASSUME OneCaller, TypeOK, Steady, NEW m \in Methods, NEW d \in Int, NEW low \in BOOLEAN,
         SeekBegin(t1, m, d, low)
  PROVE  Fits
<1>1. t1 \in Threads /\ Agree /\ filePos \in Partition /\ pc[t1] = "idle"
  BY DEF OneCaller, Steady, SeekBegin
<1>2. /\ pc'[t1] = "seekMove" /\ narrow'[t1] = low /\ lPos'[t1] = SeekTarget(m, d, filePos)
      /\ asked'[t1] = [method |-> m, by |-> d]
      /\ UNCHANGED <<curRel, ret>>
  BY <1>1 DEF SeekBegin, Goto, TypeOK, shared
<1>3. filePos = StartingOffset + curRel
  <2>1. curRel \in Int /\ filePos \in Int /\ StartingOffset \in Int
    BY Widths DEF TypeOK
  <2> QED BY <1>1, <2>1 DEF Agree
<1>4. FileInv'
  BY <1>2, <1>3 DEF FileInv, Seeking, Reading
<1>5. Result' = Result /\ UNCHANGED curRel
  BY <1>1, <1>2 DEF Result
<1>6. Pending = File!NoCall /\ Pending' = [op |-> "seek", origin |-> m, by |-> d]
  BY <1>1, <1>2 DEF Pending, File!NoCall
<1>7. Pending' \in File!Calls
  BY <1>6 DEF File!Calls, Methods
<1>8. File!Ask
  BY <1>5, <1>6, <1>7 DEF File!Ask, Result
<1> QED BY <1>4, <1>8 DEF Fits, File!Next

LEMMA SeekStepFits ==
  ASSUME OneCaller, TypeOK, Steady, Tame, FileInv, SeekStep(t1)
  PROVE  Fits
<1>0. t1 \in Threads
  BY DEF OneCaller
<1>1. CASE SeekMove(t1) /\ "seek" \in Faults /\ SeekFails(t1, narrow[t1])
  <2>1. CASE narrow[t1]
    BY <1>1, <2>1, ReturnResult DEF SeekFails, Fits, Beside
  <2>2. CASE ~narrow[t1]
    <3>1. Pending.op = "seek"
      BY <1>1, PendingIs DEF SeekMove, Seeking
    <3> QED BY <1>1, <2>2, <3>1, FailFits DEF SeekMove, SeekFails
  <2> QED BY <2>1, <2>2
<1>2. ASSUME NEW l \in Seeking, NEW k \in Seeking, pc[t1] = l, pc'[t1] = k,
             UNCHANGED <<narrow, asked, lPos, curRel, ret>>
      PROVE  Fits
  <2>1. UNCHANGED <<curRel, Pending, Result>>
    BY <1>2 DEF Pending, Result, Seeking
  <2>2. FileInv'
    BY <1>2 DEF FileInv, Tame, Seeking, Reading
  <2> QED BY <2>1, <2>2 DEF Fits
<1>3. CASE SeekMove(t1) /\ Goto(t1, "seekAbs") /\ UNCHANGED <<locals, ret>>
  <2>1. pc[t1] = "seekMove" /\ pc'[t1] = "seekAbs" /\ UNCHANGED <<narrow, asked, lPos, curRel, ret>>
    BY <1>0, <1>3 DEF SeekMove, Goto, TypeOK, locals
  <2> QED BY <1>2, <2>1 DEF Seeking
<1>4. CASE SeekStoreAbs(t1)
  <2>1. pc[t1] = "seekAbs" /\ pc'[t1] = "seekRel" /\ UNCHANGED <<narrow, asked, lPos, curRel, ret>>
    BY <1>0, <1>4 DEF SeekStoreAbs, Goto, TypeOK, locals
  <2> QED BY <1>2, <2>1 DEF Seeking
<1>5. CASE SeekStoreRel(t1)
  <2>1. pc[t1] = "seekRel" /\ pc'[t1] = "seekReturn" /\ curRel' = lPos[t1] - StartingOffset
    BY <1>0, <1>5 DEF SeekStoreRel, Goto, TypeOK
  <2>2. FileInv'
    BY <2>1 DEF FileInv, Seeking, Reading
  <2>3. CASE narrow[t1] \/ Wraps(t1)
    BY <2>1, <2>2, <2>3 DEF Fits, Beside
  <2>4. CASE ~narrow[t1] /\ ~Wraps(t1)
    <3>1. lPos[t1] = SeekTarget(asked[t1].method, asked[t1].by, StartingOffset + curRel)
      BY <2>1, <2>4 DEF FileInv, Seeking
    <3>2. curRel \in 0 .. Size
      BY DEF Steady, Size
    <3>3. curRel' = File!Within(File!Told(Pending))
      BY <1>0, <2>1, <2>4, <3>1, <3>2, TargetTold DEF Seeking
    <3>4. Result' = curRel' /\ Pending' = File!NoCall /\ Pending.op = "seek"
      BY <2>1 DEF Result, Pending, File!NoCall
    <3>5. File!Seek
      BY <3>3, <3>4 DEF File!Seek, File!Answer, Result
    <3> QED BY <2>2, <3>5 DEF Fits, File!Next
  <2> QED BY <2>3, <2>4
<1>6. CASE SeekReturn(t1)
  <2>1. pc[t1] = "seekReturn" /\ UNCHANGED curRel
    BY <1>6 DEF SeekReturn, shared
  <2>2. CASE narrow[t1]
    BY <1>6, <2>2, ReturnResult DEF SeekReturn, Fits, Beside
  <2>3. CASE ~narrow[t1]
    <3>1. FileInv' /\ Result' = curRel /\ Pending' = File!NoCall
      BY <1>6, <2>3, ReturnResult DEF SeekReturn
    <3>2. Result = curRel /\ Pending = File!NoCall
      BY <2>1 DEF Result, Pending, File!NoCall
    <3> QED BY <2>1, <3>1, <3>2 DEF Fits
  <2> QED BY <2>2, <2>3
<1> QED BY <1>1, <1>3, <1>4, <1>5, <1>6 DEF SeekStep, SeekMove

----------------------------------------------------------------------------
LEMMA ReadBeginFits ==
  ASSUME OneCaller, TypeOK, Steady, NEW n \in ReadSizes, ReadBegin(t1, n, NoOffset), ~RoundsPastEnd(n, curAbs)
  PROVE  Fits
<1>1. t1 \in Threads /\ pc[t1] = "idle" /\ UNCHANGED <<curAbs, curRel>> /\ n \in Nat
  BY Arguments DEF OneCaller, ReadBegin, shared
<1>2. CASE Return(t1, Failed)
  BY <1>1, <1>2, RefuseFits
<1>3. CASE /\ Goto(t1, "readFile") /\ req' = [req EXCEPT ![t1] = n]
           /\ want' = [want EXCEPT ![t1] = BytesToRead(n, curAbs)] /\ UNCHANGED ret
  <2>1. pc'[t1] = "readFile" /\ req'[t1] = n /\ want'[t1] = BytesToRead(n, curAbs)
    BY <1>1, <1>3 DEF Goto, TypeOK
  <2>2. FileInv'
    BY <1>1, <2>1 DEF FileInv, RoundsPastEnd, Seeking, Reading
  <2>3. UNCHANGED <<curRel, Result>>
    BY <1>1, <1>3, <2>1 DEF Result
  <2>4. Pending = File!NoCall /\ Pending' = [op |-> "read", count |-> n]
    BY <1>1, <2>1 DEF Pending, File!NoCall
  <2>5. File!Ask
    BY <1>1, <2>3, <2>4 DEF File!Ask, File!Calls, Result
  <2> QED BY <2>2, <2>5 DEF Fits, File!Next
<1> QED BY <1>2, <1>3 DEF ReadBegin

(* The call returns what the file's read does, and moves as it does.       *)
LEMMA ReadReturns ==
  ASSUME OneCaller, TypeOK, pc[t1] \in Reading, Return(t1, Share(req[t1])), curRel' = curRel + Share(req[t1])
  PROVE  Fits
<1>1. FileInv' /\ Result' = Share(req[t1]) /\ Pending' = File!NoCall
  BY ReturnResult
<1>2. Pending.op = "read" /\ Pending.count = req[t1]
  BY PendingIs
<1>3. File!Left(Pending.count) = Share(req[t1])
  BY <1>2 DEF File!Left, Share, Size
<1>4. File!Read
  BY <1>1, <1>2, <1>3 DEF File!Read, File!Answer, Result
<1> QED BY <1>1, <1>4 DEF Fits, File!Next

LEMMA ReadFileFits ==
  ASSUME OneCaller, TypeOK, Steady, Tame, FileInv, ReadFile(t1)
  PROVE  Fits
<1>1. t1 \in Threads /\ pc[t1] = "readFile" /\ UNCHANGED <<curAbs, curRel>>
  BY DEF OneCaller, ReadFile
<1>2. /\ req[t1] \in ReadSizes /\ want[t1] = BytesToRead(req[t1], curAbs) /\ ~RoundsPastEnd(req[t1], curAbs)
      /\ ReadsAt(t1) = curAbs /\ filePos = curAbs /\ curAbs \in Partition /\ curRel = curAbs - StartingOffset
  BY <1>1 DEF FileInv, Steady, CallInv, Agree, ReadsAt, Reading
<1>3. Share(req[t1]) = IF req[t1] < EndingOffset - curAbs THEN req[t1] ELSE EndingOffset - curAbs
  BY <1>2, Widths DEF Share, Size, Partition
<1>4. CASE Return(t1, Failed) /\ ("read" \in Faults \/ ~DiskReads(ReadsAt(t1), want[t1]))
  <2>1. CASE ~DiskReads(ReadsAt(t1), want[t1])
    BY <1>1, <1>4, <2>1, ReturnResult DEF Fits, Beside
  <2>2. CASE "read" \in Faults
    <3>1. Pending.op = "read"
      BY <1>1, PendingIs DEF Reading
    <3> QED BY <1>1, <1>4, <2>2, <3>1, FailFits
  <2> QED BY <1>4, <2>1, <2>2
<1>5. CASE DiskReads(curAbs, want[t1]) /\ want[t1] > 0 /\ Goto(t1, "readSync")
           /\ got' = [got EXCEPT ![t1] = Transferred(curAbs, want[t1])]
           /\ UNCHANGED <<req, ret>>
  <2>1. /\ pc'[t1] = "readSync" /\ got'[t1] = Transferred(curAbs, want[t1]) /\ req'[t1] = req[t1]
    BY <1>1, <1>5 DEF Goto, TypeOK
  <2>2. req[t1] <= DwordMod - SectorSize => Reported(req[t1], got'[t1]) = Share(req[t1])
    BY <1>2, <1>3, <1>5, <2>1, ReadShare
  <2>3. FileInv'
    BY <1>1, <1>2, <2>1, <2>2 DEF FileInv, Reported, Share, Seeking, Reading
  <2>4. UNCHANGED <<curRel, Pending, Result>>
    BY <1>1, <1>5, <2>1 DEF Result, Pending
  <2> QED BY <2>3, <2>4 DEF Fits
<1>6. CASE DiskReads(curAbs, want[t1]) /\ ~(want[t1] > 0) /\ Return(t1, 0)
  <2>1. want[t1] = 0
    BY <1>1, <1>6, Widths DEF TypeOK
  <2>2. CASE req[t1] > DwordMod - SectorSize
    BY <1>6, <2>2, ReturnResult DEF Fits, Beside
  <2>3. CASE ~(req[t1] > DwordMod - SectorSize)
    <3>1. req[t1] <= DwordMod - SectorSize
      <4>1. req[t1] \in Nat /\ DwordMod \in Nat /\ SectorSize \in Nat
        BY <1>1, Widths DEF TypeOK
      <4> QED BY <2>3, <4>1
    <3>2. Share(req[t1]) = 0
      BY <1>2, <1>3, <1>6, <2>1, <3>1, ReadShare
    <3>3. curRel' = curRel + 0
      BY <1>1, <1>2, Widths DEF Partition
    <3> QED BY <1>1, <1>6, <3>2, <3>3, ReadReturns DEF Reading
  <2> QED BY <2>2, <2>3
<1> QED BY <1>2, <1>4, <1>5, <1>6 DEF ReadFile

LEMMA ReadSyncFits ==
  ASSUME OneCaller, TypeOK, Steady, Tame, FileInv, ReadSync(t1), Tame'
  PROVE  Fits
<1>1. t1 \in Threads /\ pc[t1] = "readSync" /\ UNCHANGED curRel
  BY DEF OneCaller, ReadSync
<1> DEFINE to == filePos + MoveBack(req[t1], got[t1])
<1>2. /\ lPos' = [lPos EXCEPT ![t1] = to] /\ got' = [got EXCEPT ![t1] = Reported(req[t1], got[t1])]
      /\ Goto(t1, "readAbs") /\ UNCHANGED <<req, ret>>
  BY DEF ReadSync, Tame
<1>3. /\ pc'[t1] = "readAbs" /\ lPos'[t1] = to /\ got'[t1] = Reported(req[t1], got[t1]) /\ req'[t1] = req[t1]
  BY <1>1, <1>2 DEF Goto, TypeOK
<1>4. /\ filePos = curAbs + got[t1] /\ curRel = curAbs - StartingOffset /\ curAbs \in Nat
      /\ got[t1] <= req[t1] + SectorSize /\ got[t1] \in Nat /\ req[t1] \in Nat /\ req[t1] \in ReadSizes
      /\ req[t1] <= DwordMod - SectorSize => Reported(req[t1], got[t1]) = Share(req[t1])
  BY <1>1, Widths DEF Steady, CallInv, TypeOK, FileInv, Reading
<1>5. got[t1] + MoveBack(req[t1], got[t1]) = Reported(req[t1], got[t1]) /\ MoveBack(req[t1], got[t1]) \in Int
      /\ Reported(req[t1], got[t1]) \in Int
  <2>1. Reported(req[t1], got[t1]) \in Int
    BY <1>4 DEF Reported
  <2> QED BY <1>4, <2>1, MoveBackExact, MoveBackType
<1>6. to - StartingOffset = curRel + Reported(req[t1], got[t1])
  BY <1>4, <1>5, Widths
<1> HIDE DEF to
<1>7. FileInv'
  BY <1>1, <1>3, <1>4, <1>6 DEF FileInv, Share, Seeking, Reading
<1>8. UNCHANGED <<curRel, Pending, Result>>
  BY <1>1, <1>2, <1>3 DEF Result, Pending
<1> QED BY <1>7, <1>8 DEF Fits

LEMMA ReadStoresFit ==
  ASSUME OneCaller, TypeOK, Tame, FileInv, ReadStoreAbs(t1) \/ ReadStoreRel(t1)
  PROVE  Fits
<1>0. t1 \in Threads
  BY DEF OneCaller
<1>1. CASE ReadStoreAbs(t1)
  <2>1. pc[t1] = "readAbs" /\ pc'[t1] = "readRel" /\ UNCHANGED <<req, got, lPos, curRel, ret>>
    BY <1>0, <1>1 DEF ReadStoreAbs, Goto, TypeOK, locals
  <2>2. FileInv'
    BY <2>1 DEF FileInv, Share, Seeking, Reading
  <2>3. UNCHANGED <<curRel, Pending, Result>>
    BY <2>1 DEF Result, Pending
  <2> QED BY <2>2, <2>3 DEF Fits
<1>2. CASE ReadStoreRel(t1)
  <2>1. pc[t1] = "readRel" /\ curRel' = lPos[t1] - StartingOffset /\ Return(t1, got[t1])
        /\ req[t1] \in ReadSizes /\ req[t1] \in Nat
    BY <1>0, <1>2 DEF ReadStoreRel, FileInv, TypeOK, Reading
  <2>2. CASE req[t1] > DwordMod - SectorSize
    BY <2>1, <2>2, ReturnResult DEF Fits, Beside
  <2>3. CASE ~(req[t1] > DwordMod - SectorSize)
    <3>1. got[t1] = Share(req[t1]) /\ curRel' = curRel + got[t1]
      BY <2>1, <2>3, Widths DEF FileInv
    <3> QED BY <2>1, <3>1, ReadReturns DEF Reading
  <2> QED BY <2>2, <2>3
<1> QED BY <1>1, <1>2

LEMMA QueriesFit ==
  ASSUME OneCaller, TypeOK, GetFileSizeEx(t1) \/ Write(t1) \/ (\E low \in BOOLEAN : SeekQueryFails(t1, low))
  PROVE  Fits
<1>1. CASE GetFileSizeEx(t1)
  <2>1. FileInv' /\ Result' = Size /\ UNCHANGED curRel /\ Pending' = File!NoCall /\ Pending = File!NoCall
    BY <1>1, ReturnResult, PendingIs DEF GetFileSizeEx, Size, shared
  <2>2. File!GetSize
    BY <2>1 DEF File!GetSize, File!Answer, Result, Size
  <2> QED BY <2>1, <2>2 DEF Fits, File!Next
<1>2. CASE Write(t1)
  BY <1>2, RefuseFits DEF Write, shared
<1>3. CASE SeekQueryFails(t1, FALSE)
  BY <1>3, RefuseFits DEF SeekQueryFails, SeekFails, shared
<1>4. CASE SeekQueryFails(t1, TRUE)
  <2>1. FileInv'
    BY <1>4, ReturnResult DEF SeekQueryFails, SeekFails
  <2> QED BY <1>4, <2>1 DEF Fits, Beside
<1> QED BY <1>1, <1>2, <1>3, <1>4

----------------------------------------------------------------------------
LEMMA FileStep ==
  ASSUME OneCaller, TypeOK, IOInv, FileInv, [Next]_vars
  PROVE  Fits
<1>0. CASE ~Tame'
  BY <1>0 DEF Fits, FileInv, Beside, Tame
<1> SUFFICES ASSUME Tame' PROVE Fits
  BY <1>0
<1>1. Tame /\ Steady
  BY TameBefore DEF IOInv
<1>2. CASE UNCHANGED vars
  <2>1. UNCHANGED <<curRel, Pending, Result>>
    BY <1>2 DEF vars, Result, Pending
  <2>2. FileInv'
    BY <1>2 DEF FileInv, Tame, Share, RoundsPastEnd, vars
  <2> QED BY <2>1, <2>2 DEF Fits
<1>3. ASSUME NEW m \in Methods, NEW d \in Distances, SetPointerEx(t1, m, d) PROVE Fits
  <2>1. d \in Int
    BY Arguments
  <2> QED BY <1>1, <1>3, <2>1, SeekBeginFits DEF SetPointerEx
<1>4. ASSUME NEW m \in Methods, NEW low \in Longs, NEW high \in Longs, SetPointer(t1, m, low, high) PROVE Fits
  <2>1. Joined(high, low) \in Int
    BY JoinedInt, Arguments
  <2> QED BY <1>1, <1>4, <2>1, SeekBeginFits DEF SetPointer
<1>5. ASSUME NEW m \in Methods, NEW low \in Longs, SetPointerNoHigh(t1, m, low) PROVE Fits
  <2>1. PICK high \in Int : SeekBegin(t1, m, Joined(high, low), TRUE)
    BY <1>5, Arguments DEF SetPointerNoHigh
  <2>2. Joined(high, low) \in Int
    BY JoinedInt, Arguments
  <2> QED BY <1>1, <2>1, <2>2, SeekBeginFits
<1>6. ASSUME NEW n \in ReadSizes, NEW o \in Overlaps \cup {NoOffset}, ReadBegin(t1, n, o) PROVE Fits
  <2>1. o = NoOffset /\ ~RoundsPastEnd(n, curAbs)
    BY <1>6 DEF ReadBegin, Tame
  <2> QED BY <1>1, <1>6, <2>1, ReadBeginFits
<1>7. CASE SeekStep(t1)
  BY <1>1, <1>7, SeekStepFits
<1>8. CASE ReadStep(t1)
  BY <1>1, <1>8, ReadFileFits, ReadSyncFits, ReadStoresFit DEF ReadStep
<1>9. CASE GetFileSizeEx(t1) \/ Write(t1) \/ \E low \in BOOLEAN : SeekQueryFails(t1, low)
  BY <1>9, QueriesFit
<1> QED BY <1>2, <1>3, <1>4, <1>5, <1>6, <1>7, <1>8, <1>9 DEF Next, OneCaller

(* Whatever one caller asks for and whichever OS call fails, the calls of  *)
(* DevBlkSetPointerEx, DevBlkSetPointer and DevBlkRead (windevblk.c:330-   *)
(* 495) do with their arguments what the calls on a file of the            *)
(* partition's bytes do, but for what Beside names.                        *)
THEOREM PartitionIsFile == ASSUME OneCaller PROVE Spec => ImplementsFile
<1>1. Init => FileInv /\ File!Init
  BY DEF OneCaller, Init, FileInv, File!Init, Pending, File!NoCall, Seeking, Reading
<1>2. TypeOK /\ IOInv /\ FileInv /\ [Next]_vars => FileInv'
  BY FileStep DEF Fits
<1>3. TypeOK /\ IOInv /\ FileInv /\ [Next]_vars => [Beside \/ File!Next]_File!vars
  BY FileStep DEF Fits, File!vars, Result, Pending
<1> QED BY <1>1, <1>2, <1>3, TypeCorrect, Inductive, PTL DEF Spec, ImplementsFile
=============================================================================

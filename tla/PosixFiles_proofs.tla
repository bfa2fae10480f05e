--------------------------- MODULE PosixFiles_proofs ---------------------------
(* Proofs about PosixFiles, for one thread and any drives, volumes, paths, *)
(* descriptors, calls and failures: whose each object, OS handle and       *)
(* descriptor is.                                                          *)
EXTENDS MCPosixFiles, DeviceTable_proofs

Frames == [at : Places, path : Paths \cup {Null}, fd : Fds \cup {Null}, obj : Objs \cup {Null}]

(* The CRT calls its own handler only until the shim's is installed.       *)
CrtSound ==
  /\ handler \in {"default", "shim", "program"} /\ installed \in BOOLEAN
  /\ installed => handler # "default"

Kinds ==
  /\ list \in [Ids -> Seq(Objs)] /\ opened \in [Objs -> Openings \cup {Null}]
  /\ osHandles \subseteq OSHandles
  /\ fds \in [Fds -> OSHandles \cup {Null}] /\ given \in [Fds -> Gifts \cup {Null}]
  /\ kept \subseteq Live /\ lost \subseteq Live
  /\ CrtSound
  /\ frame \in [Threads -> Frames]

(* An object is in the list of its entry, in one place, and the entry is   *)
(* one the table leads to.                                                 *)
Listing ==
  /\ \A e \in Ids : \A k, l \in DOMAIN list[e] : list[e][k] = list[e][l] => k = l
  /\ \A e \in Ids : \A k \in DOMAIN list[e] :
       list[e][k] \in Live /\ opened[list[e][k]].entry = e
  /\ \A o \in Live : /\ opened[o].entry \in Stored
                     /\ \E k \in DOMAIN list[opened[o].entry] : list[opened[o].entry][k] = o

(* Objects have OS handles of their own, which are open until the object   *)
(* is about to go.                                                         *)
Leaving(o) == \E t \in Threads : frame[t].at = "unlink" /\ frame[t].obj = o
Handles ==
  /\ \A o, p \in Live : opened[o].handle = opened[p].handle => o = p
  /\ \A o \in Live : opened[o].handle \in osHandles \/ Leaving(o)

(* An object is a descriptor's, a program's, dropped or of a call.         *)
Given(o) == \E fd \in HasFd : given[fd].obj = o
Unowned(o) == ~Given(o) /\ o \notin kept /\ o \notin lost
InCall(t, o) == frame[t].at \in {"wrap", "unlink"} /\ frame[t].fd = Null /\ frame[t].obj = o
Owners ==
  /\ \A fd \in HasFd : given[fd].obj \in Live /\ fds[fd] = opened[given[fd].obj].handle
  /\ \A a, b \in HasFd : given[a].obj = given[b].obj => a = b
  /\ \A o \in Live : /\ Given(o) => o \notin kept /\ o \notin lost
                     /\ o \in kept => o \notin lost
                     /\ Unowned(o) => \E t \in Threads : InCall(t, o)

(* What a call has come to know.                                           *)
Reached == \A t \in Threads :
  /\ frame[t].at \in {"path", "entry"} => frame[t].fd = Null
  /\ frame[t].at = "entry" =>
       IF pc[t] = "idle" THEN ret[t] = Null \/ ret[t] \in Stored \X (0 .. PartSlots - 1)
                         ELSE call[t].api = "open"
  /\ frame[t].at = "wrap" =>
       frame[t].obj \in Live /\ Unowned(frame[t].obj) /\ frame[t].path \in Paths /\ frame[t].fd = Null
  /\ frame[t].at \in {"close", "unlink"} /\ frame[t].fd # Null =>
       frame[t].fd \in HasFd /\ given[frame[t].fd].obj = frame[t].obj
  /\ frame[t].at = "close" /\ frame[t].fd = Null => frame[t].obj \in kept
  /\ frame[t].at = "unlink" /\ frame[t].fd = Null => frame[t].obj \in Live /\ Unowned(frame[t].obj)
  /\ frame[t].at = "abort" => handler = "program"

(* The one thread builds the table once.                                   *)
BuildsOnce ==
  /\ builds <= 1
  /\ \A t \in Threads : pc[t] = "set" => ~inited

(* Arguments and results of the table's calls are by thread.               *)
Locals ==
  /\ call = [t \in Threads |-> call[t]]
  /\ ret = [t \in Threads |-> ret[t]]

(* The inductive invariant.                                                *)
PosixInv ==
  TableInv /\ BuildsOnce /\ Locals /\ Kinds /\ Listing /\ Handles /\ Owners /\ Reached

----------------------------------------------------------------------------
LEMMA Nulls ==
  /\ Null \notin Objs /\ Null \notin OSHandles /\ Null \notin Fds
  /\ Null \notin Openings /\ Null \notin Gifts
BY PosixAssumption DEF PosixAssumption

LEMMA Opened ==
  ASSUME Kinds, NEW o \in Live
  PROVE  /\ o \in Objs /\ opened[o] \in Openings
         /\ opened[o].handle \in OSHandles /\ opened[o].entry \in Ids
<1>1. o \in Objs /\ opened[o] \in Openings
  BY DEF Kinds, Live
<1> QED BY <1>1 DEF Openings

LEMMA Gift ==
  ASSUME Kinds, NEW fd \in HasFd
  PROVE  fd \in Fds /\ given[fd] \in Gifts /\ given[fd].path \in Paths /\ given[fd].obj \in Objs
<1>1. fd \in Fds /\ given[fd] \in Gifts
  BY DEF Kinds, HasFd
<1> QED BY <1>1 DEF Gifts

LEMMA Frame ==
  ASSUME Kinds, NEW t \in Threads
  PROVE  /\ frame[t] \in Frames /\ frame[t].at \in Places /\ frame[t].path \in Paths \cup {Null}
         /\ frame[t].fd \in Fds \cup {Null} /\ frame[t].obj \in Objs \cup {Null}
BY DEF Kinds, Frames

(* A slot of the table that is in use.                                     *)
LEMMA Slot ==
  ASSUME TableInv, NEW n \in Used
  PROVE  n \in Nat /\ table[n] \in Ids /\ table[n] \in Stored
         /\ \A m \in Used : table[m] = table[n] => m = n
<1>1. \A m \in Used : m \in 0 .. Slots - 1 /\ table[m] # Null /\ table[m] \in Ids
  BY DEF Used, TableInv, Types
<1>2. \A m \in Used : table[m] = table[n] => m = n
  BY <1>1 DEF TableInv, InPlace
<1>3. n \in Nat
  BY <1>1, Tables
<1> QED BY <1>1, <1>2, <1>3 DEF Stored

LEMMA Concat ==
  ASSUME NEW S, NEW a \in Seq(S), NEW b \in Seq(S)
  PROVE  /\ a \o b \in Seq(S) /\ Len(a \o b) = Len(a) + Len(b)
         /\ DOMAIN (a \o b) = 1 .. Len(a) + Len(b)
         /\ \A i \in 1 .. Len(a) : (a \o b)[i] = a[i]
         /\ \A i \in Len(a) + 1 .. Len(a) + Len(b) : (a \o b)[i] = b[i - Len(a)]
OBVIOUS

(* The sequence without its k-th element.                                  *)
LEMMA Shorter ==
  ASSUME NEW S, NEW s \in Seq(S), NEW k \in 1 .. Len(s)
  PROVE  /\ Registry!RemoveAt(s, k) \in Seq(S) /\ DOMAIN Registry!RemoveAt(s, k) = 1 .. Len(s) - 1
         /\ \A i \in 1 .. Len(s) - 1 : Registry!RemoveAt(s, k)[i] = IF i < k THEN s[i] ELSE s[i + 1]
<1> DEFINE a == SubSeq(s, 1, k - 1)
           b == SubSeq(s, k + 1, Len(s))
<1>1. /\ a \in Seq(S) /\ Len(a) = k - 1 /\ b \in Seq(S) /\ Len(b) = Len(s) - k
      /\ \A i \in 1 .. k - 1 : a[i] = s[i]
      /\ \A i \in 1 .. Len(s) - k : b[i] = s[k + i]
  OBVIOUS
<1>2. Registry!RemoveAt(s, k) = a \o b
  BY DEF Registry!RemoveAt
<1> HIDE DEF a, b
<1>3. /\ a \o b \in Seq(S) /\ DOMAIN (a \o b) = 1 .. Len(s) - 1
      /\ \A i \in 1 .. k - 1 : (a \o b)[i] = a[i]
      /\ \A i \in k .. Len(s) - 1 : (a \o b)[i] = b[i - (k - 1)]
  BY <1>1, Concat
<1>4. ASSUME NEW i \in 1 .. Len(s) - 1
      PROVE  (a \o b)[i] = IF i < k THEN s[i] ELSE s[i + 1]
  <2>1. CASE i < k
    BY <2>1, <1>1, <1>3
  <2>2. CASE ~(i < k)
    <3>1. i - (k - 1) \in 1 .. Len(s) - k /\ k + (i - (k - 1)) = i + 1 /\ i \in k .. Len(s) - 1
      BY <2>2
    <3> QED BY <2>2, <3>1, <1>1, <1>3
  <2> QED BY <2>1, <2>2
<1> QED BY <1>2, <1>3, <1>4

(* The search by OS handle finds the one object that has it.               *)
LEMMA Found ==
  ASSUME PosixInv, NEW o \in Live
  PROVE  FromDiskHandle(opened[o].handle) = o
<1> DEFINE h == opened[o].handle
           e == opened[o].entry
<1>1. PICK n \in Used : table[n] = e
  BY DEF PosixInv, Listing, Stored
<1>2. PICK k \in DOMAIN list[e] : list[e][k] = o
  BY DEF PosixInv, Listing
<1>3. e \in Ids /\ list[e] \in Seq(Objs) /\ k \in Nat /\ n \in Nat
  BY <1>1, Opened, Slot DEF PosixInv, Kinds
<1>4. <<n, k>> \in Hits(h)
  BY <1>1, <1>2 DEF Hits
<1>5. ASSUME NEW np \in Hits(h) PROVE np = <<n, k>>
  <2>0. PICK m \in Used : np \in {m} \X DOMAIN list[table[m]]
    BY DEF Hits
  <2>1. PICK l \in DOMAIN list[table[m]] : np = <<m, l>>
    BY <2>0
  <2>2. opened[list[table[m]][l]].handle = h
    BY <2>1 DEF Hits
  <2>3. table[m] \in Ids
    BY Slot DEF PosixInv
  <2>4. list[table[m]][l] = o /\ table[m] = e
    BY <2>1, <2>2, <2>3 DEF PosixInv, Listing, Handles
  <2>5. m = n
    BY <2>4, <1>1, Slot DEF PosixInv
  <2>6. l = k
    BY <2>4, <1>2, <1>3, <2>1 DEF PosixInv, Listing
  <2> QED BY <2>1, <2>5, <2>6
<1>6. Hits(h) = {<<n, k>>}
  BY <1>4, <1>5
<1>7. First(Hits(h)) = <<n, k>>
  BY <1>6, <1>3 DEF First
<1> QED BY <1>6, <1>7, <1>1, <1>2 DEF FromDiskHandle

LEMMA Home == ASSUME PosixInv PROVE LeadHome
<1> SUFFICES ASSUME NEW fd \in HasFd PROVE Behind(fd) = given[fd].obj
  BY DEF LeadHome
<1>1. given[fd].obj \in Live /\ fds[fd] = opened[given[fd].obj].handle
  BY DEF PosixInv, Owners
<1>2. fds[fd] # Null
  BY <1>1, Opened, Nulls DEF PosixInv
<1> QED BY <1>1, <1>2, Found DEF Behind

----------------------------------------------------------------------------
(* The steps of the table's calls.                                         *)
Called(t) == UNCHANGED vars \/ (\E c : Begin(t, c)) \/ Continue(t)

LEMMA TableKept ==
  ASSUME TableInv, NEW t \in Threads, Called(t)
  PROVE  TableInv'
BY StaysKept, StepsKeep DEF Called

LEMMA OnceKept ==
  ASSUME OneThread, TableInv, BuildsOnce, NEW t \in Threads, Called(t)
  PROVE  BuildsOnce'
<1>0. pc \in [Threads -> Labels]
  BY DEF TableInv, Types
<1>1. CASE InitSet(t)
  <2>1. pc[t] = "set" /\ ~inited
    BY <1>1 DEF InitSet, BuildsOnce
  <2>2. builds = 0 /\ builds' = 1
    BY <2>1, <1>1 DEF InitSet, TableInv, Single
  <2>3. \A u \in Threads : u = t /\ pc'[u] = "classDevs"
    BY <1>0, <1>1 DEF InitSet, Goto, OneThread
  <2> QED BY <2>2, <2>3 DEF BuildsOnce
<1>2. CASE ~InitSet(t)
  <2>1. builds' = builds /\ inited' = inited
    BY <1>2 DEF Called, Begin, Continue, InitCheck, BuildStep, GetClassDevs, EnumDeviceInterfaces,
       GetInterfaceDetail, OpenDevice, GetDeviceNumber, QueryDevice, GetLayout, Store, Exit,
       CountDrives, Answer, Fails, vars, shared
  <2>2. UNCHANGED pc \/ (\E l : Goto(t, l) /\ (l = "set" => ~inited))
    BY <1>2 DEF Called, Begin, Continue, InitCheck, BuildStep, GetClassDevs, EnumDeviceInterfaces,
       GetInterfaceDetail, OpenDevice, GetDeviceNumber, QueryDevice, GetLayout, Store, Exit,
       CountDrives, Answer, Fails, Succeeds, Looked, vars
  <2>3. \A u \in Threads : pc'[u] = "set" => pc[u] = "set" \/ ~inited
    BY <1>0, <2>2 DEF Goto
  <2> QED BY <2>1, <2>3 DEF BuildsOnce
<1> QED BY <1>1, <1>2

LEMMA LocalsKept ==
  ASSUME Locals, NEW t \in Threads, Called(t)
  PROVE  Locals'
<1>1. UNCHANGED call \/ \E c : call' = [call EXCEPT ![t] = c]
  BY DEF Called, Begin, Continue, InitCheck, InitSet, BuildStep, GetClassDevs,
     EnumDeviceInterfaces, GetInterfaceDetail, OpenDevice, GetDeviceNumber, QueryDevice,
     GetLayout, Store, Exit, CountDrives, Answer, Fails, Succeeds, vars
<1>2. UNCHANGED ret \/ \E r : ret' = [ret EXCEPT ![t] = r]
  BY DEF Called, Begin, Continue, InitCheck, InitSet, BuildStep, GetClassDevs,
     EnumDeviceInterfaces, GetInterfaceDetail, OpenDevice, GetDeviceNumber, QueryDevice,
     GetLayout, Store, Exit, CountDrives, Answer, Fails, Succeeds, vars
<1> QED BY <1>1, <1>2 DEF Locals

(* Slots in use stay as they are: nothing is stored twice.                 *)
LEMMA UsedKept ==
  ASSUME TableInv, BuildsOnce, NEW t \in Threads, Called(t)
  PROVE  \A n \in Used : n \in Used' /\ table'[n] = table[n]
<1>1. CASE Store(t)
  <2> DEFINE m == Present[index[t]].number
  <2>1. CASE Storable(m)
    <3>1. table[m] = Null /\ table' = [table EXCEPT ![m] = raw[t]]
      BY <1>1, <2>1, SlotFree DEF Store, BuildsOnce
    <3> QED BY <3>1 DEF Used, TableInv, Types
  <2>2. CASE ~Storable(m)
    BY <1>1, <2>2 DEF Store, Used
  <2> QED BY <2>1, <2>2
<1>2. CASE ~Store(t)
  <2>1. table' = table
    BY <1>2 DEF Called, Begin, Continue, InitCheck, InitSet, BuildStep, GetClassDevs,
       EnumDeviceInterfaces, GetInterfaceDetail, OpenDevice, GetDeviceNumber, QueryDevice,
       GetLayout, Exit, CountDrives, Answer, Fails, vars, shared
  <2> QED BY <2>1 DEF Used
<1> QED BY <1>1, <1>2

LEMMA StoredGrows ==
  ASSUME TableInv, BuildsOnce, NEW t \in Threads, Called(t)
  PROVE  Stored \subseteq Stored'
BY UsedKept DEF Stored

(* What a call finds for DevBlkOpen is in the table.                       *)
LEMMA Opens ==
  ASSUME Locals, NEW t \in Threads, Answer(t), call[t].api = "open"
  PROVE  ret'[t] = Null \/ ret'[t] \in Stored \X (0 .. PartSlots - 1)
<1> DEFINE n == call[t].number
           p == call[t].part
<1>1. ret'[t] = Result(t, call[t])
  BY DEF Answer, Locals
<1>2. Result(t, call[t]) = IF Entry(n, p) = Null THEN Null ELSE <<table[n], p>>
  BY DEF Result
<1>3. Entry(n, p) # Null => n \in Used /\ p \in 0 .. PartSlots - 1
  BY DEF Entry
<1> QED BY <1>1, <1>2, <1>3 DEF Stored

----------------------------------------------------------------------------
(* A step that leaves the objects and the descriptors alone, and no call   *)
(* that is about to give an object away or to free it.                     *)
Quiet ==
  /\ UNCHANGED <<list, opened, fds, given, kept, lost>>
  /\ osHandles \subseteq osHandles' /\ osHandles' \subseteq OSHandles
  /\ CrtSound'
  /\ frame' \in [Threads -> Frames]
  /\ \A t \in Threads : frame[t].at \in {"wrap", "unlink"} => frame'[t] = frame[t]
  /\ Stored \subseteq Stored'

LEMMA QuietKeeps ==
  ASSUME PosixInv, Quiet
  PROVE  Kinds' /\ Listing' /\ Handles' /\ Owners' /\ \A o : Unowned(o)' = Unowned(o)
<1>1. Live' = Live /\ HasFd' = HasFd
  BY DEF Quiet, Live, HasFd
<1>2. \A o : Given(o)' = Given(o)
  BY <1>1 DEF Quiet, Given
<1>3. \A o : Unowned(o)' = Unowned(o)
  BY <1>2 DEF Quiet, Unowned
<1>4. Kinds'
  BY <1>1 DEF PosixInv, Kinds, Quiet
<1>5. Listing'
  BY <1>1 DEF PosixInv, Listing, Quiet
<1>6. Handles'
  <2>1. \A o : Leaving(o) => Leaving(o)'
    BY DEF Quiet, Leaving
  <2> QED BY <1>1, <2>1 DEF PosixInv, Handles, Quiet
<1>7. Owners'
  <2>1. \A t \in Threads, o \in Live : InCall(t, o) => InCall(t, o)'
    BY DEF Quiet, InCall
  <2> QED BY <1>1, <1>2, <1>3, <2>1 DEF PosixInv, Owners, Quiet
<1> QED BY <1>3, <1>4, <1>5, <1>6, <1>7

LEMMA QuietStep ==
  ASSUME OneThread, PosixInv, NEW t \in Threads, Called(t), Quiet, Reached'
  PROVE  PosixInv'
BY TableKept, OnceKept, LocalsKept, QuietKeeps DEF PosixInv

LEMMA Rests == Rest \in Frames
BY DEF Rest, Frames, Places

(* A step that gives the frame of the thread another value.                *)
LEMMA Framed ==
  ASSUME Kinds, NEW t \in Threads, NEW f \in Frames, frame' = [frame EXCEPT ![t] = f]
  PROVE  frame' \in [Threads -> Frames] /\ frame'[t] = f
BY DEF Kinds

LEMMA Placed ==
  ASSUME Kinds, NEW t \in Threads, NEW place \in Places, frame' = [frame EXCEPT ![t].at = place]
  PROVE  /\ frame' \in [Threads -> Frames] /\ frame'[t].at = place
         /\ frame'[t].path = frame[t].path /\ frame'[t].fd = frame[t].fd
         /\ frame'[t].obj = frame[t].obj
BY DEF Kinds, Frames

(* A call that returns, and what it leaves alone.                          *)
LEMMA LeaveKeeps ==
  ASSUME OneThread, PosixInv, NEW t \in Threads, Called(t),
         UNCHANGED <<list, opened, fds, given, kept, lost>>,
         osHandles \subseteq osHandles', osHandles' \subseteq OSHandles,
         CrtSound', frame' = [frame EXCEPT ![t] = Rest],
         frame[t].at \notin {"wrap", "unlink"}
  PROVE  PosixInv'
<1>1. frame' \in [Threads -> Frames] /\ frame'[t] = Rest
  BY Rests, Framed DEF PosixInv
<1>2. Quiet
  BY <1>1, StoredGrows DEF Quiet, OneThread, PosixInv
<1>3. Reached'
  BY <1>1 DEF Reached, OneThread, Rest
<1> QED BY <1>2, <1>3, QuietStep

LEMMA DevblkOpenKeeps ==
  ASSUME OneThread, PosixInv, NEW t \in Threads, NEW path \in Paths, DevblkOpen(t, path)
  PROVE  PosixInv'
<1>0. /\ frame[t].at = "idle" /\ UNCHANGED <<list, opened, osHandles, fds, given, kept, lost, handler, installed>>
      /\ CrtSound' /\ osHandles \subseteq OSHandles
  BY DEF DevblkOpen, Resting, Rest, registry, PosixInv, Kinds, crt, CrtSound
<1>1. CASE path = Null
  BY <1>0, <1>1, LeaveKeeps DEF DevblkOpen, Leave, Called
<1>2. CASE path # Null
  <2> DEFINE f == [Rest EXCEPT !.at = "path", !.path = path]
  <2>1. f \in Frames /\ f.at = "path" /\ f.fd = Null
    BY Rests DEF Frames, Rest, Places
  <2> HIDE DEF f
  <2>2. Called(t) /\ frame' = [frame EXCEPT ![t] = f]
    BY <1>2 DEF DevblkOpen, Enter, Called, f
  <2>3. frame' \in [Threads -> Frames] /\ frame'[t].at = "path" /\ frame'[t].fd = Null
    BY <2>1, <2>2, Framed DEF PosixInv
  <2>4. Quiet
    BY <1>0, <2>2, <2>3, StoredGrows DEF Quiet, OneThread, PosixInv
  <2>5. Reached'
    BY <2>3 DEF Reached, OneThread
  <2> QED BY <2>2, <2>4, <2>5, QuietStep
<1> QED BY <1>1, <1>2

(* DevBlkOpen begins, for a program or for devblk_open.                    *)
LEMMA OpensKeeps ==
  ASSUME OneThread, PosixInv, NEW t \in Threads, NEW n, NEW p,
         Begin(t, [api |-> "open", number |-> n, part |-> p]),
         UNCHANGED <<list, opened, osHandles, fds, given, kept, lost, handler, installed>>,
         frame' \in [Threads -> Frames], frame'[t].at = "entry", frame'[t].fd = Null,
         frame[t].at \notin {"wrap", "unlink"}
  PROVE  PosixInv'
<1>1. Called(t) /\ pc'[t] # "idle" /\ call'[t].api = "open"
  BY DEF Called, Begin, Goto, PosixInv, Locals, TableInv, Types
<1>2. Quiet
  BY <1>1, StoredGrows DEF Quiet, OneThread, PosixInv, Kinds, crt, CrtSound
<1>3. Reached'
  BY <1>1 DEF Reached, OneThread
<1> QED BY <1>1, <1>2, <1>3, QuietStep

LEMMA LookedUpKeeps ==
  ASSUME OneThread, PosixInv, NEW t \in Threads, LookedUp(t)
  PROVE  PosixInv'
<1>0. /\ frame[t].at = "path" /\ UNCHANGED <<list, opened, osHandles, fds, given, kept, lost, handler, installed>>
      /\ CrtSound' /\ osHandles \subseteq OSHandles
  BY DEF LookedUp, registry, PosixInv, Kinds, crt, CrtSound
<1>1. CASE ret[t] = Null
  BY <1>0, <1>1, LeaveKeeps DEF LookedUp, Leave, Called
<1>2. CASE ret[t] # Null
  <2>1. /\ Begin(t, [api |-> "open", number |-> ret[t][1], part |-> ret[t][2]])
        /\ frame' = [frame EXCEPT ![t].at = "entry"]
    BY <1>2 DEF LookedUp, Reach
  <2>2. frame' \in [Threads -> Frames] /\ frame'[t].at = "entry" /\ frame'[t].fd = Null
    BY <1>0, <2>1, Placed DEF PosixInv, Places, Reached
  <2> QED BY <1>0, <2>1, <2>2, OpensKeeps
<1> QED BY <1>1, <1>2

LEMMA DevBlkOpenKeeps ==
  ASSUME OneThread, PosixInv, NEW t \in Threads, NEW n, NEW p, DevBlkOpen(t, n, p)
  PROVE  PosixInv'
<1> DEFINE f == [Rest EXCEPT !.at = "entry"]
<1>1. f \in Frames /\ f.at = "entry" /\ f.fd = Null
  BY Rests DEF Frames, Rest, Places
<1> HIDE DEF f
<1>2. /\ frame[t].at = "idle" /\ UNCHANGED <<list, opened, osHandles, fds, given, kept, lost, handler, installed>>
      /\ Begin(t, [api |-> "open", number |-> n, part |-> p])
      /\ frame' = [frame EXCEPT ![t] = f]
  BY DEF DevBlkOpen, Resting, Rest, Enter, registry, f, crt, CrtSound
<1>3. frame' \in [Threads -> Frames] /\ frame'[t].at = "entry" /\ frame'[t].fd = Null
  BY <1>1, <1>2, Framed DEF PosixInv
<1> QED BY <1>2, <1>3, OpensKeeps

LEMMA QueryKeeps ==
  ASSUME OneThread, PosixInv, NEW t \in Threads, NEW c, Query(t, c)
  PROVE  PosixInv'
<1>1. /\ frame[t].at = "idle" /\ UNCHANGED <<list, opened, osHandles, fds, given, kept, lost, handler, installed>>
      /\ CrtSound' /\ osHandles \subseteq OSHandles
      /\ Called(t) /\ frame' = [frame EXCEPT ![t] = Rest]
  BY DEF Query, Resting, Rest, Enter, registry, Called, PosixInv, Kinds, crt, CrtSound
<1> QED BY <1>1, LeaveKeeps

(* msvc_install_handler_once leaves no default handler.                    *)
LEMMA InstallKeeps ==
  ASSUME CrtSound, InstallHandlerOnce
  PROVE  CrtSound' /\ handler' \in {"shim", "program"}
BY DEF CrtSound, InstallHandlerOnce, crt

(* A bad descriptor that ends the process.                                 *)
LEMMA EndKeeps ==
  ASSUME OneThread, PosixInv, NEW t \in Threads, UNCHANGED vars, frame[t].at = "idle",
         UNCHANGED <<list, opened, osHandles, fds, given, kept, lost>>,
         CrtSound', handler' = "program", frame' = [frame EXCEPT ![t].at = "abort"]
  PROVE  PosixInv'
<1>1. frame' \in [Threads -> Frames] /\ frame'[t].at = "abort"
  BY Placed DEF PosixInv, Places
<1>2. Called(t)
  BY DEF Called
<1>3. Quiet
  BY <1>1, <1>2, StoredGrows DEF Quiet, OneThread, PosixInv, Kinds
<1>4. Reached'
  BY <1>1 DEF Reached, OneThread
<1> QED BY <1>2, <1>3, <1>4, QuietStep

LEMMA FstatKeeps ==
  ASSUME OneThread, PosixInv, NEW t \in Threads, NEW fd \in Fds, DevblkFstat(t, fd)
  PROVE  PosixInv'
<1>1. /\ frame[t].at = "idle" /\ UNCHANGED <<list, opened, osHandles, fds, given, kept, lost>>
      /\ UNCHANGED vars /\ Called(t) /\ osHandles \subseteq OSHandles
  BY DEF DevblkFstat, Resting, Rest, registry, Called, PosixInv, Kinds
<1>2. CrtSound' /\ handler' \in {"shim", "program"}
  BY InstallKeeps DEF DevblkFstat, PosixInv, Kinds
<1>3. CASE EndsProcess(fd)
  <2>1. frame' = [frame EXCEPT ![t].at = "abort"] /\ handler' = "program"
    BY <1>2, <1>3 DEF DevblkFstat, Reach, EndsProcess
  <2> QED BY <1>1, <1>2, <2>1, EndKeeps
<1>4. CASE ~EndsProcess(fd)
  <2>1. frame' = [frame EXCEPT ![t] = Rest]
    BY <1>4 DEF DevblkFstat, Leave
  <2> QED BY <1>1, <1>2, <2>1, LeaveKeeps
<1> QED BY <1>3, <1>4

LEMMA HandlerKeeps ==
  ASSUME OneThread, PosixInv, NEW t \in Threads, ReplaceHandler(t)
  PROVE  PosixInv'
<1>1. /\ frame[t].at = "idle" /\ UNCHANGED <<list, opened, osHandles, fds, given, kept, lost, frame>>
      /\ Called(t) /\ handler' = "program"
  BY DEF ReplaceHandler, Resting, Rest, registry, Called
<1>2. CrtSound'
  BY <1>1 DEF ReplaceHandler, CrtSound, PosixInv, Kinds
<1>3. Quiet
  BY <1>1, <1>2, StoredGrows DEF Quiet, OneThread, PosixInv, Kinds
<1>4. Reached'
  BY <1>1 DEF Reached, OneThread
<1> QED BY <1>1, <1>3, <1>4, QuietStep

(* A close of an object the thread may close begins.                       *)
LEMMA ClosesKeeps ==
  ASSUME OneThread, PosixInv, NEW t \in Threads, UNCHANGED vars,
         UNCHANGED <<list, opened, osHandles, fds, given, kept, lost>>,
         CrtSound', frame[t].at = "idle",
         NEW o \in Live, NEW fd \in Fds \cup {Null},
         IF fd = Null THEN o \in kept ELSE fd \in HasFd /\ given[fd].obj = o,
         NEW f \in Frames, f.at = "close", f.fd = fd, f.obj = o,
         frame' = [frame EXCEPT ![t] = f]
  PROVE  PosixInv'
<1>1. frame' \in [Threads -> Frames] /\ frame'[t] = f
  BY Framed DEF PosixInv
<1>2. Called(t)
  BY DEF Called
<1>3. Quiet
  BY <1>1, <1>2, StoredGrows DEF Quiet, OneThread, PosixInv, Kinds
<1>4. HasFd' = HasFd
  BY DEF HasFd
<1>5. Reached'
  BY <1>1, <1>4 DEF Reached, OneThread
<1> QED BY <1>2, <1>3, <1>5, QuietStep

LEMMA DevblkCloseKeeps ==
  ASSUME OneThread, PosixInv, NEW t \in Threads, NEW fd \in Fds, DevblkClose(t, fd)
  PROVE  PosixInv'
<1>0. /\ frame[t].at = "idle" /\ UNCHANGED vars /\ Called(t)
      /\ UNCHANGED <<list, opened, osHandles, fds, given, kept, lost>>
      /\ osHandles \subseteq OSHandles
  BY DEF DevblkClose, Resting, Rest, registry, Called, PosixInv, Kinds
<1>h. CrtSound' /\ handler' \in {"shim", "program"}
  BY InstallKeeps DEF DevblkClose, PosixInv, Kinds
<1>e. CASE EndsProcess(fd)
  <2>1. frame' = [frame EXCEPT ![t].at = "abort"] /\ handler' = "program"
    BY <1>h, <1>e DEF DevblkClose, Reach, EndsProcess
  <2> QED BY <1>0, <1>h, <2>1, EndKeeps
<1>1. CASE ~EndsProcess(fd) /\ Behind(fd) = Null
  BY <1>0, <1>h, <1>1, LeaveKeeps DEF DevblkClose, Leave
<1>2. CASE ~EndsProcess(fd) /\ Behind(fd) # Null
  <2>1. fd \in HasFd
    BY <1>2 DEF DevblkClose, Passable, Behind, HasFd
  <2>2. Behind(fd) = given[fd].obj /\ Behind(fd) \in Live
    BY <2>1, Home DEF LeadHome, PosixInv, Owners
  <2>3. fd # Null
    BY Nulls
  <2> DEFINE f == [Rest EXCEPT !.at = "close", !.fd = fd, !.obj = Behind(fd)]
  <2>4. f \in Frames /\ f.at = "close" /\ f.fd = fd /\ f.obj = Behind(fd)
    BY <2>2, Rests DEF Frames, Rest, Places, Live
  <2> HIDE DEF f
  <2>5. frame' = [frame EXCEPT ![t] = f]
    BY <1>2 DEF DevblkClose, Enter, f
  <2> QED BY <1>0, <1>h, <2>1, <2>2, <2>3, <2>4, <2>5, ClosesKeeps
<1> QED BY <1>e, <1>1, <1>2

LEMMA DevBlkCloseKeeps ==
  ASSUME OneThread, PosixInv, NEW t \in Threads, NEW o \in Objs, DevBlkClose(t, o)
  PROVE  PosixInv'
<1>1. /\ frame[t].at = "idle" /\ UNCHANGED vars /\ o \in kept /\ o \in Live
      /\ UNCHANGED <<list, opened, osHandles, fds, given, kept, lost>>
      /\ CrtSound'
  BY DEF DevBlkClose, Resting, Rest, registry, PosixInv, Kinds, crt, CrtSound
<1> DEFINE f == [Rest EXCEPT !.at = "close", !.obj = o]
<1>2. f \in Frames /\ f.at = "close" /\ f.fd = Null /\ f.obj = o
  BY Rests DEF Frames, Rest, Places
<1> HIDE DEF f
<1>3. frame' = [frame EXCEPT ![t] = f]
  BY DEF DevBlkClose, Enter, f
<1> QED BY <1>1, <1>2, <1>3, ClosesKeeps

(* A step of the table's call, below a call of this layer.                 *)
LEMMA BelowKeeps ==
  ASSUME OneThread, PosixInv, NEW t \in Threads, Below(t)
  PROVE  PosixInv'
<1>1. /\ Called(t) /\ Continue(t)
      /\ UNCHANGED <<list, opened, osHandles, fds, given, kept, lost, handler, installed, frame>>
  BY DEF Below, Called, posix, registry, crt, CrtSound
<1>2. Quiet
  BY <1>1, StoredGrows DEF Quiet, PosixInv, Kinds, crt, CrtSound
<1>3. HasFd' = HasFd /\ Live' = Live /\ \A o : Unowned(o)' = Unowned(o)
  BY <1>1, <1>2, QuietKeeps DEF HasFd, Live
<1>4. pc[t] # "idle"
  BY <1>1 DEF Continue, InitCheck, InitSet, BuildStep, GetClassDevs, EnumDeviceInterfaces,
     GetInterfaceDetail, OpenDevice, GetDeviceNumber, QueryDevice, GetLayout, Store, Exit,
     CountDrives, Answer
<1>5. ASSUME frame[t].at = "entry"
      PROVE  IF pc'[t] = "idle" THEN ret'[t] = Null \/ ret'[t] \in Stored' \X (0 .. PartSlots - 1)
                                ELSE call'[t].api = "open"
  <2>0. call[t].api = "open" /\ Stored \subseteq Stored'
    BY <1>4, <1>5, <1>2 DEF PosixInv, Reached, Quiet
  <2>1. CASE Answer(t)
    <3>1. pc'[t] = "idle"
      BY <2>1 DEF Answer, Goto, PosixInv, TableInv, Types
    <3> QED BY <2>0, <2>1, <3>1, Opens DEF PosixInv
  <2>2. CASE ~Answer(t)
    <3>1. call' = call
      BY <1>1, <2>2 DEF Continue, InitCheck, InitSet, BuildStep, GetClassDevs, EnumDeviceInterfaces,
         GetInterfaceDetail, OpenDevice, GetDeviceNumber, QueryDevice, GetLayout, Store, Exit,
         CountDrives, Fails, Succeeds
    <3>2. \E l : Goto(t, l) /\ l # "idle"
      BY <1>1, <2>2 DEF Continue, InitCheck, InitSet, BuildStep, GetClassDevs, EnumDeviceInterfaces,
         GetInterfaceDetail, OpenDevice, GetDeviceNumber, QueryDevice, GetLayout, Store, Exit,
         CountDrives, Fails, Succeeds, Looked
    <3>3. pc'[t] # "idle"
      BY <3>2 DEF Goto, PosixInv, TableInv, Types
    <3> QED BY <2>0, <3>1, <3>3
  <2> QED BY <2>1, <2>2
<1>6. Reached'
  <2>1. frame' = frame /\ kept' = kept /\ lost' = lost /\ given' = given /\ handler' = handler
    BY <1>1
  <2>2. \A u \in Threads : frame[u].at = "entry" =>
          IF pc'[u] = "idle" THEN ret'[u] = Null \/ ret'[u] \in Stored' \X (0 .. PartSlots - 1)
                             ELSE call'[u].api = "open"
    BY <1>5 DEF OneThread
  <2> HIDE DEF Called
  <2> QED BY <2>1, <2>2, <1>3 DEF PosixInv, Reached
<1> QED BY <1>1, <1>2, <1>6, QuietStep

----------------------------------------------------------------------------
(* While no object is about to go all OS handles are open.                 *)
LEMMA AllOpen ==
  ASSUME OneThread, PosixInv, NEW t \in Threads, frame[t].at # "unlink"
  PROVE  \A o \in Live : opened[o].handle \in osHandles /\ ~Leaving(o)
BY DEF PosixInv, Handles, Leaving, OneThread

(* While no call has an object everything is owned.                        *)
LEMMA AllOwned ==
  ASSUME OneThread, PosixInv, NEW t \in Threads, NEW o \in Live, Unowned(o)
  PROVE  InCall(t, o)
BY DEF PosixInv, Owners, OneThread

LEMMA CloseHandleKeeps ==
  ASSUME OneThread, PosixInv, NEW t \in Threads, CloseHandle(t)
  PROVE  PosixInv'
<1> SUFFICES ASSUME NEW o, o = frame[t].obj, NEW fd, fd = frame[t].fd PROVE PosixInv'
  OBVIOUS
<1>0. /\ frame[t].at = "close" /\ UNCHANGED vars /\ Called(t)
      /\ UNCHANGED <<list, opened, fds, given, lost, handler, installed>>
  BY DEF CloseHandle, Called, crt, CrtSound
<1>1. CASE frame' = [frame EXCEPT ![t] = Rest] /\ UNCHANGED <<osHandles, kept>>
  BY <1>0, <1>1, LeaveKeeps DEF PosixInv, Kinds, crt, CrtSound
<1>2. CASE ~(frame' = [frame EXCEPT ![t] = Rest] /\ UNCHANGED <<osHandles, kept>>)
  <2>1. /\ osHandles' = osHandles \ {opened[o].handle}
        /\ kept' = IF fd = Null THEN kept \ {o} ELSE kept
        /\ frame' = [frame EXCEPT ![t].at = "unlink"]
    BY <1>2 DEF CloseHandle, Leave, Reach
  <2>2. /\ frame' \in [Threads -> Frames] /\ frame'[t].at = "unlink"
        /\ frame'[t].fd = fd /\ frame'[t].obj = o
    BY <2>1, Placed DEF PosixInv, Places
  <2>3. o \in Live /\ (fd # Null => fd \in HasFd /\ Given(o)) /\ (fd = Null => o \in kept)
    BY <1>0 DEF PosixInv, Reached, Owners, Kinds, Given
  <2>4. Live' = Live /\ HasFd' = HasFd /\ \A p : Given(p)' = Given(p)
    BY <1>0 DEF Live, HasFd, Given
  <2>5. \A p : Unowned(p)' = (Unowned(p) \/ (fd = Null /\ p = o /\ ~Given(o) /\ o \notin lost))
    BY <1>0, <2>1, <2>4 DEF Unowned
  <2>6. Kinds'
    BY <1>0, <2>1, <2>2, <2>4 DEF PosixInv, Kinds, crt, CrtSound
  <2>7. Listing'
    BY <1>0, <2>4, StoredGrows DEF PosixInv, Listing
  <2>8. Handles'
    <3>1. \A p \in Live : p # o => opened[p].handle \in osHandles'
      BY <1>0, <2>1, <2>3, AllOpen DEF PosixInv, Handles
    <3>2. Leaving(o)'
      BY <2>2 DEF Leaving
    <3> QED BY <1>0, <2>4, <3>1, <3>2 DEF PosixInv, Handles
  <2>9. Owners'
    <3>1. \A p \in Live : ~Unowned(p)
      BY <1>0, AllOwned DEF InCall
    <3>2. \A p \in Live : Unowned(p)' => p = o /\ fd = Null
      BY <2>5, <3>1
    <3>3. fd = Null => InCall(t, o)'
      BY <2>2 DEF InCall
    <3> QED BY <1>0, <2>1, <2>4, <3>2, <3>3 DEF PosixInv, Owners
  <2>10. Reached'
    <3>1. fd = Null => Unowned(o)'
      BY <2>3, <2>5 DEF PosixInv, Owners
    <3> QED BY <1>0, <2>2, <2>3, <2>4, <3>1 DEF PosixInv, Reached, OneThread
  <2> QED BY <1>0, <2>6, <2>7, <2>8, <2>9, <2>10, TableKept, OnceKept, LocalsKept DEF PosixInv
<1> QED BY <1>1, <1>2

LEMMA WrapKeeps ==
  ASSUME OneThread, PosixInv, NEW t \in Threads, Wrap(t)
  PROVE  PosixInv'
<1> DEFINE o == frame[t].obj
           h == opened[o].handle
           gift == [path |-> frame[t].path, obj |-> o]
<1>0. /\ frame[t].at = "wrap" /\ UNCHANGED vars /\ Called(t)
      /\ UNCHANGED <<list, opened, osHandles, kept, handler, installed>>
      /\ frame' = [frame EXCEPT ![t] = Rest]
  BY DEF Wrap, Called, registry, Leave, crt, CrtSound
<1>1. frame' \in [Threads -> Frames] /\ frame'[t] = Rest
  BY <1>0, Rests, Framed DEF PosixInv
<1>2. o \in Live /\ Unowned(o) /\ gift \in Gifts /\ h \in OSHandles
  BY <1>0, Opened DEF PosixInv, Reached, Gifts, Live
<1>3. Live' = Live
  BY <1>0 DEF Live
<1>4. Listing' /\ Handles'
  <2>1. Listing'
    BY <1>0, <1>3, StoredGrows DEF PosixInv, Listing
  <2>2. Handles'
    BY <1>0, <1>3, AllOpen DEF PosixInv, Handles
  <2> QED BY <2>1, <2>2
<1>5. Reached'
  BY <1>1 DEF Reached, OneThread, Rest
<1>6. \A p \in Live : Unowned(p) => p = o
  BY AllOwned DEF InCall
<1>7. Kinds' /\ Owners'
  <2>1. CASE lost' = lost \cup {o} /\ UNCHANGED <<fds, given>>
    <3>1. HasFd' = HasFd /\ \A p : Given(p)' = Given(p)
      BY <2>1 DEF HasFd, Given
    <3>2. Kinds'
      BY <1>0, <1>1, <1>2, <1>3, <2>1 DEF PosixInv, Kinds, crt, CrtSound
    <3>3. \A p \in Live : ~Unowned(p)'
      BY <1>6, <2>1, <3>1, <1>0 DEF Unowned
    <3> QED BY <1>0, <1>2, <1>3, <2>1, <3>1, <3>2, <3>3 DEF PosixInv, Owners, Unowned
  <2>2. ASSUME NEW fd \in Fds, fds[fd] = Null, fds' = [fds EXCEPT ![fd] = h],
               given' = [given EXCEPT ![fd] = gift], UNCHANGED lost
        PROVE  Kinds' /\ Owners'
    <3>1. fd \notin HasFd
      <4>1. \A a \in HasFd : fds[a] \in OSHandles
        BY Opened DEF PosixInv, Owners
      <4> QED BY <4>1, <2>2, Nulls
    <3>2. Kinds'
      BY <1>0, <1>1, <1>2, <1>3, <2>2 DEF PosixInv, Kinds, crt, CrtSound
    <3>3. /\ given'[fd] = gift /\ fds'[fd] = h
          /\ \A a \in Fds : a # fd => given'[a] = given[a] /\ fds'[a] = fds[a]
      BY <2>2 DEF PosixInv, Kinds
    <3>4. HasFd' = HasFd \cup {fd}
      BY <3>3, <1>2, Nulls DEF HasFd
    <3>5. gift.obj = o
      OBVIOUS
    <3> HIDE DEF gift, h
    <3>6. HasFd \subseteq Fds
      BY DEF HasFd
    <3>7. \A p : Given(p)' = (Given(p) \/ p = o)
      BY <3>1, <3>3, <3>4, <3>5, <3>6 DEF Given
    <3>8. \A p \in Live : ~Unowned(p)'
      BY <1>6, <2>2, <3>7, <1>0 DEF Unowned
    <3>9. \A a \in HasFd' : given'[a].obj \in Live /\ fds'[a] = opened[given'[a].obj].handle
      BY <1>2, <3>1, <3>3, <3>4, <3>5, <3>6 DEF PosixInv, Owners, h
    <3>10. \A a, b \in HasFd' : given'[a].obj = given'[b].obj => a = b
      BY <1>2, <3>1, <3>3, <3>4, <3>5, <3>6 DEF PosixInv, Owners, Unowned, Given
    <3> QED BY <1>0, <1>2, <1>3, <2>2, <3>2, <3>7, <3>8, <3>9, <3>10 DEF PosixInv, Owners, Unowned
  <2> QED BY <2>1, <2>2 DEF Wrap
<1> QED BY <1>0, <1>4, <1>5, <1>7, TableKept, OnceKept, LocalsKept DEF PosixInv

(* An object leaves its list.                                              *)
LEMMA UnlinkKeeps ==
  ASSUME OneThread, PosixInv, NEW t \in Threads, Unlink(t)
  PROVE  PosixInv'
<1> SUFFICES ASSUME NEW o, o = frame[t].obj, NEW fd, fd = frame[t].fd,
                    NEW e, e = opened[o].entry
             PROVE  PosixInv'
  OBVIOUS
<1>0. /\ frame[t].at = "unlink" /\ UNCHANGED vars /\ Called(t)
      /\ UNCHANGED <<osHandles, fds, kept, lost, handler, installed>>
      /\ frame' = [frame EXCEPT ![t] = Rest]
      /\ opened' = [opened EXCEPT ![o] = Null]
      /\ given' = IF fd = Null THEN given ELSE [given EXCEPT ![fd] = Null]
  BY DEF Unlink, Called, Leave, crt, CrtSound
<1>1. frame' \in [Threads -> Frames] /\ frame'[t] = Rest
  BY <1>0, Rests, Framed DEF PosixInv
<1>2. /\ o \in Live /\ o \in Objs /\ e \in Ids /\ e \in Stored
      /\ (fd # Null => fd \in HasFd /\ given[fd].obj = o) /\ (fd = Null => ~Given(o))
      /\ o \notin kept /\ o \notin lost
  <2>1. (fd # Null => fd \in HasFd /\ given[fd].obj = o) /\ (fd = Null => o \in Live /\ Unowned(o))
    BY <1>0 DEF PosixInv, Reached
  <2>2. o \in Live /\ (fd # Null => Given(o))
    BY <2>1 DEF PosixInv, Owners, Given
  <2>3. o \notin kept /\ o \notin lost /\ (fd = Null => ~Given(o))
    BY <2>1, <2>2 DEF PosixInv, Owners, Unowned
  <2> QED BY <2>1, <2>2, <2>3, Opened DEF PosixInv, Listing
<1>3. PICK k \in DOMAIN list[e] : list[e][k] = o /\ list' = [list EXCEPT ![e] = Registry!RemoveAt(@, k)]
  BY DEF Unlink, Registry!Closed
<1>4. /\ Live' = Live \ {o} /\ \A p \in Live' : opened'[p] = opened[p]
      /\ opened' \in [Objs -> Openings \cup {Null}]
  BY <1>0, <1>2 DEF Live, PosixInv, Kinds
<1>5. /\ HasFd' = HasFd \ {fd} /\ \A a \in HasFd' : given'[a] = given[a]
      /\ given' \in [Fds -> Gifts \cup {Null}]
  <2>1. CASE fd = Null
    <3>1. Null \notin HasFd
      BY Nulls DEF HasFd
    <3> QED BY <2>1, <3>1, <1>0 DEF HasFd, PosixInv, Kinds
  <2>2. CASE fd # Null
    BY <2>2, <1>0, <1>2 DEF HasFd, PosixInv, Kinds
  <2> QED BY <2>1, <2>2
<1>6. Stored' = Stored
  BY <1>0, KeptStored DEF vars, shared
<1> DEFINE s == list[e]
           r == Registry!RemoveAt(s, k)
<1>7. /\ s \in Seq(Objs) /\ k \in 1 .. Len(s) /\ DOMAIN s = 1 .. Len(s) /\ Len(s) \in Nat
      /\ r \in Seq(Objs) /\ DOMAIN r = 1 .. Len(s) - 1
      /\ \A i \in 1 .. Len(s) - 1 : r[i] = IF i < k THEN s[i] ELSE s[i + 1]
  <2>1. s \in Seq(Objs) /\ DOMAIN s = 1 .. Len(s) /\ k \in 1 .. Len(s) /\ Len(s) \in Nat
    BY <1>2, <1>3 DEF PosixInv, Kinds
  <2> HIDE DEF s
  <2> QED BY <2>1, Shorter
<1>8. /\ list' \in [Ids -> Seq(Objs)] /\ list'[e] = r
      /\ \A d \in Ids : d # e => list'[d] = list[d]
  BY <1>2, <1>3, <1>7 DEF PosixInv, Kinds
<1>9. Kinds'
  <2>1. kept' \subseteq Live' /\ lost' \subseteq Live'
    BY <1>0, <1>2, <1>4 DEF PosixInv, Kinds
  <2> QED BY <1>0, <1>1, <1>4, <1>5, <1>8, <2>1 DEF PosixInv, Kinds, crt, CrtSound
<1>10. Listing'
  <2> DEFINE old(i) == IF i < k THEN i ELSE i + 1
  <2>1. /\ \A k1, l1 \in DOMAIN s : s[k1] = s[l1] => k1 = l1
        /\ \A k1 \in DOMAIN s : s[k1] \in Live /\ opened[s[k1]].entry = e
    BY <1>2 DEF PosixInv, Listing
  <2>2. s[k] = o
    BY <1>3
  <2> HIDE DEF s, r
  <2>3. \A i \in DOMAIN r : old(i) \in DOMAIN s /\ old(i) # k /\ r[i] = s[old(i)]
    BY <1>7
  <2>4. \A i, j \in DOMAIN r : r[i] = r[j] => i = j
    <3>1. \A i, j \in DOMAIN r : old(i) = old(j) => i = j
      BY <1>7
    <3> HIDE DEF old
    <3> QED BY <2>1, <2>3, <3>1
  <2>5. \A i \in DOMAIN r : r[i] \in Live' /\ opened'[r[i]].entry = e
    <3> HIDE DEF old
    <3>1. \A i \in DOMAIN r : r[i] \in Live /\ r[i] # o /\ opened[r[i]].entry = e
      BY <1>3, <1>7, <2>1, <2>2, <2>3
    <3> QED BY <3>1, <1>4
  <2>6. ASSUME NEW p \in Live', opened[p].entry = e PROVE \E i \in DOMAIN r : r[i] = p
    <3>1. p \in Live /\ p # o
      BY <1>4
    <3>2. PICK l \in DOMAIN s : s[l] = p
      BY <3>1, <2>6 DEF PosixInv, Listing, s
    <3>3. l # k
      BY <3>1, <3>2, <2>2
    <3>4. CASE l < k
      BY <3>2, <3>4, <1>7
    <3>5. CASE l > k
      <4>1. l - 1 \in DOMAIN r /\ ~(l - 1 < k) /\ l - 1 + 1 = l
        BY <3>5, <1>7
      <4> QED BY <4>1, <3>2, <1>7
    <3> QED BY <3>3, <3>4, <3>5, <1>7
  <2>7. \A d \in Ids : \A k1, l1 \in DOMAIN list'[d] : list'[d][k1] = list'[d][l1] => k1 = l1
    BY <1>8, <2>4 DEF PosixInv, Listing
  <2>8. \A d \in Ids : \A k1 \in DOMAIN list'[d] : list'[d][k1] \in Live' /\ opened'[list'[d][k1]].entry = d
    <3>1. ASSUME NEW d \in Ids, d # e, NEW k1 \in DOMAIN list[d]
          PROVE  list[d][k1] \in Live' /\ opened'[list[d][k1]].entry = d
      <4>1. list[d][k1] \in Live /\ opened[list[d][k1]].entry = d /\ list[d][k1] # o
        BY <3>1 DEF PosixInv, Listing
      <4> QED BY <4>1, <1>4
    <3> QED BY <3>1, <1>8, <2>5
  <2>9. ASSUME NEW p \in Live'
        PROVE  /\ opened'[p].entry \in Stored'
               /\ \E k1 \in DOMAIN list'[opened'[p].entry] : list'[opened'[p].entry][k1] = p
    <3>0. p \in Live /\ opened'[p] = opened[p]
      BY <1>4
    <3>1. opened[p].entry \in Ids /\ opened[p].entry \in Stored
      BY <3>0, Opened DEF PosixInv, Listing
    <3>2. CASE opened[p].entry = e
      BY <3>0, <3>1, <3>2, <2>6, <1>6, <1>8
    <3>3. CASE opened[p].entry # e
      BY <3>0, <3>1, <3>3, <1>6, <1>8 DEF PosixInv, Listing
    <3> QED BY <3>2, <3>3
  <2> QED BY <2>7, <2>8, <2>9 DEF Listing
<1>11. Handles'
  <2>1. \A p \in Live' : p \in Live /\ ~Leaving(p)
    BY <1>4 DEF Leaving, OneThread
  <2> QED BY <1>0, <1>4, <2>1 DEF PosixInv, Handles
<1>12. Owners'
  <2>1. \A a \in HasFd' : a \in HasFd /\ given'[a].obj \in Live /\ given'[a].obj # o
    BY <1>2, <1>5 DEF PosixInv, Owners, Given
  <2>2. \A a \in HasFd' : given'[a].obj \in Live' /\ fds'[a] = opened'[given'[a].obj].handle
    BY <1>0, <1>4, <1>5, <2>1 DEF PosixInv, Owners
  <2>3. \A a, b \in HasFd' : given'[a].obj = given'[b].obj => a = b
    BY <1>5, <2>1 DEF PosixInv, Owners
  <2>4. \A p \in Live' : Given(p)' = Given(p)
    <3>1. \A a \in HasFd : a \in HasFd' \/ given[a].obj = o
      <4>1. \A a \in HasFd : a # Null
        BY Nulls DEF HasFd
      <4> QED BY <4>1, <1>2, <1>5
    <3> QED BY <1>4, <1>5, <2>1, <3>1 DEF Given
  <2>5. \A p \in Live' : Unowned(p)' = Unowned(p)
    BY <1>0, <2>4 DEF Unowned
  <2>6. \A p \in Live' : ~Unowned(p)
    BY <1>4, AllOwned DEF InCall
  <2> QED BY <1>0, <1>4, <2>2, <2>3, <2>4, <2>5, <2>6 DEF PosixInv, Owners
<1>13. Reached'
  BY <1>1 DEF Reached, OneThread, Rest
<1> QED BY <1>0, <1>9, <1>10, <1>11, <1>12, <1>13, TableKept, OnceKept, LocalsKept DEF PosixInv

(* An object comes to the list of the entry that was found.                *)
LEMMA ObjectKeeps ==
  ASSUME OneThread, PosixInv, NEW t \in Threads, frame[t].at = "entry",
         UNCHANGED <<vars, fds, given, lost, handler, installed>>,
         NEW h \in OSHandles \ osHandles, osHandles' = osHandles \cup {h},
         NEW e \in Stored, NEW part \in 0 .. PartSlots - 1, NEW o \in Objs \ Live,
         opened' = [opened EXCEPT ![o] = [handle |-> h, entry |-> e, part |-> part]],
         list' = [list EXCEPT ![e] = Append(@, o)],
         frame' \in [Threads -> Frames],
         \/ frame'[t] = Rest /\ kept' = kept \cup {o}
         \/ /\ frame'[t].at = "wrap" /\ frame'[t].obj = o /\ frame'[t].fd = Null
            /\ frame'[t].path \in Paths
            /\ kept' = kept
  PROVE  PosixInv'
<1>1. Called(t) /\ Stored' = Stored /\ e \in Ids
  <2>1. Called(t) /\ UNCHANGED table
    BY DEF Called, vars, shared
  <2>2. e \in Ids
    BY Slot DEF Stored, PosixInv
  <2> QED BY <2>1, <2>2, KeptStored
<1> DEFINE new == [handle |-> h, entry |-> e, part |-> part]
<1>2. new \in Openings /\ new.handle = h /\ new.entry = e
  BY <1>1 DEF Openings
<1> HIDE DEF new
<1>3. opened' = [opened EXCEPT ![o] = new]
  BY DEF new
<1>4. /\ opened' \in [Objs -> Openings \cup {Null}] /\ opened'[o] = new
      /\ \A p \in Objs : p # o => opened'[p] = opened[p]
  BY <1>2, <1>3 DEF PosixInv, Kinds
<1>5. Live' = Live \cup {o} /\ Live \subseteq Objs
  BY <1>2, <1>4, Nulls DEF Live
<1>6. HasFd' = HasFd /\ \A p : Given(p)' = Given(p)
  BY DEF HasFd, Given
<1>7. list[e] \in Seq(Objs)
  BY <1>1 DEF PosixInv, Kinds
<1>8. /\ list' \in [Ids -> Seq(Objs)] /\ list'[e] = Append(list[e], o)
      /\ \A d \in Ids : d # e => list'[d] = list[d]
  BY <1>1, <1>7 DEF PosixInv, Kinds
<1>9. Kinds'
  BY <1>4, <1>5, <1>8 DEF PosixInv, Kinds, crt, CrtSound
<1>10. Listing'
  <2>1. /\ DOMAIN list'[e] = 1 .. Len(list[e]) + 1 /\ DOMAIN list[e] = 1 .. Len(list[e])
        /\ Len(list[e]) \in Nat /\ list'[e][Len(list[e]) + 1] = o
        /\ \A k \in DOMAIN list[e] : list'[e][k] = list[e][k]
    BY <1>7, <1>8
  <2>2. \A d \in Ids : \A k \in DOMAIN list[d] :
          list[d][k] \in Live /\ list[d][k] # o /\ opened'[list[d][k]].entry = d
    BY <1>4, <1>5 DEF PosixInv, Listing
  <2>3. \A k \in DOMAIN list'[e] : (k \in DOMAIN list[e] /\ list'[e][k] = list[e][k])
                                  \/ (k = Len(list[e]) + 1 /\ list'[e][k] = o)
    BY <2>1
  <2>4. \A d \in Ids : \A k, l \in DOMAIN list'[d] : list'[d][k] = list'[d][l] => k = l
    <3>1. \A k, l \in DOMAIN list'[e] : list'[e][k] = list'[e][l] => k = l
      BY <1>1, <2>2, <2>3 DEF PosixInv, Listing
    <3> QED BY <3>1, <1>8 DEF PosixInv, Listing
  <2>5. \A d \in Ids : \A k \in DOMAIN list'[d] :
          list'[d][k] \in Live' /\ opened'[list'[d][k]].entry = d
    <3>1. \A k \in DOMAIN list'[e] : list'[e][k] \in Live' /\ opened'[list'[e][k]].entry = e
      BY <1>1, <1>2, <1>4, <1>5, <2>2, <2>3
    <3> QED BY <3>1, <1>5, <1>8, <2>2
  <2>6. ASSUME NEW p \in Live'
        PROVE  /\ opened'[p].entry \in Stored'
               /\ \E k \in DOMAIN list'[opened'[p].entry] : list'[opened'[p].entry][k] = p
    <3>1. CASE p = o
      <4>1. Len(list[e]) + 1 \in DOMAIN list'[e]
        BY <2>1
      <4> QED BY <3>1, <4>1, <1>1, <1>2, <1>4, <2>1
    <3>2. CASE p # o
      <4>1. p \in Live /\ opened'[p] = opened[p]
        BY <3>2, <1>4, <1>5
      <4>2. opened[p].entry \in Stored /\ opened[p].entry \in Ids
        BY <4>1, Opened DEF PosixInv, Listing
      <4>3. PICK k \in DOMAIN list[opened[p].entry] : list[opened[p].entry][k] = p
        BY <4>1 DEF PosixInv, Listing
      <4>4. CASE opened[p].entry = e
        <5>1. k \in DOMAIN list'[e] /\ list'[e][k] = p
          BY <4>3, <4>4, <2>1
        <5> QED BY <5>1, <4>1, <4>2, <4>4, <1>1
      <4>5. CASE opened[p].entry # e
        BY <4>1, <4>2, <4>3, <4>5, <1>1, <1>8
      <4> QED BY <4>4, <4>5
    <3> QED BY <3>1, <3>2
  <2> QED BY <2>4, <2>5, <2>6 DEF Listing
<1>11. Handles'
  <2>1. \A p \in Live : opened[p].handle \in osHandles
    BY AllOpen
  <2>2. \A p \in Live : p # o /\ opened'[p] = opened[p]
    BY <1>4, <1>5
  <2> QED BY <1>2, <1>4, <1>5, <2>1, <2>2 DEF PosixInv, Handles
<1>12. ~Given(o) /\ o \notin kept /\ o \notin lost
  BY DEF PosixInv, Owners, Given, Kinds
<1>13. Owners'
  <2>1. \A a \in HasFd' : given'[a].obj \in Live' /\ fds'[a] = opened'[given'[a].obj].handle
    BY <1>4, <1>5, <1>6 DEF PosixInv, Owners
  <2>2. \A p \in Live : ~Unowned(p)
    BY AllOwned DEF InCall
  <2>3. \A p \in Live : p # o /\ (p \in kept' <=> p \in kept)
    BY <1>5
  <2>4. \A p \in Live : Unowned(p)' = Unowned(p)
    BY <1>6, <2>3 DEF Unowned
  <2>5. o \in kept' \/ InCall(t, o)'
    BY DEF InCall
  <2> QED BY <1>5, <1>6, <1>12, <2>1, <2>2, <2>3, <2>4, <2>5 DEF PosixInv, Owners, Unowned
<1>14. Reached'
  <2>1. frame'[t].at = "wrap" => frame'[t].obj = o /\ Unowned(o)' /\ o \in Live'
    BY <1>5, <1>6, <1>12 DEF Unowned, Rest
  <2>2. Rest.at = "idle"
    BY DEF Rest
  <2>3. frame'[t].at \in {"idle", "wrap"}
    BY <2>2
  <2>4. \A u \in Threads : u = t
    BY DEF OneThread
  <2>5. frame'[t].at = "wrap" => Unowned(frame[t].obj)'
    BY <2>1 DEF Unowned, Given
  <2>6. frame'[t].at = "wrap" => frame'[t].path \in Paths /\ frame'[t].fd = Null
    BY <2>2
  <2> QED BY <2>1, <2>3, <2>4, <2>5, <2>6 DEF Reached
<1>15. TableInv' /\ BuildsOnce' /\ Locals'
  BY <1>1, TableKept, OnceKept, LocalsKept DEF PosixInv
<1> QED BY <1>9, <1>10, <1>11, <1>13, <1>14, <1>15 DEF PosixInv

LEMMA AttachKeeps ==
  ASSUME OneThread, PosixInv, NEW t \in Threads, Attach(t)
  PROVE  PosixInv'
<1>0. /\ frame[t].at = "entry" /\ pc[t] = "idle" /\ Called(t)
      /\ UNCHANGED <<vars, fds, given, lost, handler, installed>>
      /\ CrtSound' /\ osHandles \subseteq OSHandles
  BY DEF Attach, Called, PosixInv, Kinds, crt, CrtSound
<1>1. CASE NoObject(t)
  <2>1. osHandles \subseteq osHandles' /\ osHandles' \subseteq OSHandles
    BY <1>0, <1>1 DEF Attach, NoObject, PosixInv, Kinds, Leave, Registry!Opened
  <2> QED BY <1>0, <1>1, <2>1, LeaveKeeps DEF NoObject, Leave
<1>2. CASE ~NoObject(t)
  <2>1. PICK h \in OSHandles \ osHandles, o \in Objs \ Live :
          /\ ret[t] # Null /\ osHandles' = osHandles \cup {h}
          /\ opened' = [opened EXCEPT ![o] = [handle |-> h, entry |-> ret[t][1], part |-> ret[t][2]]]
          /\ list' = [list EXCEPT ![ret[t][1]] = Append(@, o)]
          /\ IF frame[t].path = Null
             THEN Leave(t, o) /\ kept' = kept \cup {o}
             ELSE /\ Enter(t, [frame[t] EXCEPT !.at = "wrap", !.obj = o])
                  /\ UNCHANGED kept
    BY <1>2 DEF Attach, Registry!Opened
  <2>2. ret[t][1] \in Stored /\ ret[t][2] \in 0 .. PartSlots - 1
    BY <1>0, <2>1 DEF PosixInv, Reached
  <2>3. CASE frame[t].path = Null
    <3>1. frame' = [frame EXCEPT ![t] = Rest] /\ kept' = kept \cup {o}
      BY <2>1, <2>3 DEF Leave
    <3>2. frame' \in [Threads -> Frames] /\ frame'[t] = Rest
      BY <3>1, Rests, Framed DEF PosixInv
    <3> QED BY <1>0, <2>1, <2>2, <3>1, <3>2, ObjectKeeps
  <2>4. CASE frame[t].path # Null
    <3> DEFINE f == [frame[t] EXCEPT !.at = "wrap", !.obj = o]
    <3>1. frame[t] \in Frames /\ frame[t].path \in Paths /\ frame[t].fd = Null
      BY <1>0, <2>4, Frame DEF PosixInv, Reached
    <3>2. f \in Frames /\ f.at = "wrap" /\ f.obj = o /\ f.path = frame[t].path /\ f.fd = frame[t].fd
      BY <3>1 DEF Frames, Places
    <3>3. frame' = [frame EXCEPT ![t] = f] /\ kept' = kept
      BY <2>1, <2>4 DEF Enter
    <3> HIDE DEF f
    <3>4. frame' \in [Threads -> Frames] /\ frame'[t] = f
      BY <3>2, <3>3, Framed DEF PosixInv
    <3> QED BY <1>0, <2>1, <2>2, <3>1, <3>2, <3>3, <3>4, ObjectKeeps
  <2> QED BY <2>3, <2>4
<1> QED BY <1>1, <1>2

(* Whatever a call has come to by a path, and whatever a descriptor leads  *)
(* to, has that path in the table.  What an entry shows is what the        *)
(* enumeration makes of its drive, whenever it is looked at.               *)
Shows(e, p, path) ==
  /\ p \in 0 .. PartSlots - 1 /\ Enumerated[e[2]].slots[p] # Null
  /\ Enumerated[e[2]].slots[p].posix.path = path
ShowsObject(o, path) == path # Null /\ Shows(opened[o].entry, opened[o].part, path)
GivenNamed == \A fd \in HasFd : ShowsObject(given[fd].obj, given[fd].path)
PathSeen(t) ==
  IF pc[t] = "idle" THEN ret[t] = Null \/ (ret[t][1] \in Used /\ Shows(table[ret[t][1]], ret[t][2], frame[t].path))
                    ELSE call[t].api = "path" /\ call[t].path = frame[t].path
EntrySeen(t) ==
  IF pc[t] = "idle" THEN ret[t] = Null \/ Shows(ret[t][1], ret[t][2], frame[t].path)
                    ELSE call[t].number \in Used /\ Shows(table[call[t].number], call[t].part, frame[t].path)
CallsNamed == \A t \in Threads :
  /\ frame[t].at = "path" => PathSeen(t)
  /\ frame[t].at = "entry" /\ frame[t].path # Null => EntrySeen(t)
  /\ frame[t].at = "wrap" => ShowsObject(frame[t].obj, frame[t].path)
NamedInv == InOrder /\ GivenNamed /\ CallsNamed

(* The first of the entries with a path is one of them.                    *)
LEMMA FirstIs ==
  ASSUME NEW S, S \subseteq Nat \X Nat, S # {}
  PROVE  First(S) \in S
<1> DEFINE A == {a[1] : a \in S}
<1>1. A \subseteq Nat /\ A # {}
  OBVIOUS
<1>2. PICK n \in A : \A m \in A : n <= m
  <2> HIDE DEF A
  <2> QED BY <1>1, LeastNumber
<1> DEFINE B == {a[2] : a \in {b \in S : b[1] = n}}
<1>3. B \subseteq Nat /\ B # {}
  BY <1>2
<1>4. PICK k \in B : \A m \in B : k <= m
  <2> HIDE DEF B
  <2> QED BY <1>3, LeastNumber
<1>5. PICK a \in S : a[1] = n /\ a[2] = k
  BY <1>4
<1>6. \A b \in S : a[1] < b[1] \/ (a[1] = b[1] /\ a[2] <= b[2])
  <2> SUFFICES ASSUME NEW b \in S PROVE a[1] < b[1] \/ (a[1] = b[1] /\ a[2] <= b[2])
    OBVIOUS
  <2>1. b[1] \in A /\ b[1] \in Nat /\ n \in Nat /\ n <= b[1]
    BY <1>1, <1>2
  <2>2. b[1] = n => b[2] \in B /\ k <= b[2]
    BY <1>4
  <2> HIDE DEF A, B
  <2> QED BY <2>1, <2>2, <1>5
<1> QED BY <1>6 DEF First

(* Where the entries shown are.                                            *)
LEMMA ShownAt ==
  ASSUME TableInv, InOrder, NEW n \in Used
  PROVE  /\ table[n] \in Ids /\ DriveAt(n) = table[n][2] /\ Present[table[n][2]].number = n
         /\ \A p \in 0 .. PartSlots - 1 : Entry(n, p) = Enumerated[table[n][2]].slots[p]
<1>1. table[n] \in Ids /\ table[n] \in Stored /\ n \in 0 .. Slots - 1
  BY DEF Used, Stored, TableInv, Types
<1>2. Present[table[n][2]].number = n /\ table[n][2] \in 1 .. Len(Present)
  BY <1>1, IdParts DEF TableInv, InPlace, Used
<1>3. DriveAt(n) \in 1 .. Len(Present) /\ Present[DriveAt(n)].number = n
  BY EntryIs
<1>4. DriveAt(n) = table[n][2]
  BY <1>2, <1>3, Tables
<1> QED BY <1>1, <1>2, <1>4, EntryIs

LEMMA AllCalled ==
  ASSUME NEW t \in Threads, PosixCall(t) \/ PosixStep(t) \/ Below(t)
  PROVE  Called(t)
<1>1. CASE PosixCall(t)
  BY <1>1 DEF PosixCall, DevblkOpen, DevblkClose, DevblkFstat, DevBlkOpen, DevBlkClose, Query,
     ReplaceHandler, Called
<1>2. CASE PosixStep(t)
  BY <1>2 DEF PosixStep, LookedUp, Attach, Wrap, CloseHandle, Unlink, Called
<1>3. CASE Below(t)
  BY <1>3 DEF Below, Called
<1> QED BY <1>1, <1>2, <1>3

LEMMA OrderCalled ==
  ASSUME TableInv, InOrder, NEW t \in Threads, Called(t)
  PROVE  InOrder'
BY OrderKept, OrderStays DEF Called

(* What a step does that leaves the objects and the descriptors alone.     *)
LEMMA GivenStays ==
  ASSUME PosixInv, GivenNamed, UNCHANGED given, \A o \in Live : opened'[o] = opened[o]
  PROVE  GivenNamed'
<1>1. HasFd' = HasFd /\ \A fd \in HasFd : given[fd].obj \in Live
  BY DEF HasFd, PosixInv, Owners
<1> QED BY <1>1 DEF GivenNamed, ShowsObject, Shows

LEMMA Elsewhere ==
  ASSUME OneThread, PosixInv, NamedInv, InOrder', NEW t \in Threads, UNCHANGED <<opened, given>>,
         frame'[t].at \notin {"path", "entry", "wrap"}
  PROVE  NamedInv'
<1>1. GivenNamed'
  BY GivenStays DEF NamedInv
<1>2. \A u \in Threads : frame'[u].at \notin {"path", "entry", "wrap"}
  BY DEF OneThread
<1> QED BY <1>1, <1>2 DEF NamedInv, CallsNamed

LEMMA RestNamed ==
  ASSUME OneThread, PosixInv, NamedInv, InOrder', NEW t \in Threads, UNCHANGED <<opened, given>>,
         NEW f \in Frames, frame' = [frame EXCEPT ![t] = f], f.at \notin {"path", "entry", "wrap"}
  PROVE  NamedInv'
BY Elsewhere, Framed DEF PosixInv

LEMMA CallNamed ==
  ASSUME OneThread, NEW t \in Threads, Called(t), PosixCall(t), PosixInv, NamedInv, InOrder'
  PROVE  NamedInv'
<1>0. UNCHANGED <<opened, given>>
  BY DEF PosixCall, DevblkOpen, DevblkClose, DevblkFstat, DevBlkOpen, DevBlkClose, Query,
     ReplaceHandler, registry
<1>1. ASSUME NEW path \in Paths, DevblkOpen(t, path) PROVE NamedInv'
  <2>1. CASE path = Null
    <3>1. frame' = [frame EXCEPT ![t] = Rest] /\ Rest.at = "idle"
      BY <1>1, <2>1 DEF DevblkOpen, Leave, Rest
    <3> QED BY <1>0, <3>1, Rests, RestNamed
  <2>2. CASE path # Null
    <3> DEFINE f == [Rest EXCEPT !.at = "path", !.path = path]
               c == [api |-> "path", path |-> path]
    <3>1. f \in Frames /\ f.at = "path" /\ f.path = path /\ c.api = "path" /\ c.path = path
      BY Rests DEF Frames, Rest, Places
    <3>2. Begin(t, c) /\ frame' = [frame EXCEPT ![t] = f]
      BY <1>1, <2>2 DEF DevblkOpen, Enter
    <3> HIDE DEF f, c
    <3>3. frame'[t] = f
      BY <3>1, <3>2, Framed DEF PosixInv
    <3>4. call'[t] = c /\ pc'[t] = "answer"
      BY <3>1, <3>2 DEF Begin, Goto, PosixInv, Locals, TableInv, Types
    <3>5. PathSeen(t)'
      BY <3>1, <3>3, <3>4 DEF PathSeen
    <3>6. GivenNamed'
      BY <1>0, GivenStays DEF NamedInv
    <3>7. CallsNamed'
      BY <3>1, <3>3, <3>5 DEF CallsNamed, OneThread
    <3> QED BY <3>6, <3>7 DEF NamedInv
  <2> QED BY <2>1, <2>2
<1>2. ASSUME NEW n, NEW p, DevBlkOpen(t, n, p) PROVE NamedInv'
  <2> DEFINE f == [Rest EXCEPT !.at = "entry"]
  <2>1. f \in Frames /\ f.at = "entry" /\ f.path = Null
    BY Rests DEF Frames, Rest, Places
  <2>2. frame' = [frame EXCEPT ![t] = f]
    BY <1>2 DEF DevBlkOpen, Enter
  <2> HIDE DEF f
  <2>3. frame'[t] = f
    BY <2>1, <2>2, Framed DEF PosixInv
  <2>4. CallsNamed'
    BY <2>1, <2>3 DEF CallsNamed, OneThread
  <2>5. GivenNamed'
    BY <1>0, GivenStays DEF NamedInv
  <2> QED BY <2>4, <2>5 DEF NamedInv
<1>3. ASSUME NEW fd \in Fds, DevblkClose(t, fd) \/ DevblkFstat(t, fd) PROVE NamedInv'
  <2> DEFINE f == [Rest EXCEPT !.at = "close", !.fd = fd, !.obj = Behind(fd)]
  <2>1. \/ frame' = [frame EXCEPT ![t].at = "abort"] \/ frame' = [frame EXCEPT ![t] = Rest]
        \/ frame' = [frame EXCEPT ![t] = f]
    BY <1>3 DEF DevblkClose, DevblkFstat, Reach, Leave, Enter
  <2>2. f.at = "close" /\ Rest.at = "idle" /\ frame \in [Threads -> Frames]
    BY DEF Rest, PosixInv, Kinds
  <2>3. frame' = [frame EXCEPT ![t].at = "abort"] => frame'[t].at = "abort"
    BY Placed DEF PosixInv, Places
  <2> HIDE DEF f
  <2>4. frame'[t].at \in {"abort", "idle", "close"}
    BY <2>1, <2>2, <2>3
  <2> QED BY <1>0, <2>4, Elsewhere
<1>4. ASSUME NEW o \in Objs, DevBlkClose(t, o) PROVE NamedInv'
  <2>1. frame'[t].at = "close"
    BY <1>4 DEF DevBlkClose, Enter, PosixInv, Kinds, Frames, Rest
  <2> QED BY <1>0, <2>1, Elsewhere
<1>5. ASSUME NEW c, Query(t, c) PROVE NamedInv'
  <2>1. frame' = [frame EXCEPT ![t] = Rest] /\ Rest.at = "idle"
    BY <1>5 DEF Query, Enter, Rest
  <2> QED BY <1>0, <2>1, Rests, RestNamed
<1>6. CASE ReplaceHandler(t)
  <2>1. frame[t].at = "idle" /\ frame' = frame
    BY <1>6 DEF ReplaceHandler, Resting, Rest
  <2> QED BY <1>0, <2>1, Elsewhere
<1> QED BY <1>1, <1>2, <1>3, <1>4, <1>5, <1>6 DEF PosixCall

LEMMA LookedUpNamed ==
  ASSUME OneThread, NEW t \in Threads, LookedUp(t), PosixInv, NamedInv, InOrder'
  PROVE  NamedInv'
<1>0. UNCHANGED <<opened, given>> /\ frame[t].at = "path" /\ pc[t] = "idle"
  BY DEF LookedUp, registry
<1>1. CASE ret[t] = Null
  <2>1. frame' = [frame EXCEPT ![t] = Rest] /\ Rest.at = "idle"
    BY <1>1 DEF LookedUp, Leave, Rest
  <2> QED BY <1>0, <2>1, Rests, RestNamed
<1>2. CASE ret[t] # Null
  <2> DEFINE c == [api |-> "open", number |-> ret[t][1], part |-> ret[t][2]]
  <2>1. Begin(t, c) /\ frame' = [frame EXCEPT ![t].at = "entry"]
    BY <1>2 DEF LookedUp, Reach
  <2>2. frame'[t].at = "entry" /\ frame'[t].path = frame[t].path
    BY <2>1, Placed DEF PosixInv, Places
  <2>3. c.number = ret[t][1] /\ c.part = ret[t][2]
    OBVIOUS
  <2> HIDE DEF c
  <2>4. call'[t] = c /\ pc'[t] # "idle" /\ table' = table
    BY <2>1 DEF Begin, Goto, PosixInv, Locals, TableInv, Types, shared
  <2>5. ret[t][1] \in Used /\ Shows(table[ret[t][1]], ret[t][2], frame[t].path)
    BY <1>0, <1>2 DEF NamedInv, CallsNamed, PathSeen
  <2>6. EntrySeen(t)'
    BY <2>2, <2>3, <2>4, <2>5 DEF EntrySeen, Used, Shows
  <2>7. CallsNamed'
    BY <2>2, <2>6 DEF CallsNamed, OneThread
  <2>8. GivenNamed'
    BY <1>0, GivenStays DEF NamedInv
  <2> QED BY <2>7, <2>8 DEF NamedInv
<1> QED BY <1>1, <1>2

LEMMA AttachNamed ==
  ASSUME OneThread, NEW t \in Threads, Attach(t), PosixInv, NamedInv, InOrder'
  PROVE  NamedInv'
<1>0. given' = given /\ frame[t].at = "entry" /\ pc[t] = "idle"
  BY DEF Attach
<1>1. CASE NoObject(t)
  <2>1. frame' = [frame EXCEPT ![t] = Rest] /\ Rest.at = "idle" /\ opened' = opened
    BY <1>1 DEF NoObject, Leave, Rest
  <2> QED BY <1>0, <2>1, Rests, RestNamed
<1>2. CASE ~NoObject(t)
  <2>1. PICK h \in OSHandles, o \in Objs \ Live :
          /\ ret[t] # Null
          /\ opened' = [opened EXCEPT ![o] = [handle |-> h, entry |-> ret[t][1], part |-> ret[t][2]]]
          /\ IF frame[t].path = Null
             THEN Leave(t, o)
             ELSE Enter(t, [frame[t] EXCEPT !.at = "wrap", !.obj = o])
    BY <1>2 DEF Attach
  <2>2. \A p \in Live : opened'[p] = opened[p]
    BY <2>1 DEF PosixInv, Kinds, Live
  <2>3. GivenNamed'
    BY <1>0, <2>2, GivenStays DEF NamedInv
  <2>4. opened'[o].entry = ret[t][1] /\ opened'[o].part = ret[t][2]
    BY <2>1 DEF PosixInv, Kinds
  <2>5. CASE frame[t].path = Null
    <3>1. frame'[t].at = "idle"
      BY <2>1, <2>5 DEF Leave, Rest, PosixInv, Kinds
    <3>2. CallsNamed'
      BY <3>1 DEF CallsNamed, OneThread
    <3> QED BY <2>3, <3>2 DEF NamedInv
  <2>6. CASE frame[t].path # Null
    <3>1. frame'[t].at = "wrap" /\ frame'[t].obj = o /\ frame'[t].path = frame[t].path
      BY <2>1, <2>6 DEF Enter, PosixInv, Kinds, Frames
    <3>2. Shows(ret[t][1], ret[t][2], frame[t].path)
      BY <1>0, <2>1, <2>6 DEF NamedInv, CallsNamed, EntrySeen
    <3>3. ShowsObject(frame[t].obj, frame[t].path)'
      BY <2>4, <2>6, <3>1, <3>2 DEF ShowsObject, Shows
    <3>4. CallsNamed'
      BY <3>1, <3>3 DEF CallsNamed, OneThread
    <3> QED BY <2>3, <3>4 DEF NamedInv
  <2> QED BY <2>5, <2>6
<1> QED BY <1>1, <1>2

(* A descriptor that is given gets the path of its call.                   *)
LEMMA WrapNamed ==
  ASSUME OneThread, NEW t \in Threads, Wrap(t), PosixInv, NamedInv, InOrder'
  PROVE  NamedInv'
<1> DEFINE o == frame[t].obj
           gift == [path |-> frame[t].path, obj |-> o]
<1>0. opened' = opened /\ frame[t].at = "wrap" /\ frame' = [frame EXCEPT ![t] = Rest]
  BY DEF Wrap, registry, Leave
<1>1. frame'[t].at = "idle"
  BY <1>0 DEF Rest, PosixInv, Kinds
<1>2. CallsNamed'
  BY <1>1 DEF CallsNamed, OneThread
<1>3. ShowsObject(o, frame[t].path)
  BY <1>0 DEF NamedInv, CallsNamed
<1>4. CASE given' = given
  BY <1>0, <1>4, <1>2, GivenStays DEF NamedInv
<1>5. CASE given' # given
  <2>1. PICK fd \in Fds : given' = [given EXCEPT ![fd] = gift]
    BY <1>5 DEF Wrap
  <2>2. gift.obj = o /\ gift.path = frame[t].path
    OBVIOUS
  <2> HIDE DEF gift
  <2>3. given'[fd] = gift /\ \A a \in Fds : a # fd => given'[a] = given[a]
    BY <2>1 DEF PosixInv, Kinds
  <2>4. \A a \in HasFd' : a = fd \/ (a \in HasFd /\ given'[a] = given[a])
    BY <2>3 DEF HasFd
  <2> HIDE DEF o
  <2>5. GivenNamed'
    BY <1>0, <1>3, <2>2, <2>3, <2>4 DEF GivenNamed, NamedInv, ShowsObject
  <2> QED BY <1>2, <2>5 DEF NamedInv
<1> QED BY <1>4, <1>5

LEMMA UnlinkNamed ==
  ASSUME OneThread, NEW t \in Threads, Unlink(t), PosixInv, PosixInv', NamedInv, InOrder'
  PROVE  NamedInv'
<1>1. frame'[t].at = "idle"
  BY DEF Unlink, Leave, Rest, PosixInv, Kinds
<1>2. CallsNamed'
  BY <1>1 DEF CallsNamed, OneThread
<1>3. \A a \in HasFd' : a \in HasFd /\ given'[a] = given[a]
  BY DEF Unlink, HasFd, PosixInv, Kinds
<1>4. \A o \in Live' : opened'[o] = opened[o]
  BY DEF Unlink, Live, PosixInv, Kinds
<1>5. \A a \in HasFd' : given'[a].obj \in Live'
  BY DEF PosixInv, Owners
<1>6. GivenNamed'
  BY <1>3, <1>4, <1>5 DEF GivenNamed, NamedInv, ShowsObject
<1> QED BY <1>2, <1>6 DEF NamedInv

(* What the table's calls answer.                                          *)
LEMMA BelowNamed ==
  ASSUME OneThread, NEW t \in Threads, Below(t), PosixInv, NamedInv, InOrder'
  PROVE  NamedInv'
<1>0. Continue(t) /\ UNCHANGED <<opened, given, frame>> /\ Called(t)
  BY DEF Below, posix, registry, Called
<1>1. pc[t] # "idle"
  BY <1>0 DEF Continue, InitCheck, InitSet, BuildStep, GetClassDevs, EnumDeviceInterfaces,
     GetInterfaceDetail, OpenDevice, GetDeviceNumber, QueryDevice, GetLayout, Store, Exit,
     CountDrives, Answer
<1>2. GivenNamed'
  BY <1>0, GivenStays DEF NamedInv
<1>3. CASE Answer(t)
  <2>1. pc'[t] = "idle" /\ table' = table /\ ret'[t] = Result(t, call[t])
    BY <1>3 DEF Answer, Goto, PosixInv, Locals, TableInv, Types, shared
  <2>2. Used' = Used
    BY <2>1 DEF Used
  <2>3. ASSUME frame[t].at = "path", ret'[t] # Null
        PROVE  ret'[t][1] \in Used /\ Shows(table[ret'[t][1]], ret'[t][2], frame[t].path)
    <3>1. call[t].api = "path" /\ call[t].path = frame[t].path
      BY <1>1, <2>3 DEF NamedInv, CallsNamed, PathSeen
    <3> DEFINE W == WithPath(frame[t].path)
    <3>2. W # {} /\ ret'[t] = First(W)
      BY <2>1, <2>3, <3>1 DEF Result
    <3>3. W \subseteq Nat \X Nat
      <4>1. Used \subseteq Nat /\ 0 .. PartSlots - 1 \subseteq Nat
        BY Tables, Bounds DEF Used
      <4>2. \A np \in W : np \in Used \X (0 .. PartSlots - 1)
        BY DEF WithPath
      <4> HIDE DEF W
      <4> QED BY <4>1, <4>2
    <3> HIDE DEF W
    <3>4. ret'[t] \in W
      BY <3>2, <3>3, FirstIs
    <3> DEFINE n == ret'[t][1]
               p == ret'[t][2]
    <3>5. /\ n \in Used /\ p \in 0 .. PartSlots - 1 /\ Entry(n, p) # Null
          /\ Entry(n, p).posix.path = frame[t].path
      BY <3>4 DEF W, WithPath
    <3> HIDE DEF n, p
    <3>6. Entry(n, p) = Enumerated[table[n][2]].slots[p]
      BY <3>5, ShownAt DEF PosixInv, NamedInv
    <3>7. n \in Used /\ Shows(table[n], p, frame[t].path)
      BY <3>5, <3>6 DEF Shows
    <3> QED BY <3>7 DEF n, p
  <2>4. ASSUME frame[t].at = "entry", frame[t].path # Null, ret'[t] # Null
        PROVE  Shows(ret'[t][1], ret'[t][2], frame[t].path)
    <3> DEFINE n == call[t].number
               p == call[t].part
    <3>1. call[t].api = "open" /\ n \in Used /\ Shows(table[n], p, frame[t].path)
      BY <1>1, <2>4 DEF NamedInv, CallsNamed, EntrySeen, PosixInv, Reached
    <3>2. ret'[t] = IF Entry(n, p) = Null THEN Null ELSE <<table[n], p>>
      BY <2>1, <3>1 DEF Result
    <3>3. ret'[t] = <<table[n], p>>
      BY <2>4, <3>2
    <3> QED BY <3>1, <3>3
  <2>5. CallsNamed'
    <3>1. frame[t].at = "path" => PathSeen(t)'
      BY <1>0, <2>1, <2>2, <2>3 DEF PathSeen, Shows
    <3>2. frame[t].at = "entry" /\ frame[t].path # Null => EntrySeen(t)'
      BY <1>0, <2>1, <2>4 DEF EntrySeen, Shows
    <3> QED BY <1>0, <3>1, <3>2 DEF CallsNamed, OneThread, NamedInv, ShowsObject
  <2> QED BY <1>2, <2>5 DEF NamedInv
<1>4. CASE ~Answer(t)
  <2>1. call' = call
    BY <1>0, <1>4 DEF Continue, InitCheck, InitSet, BuildStep, GetClassDevs, EnumDeviceInterfaces,
       GetInterfaceDetail, OpenDevice, GetDeviceNumber, QueryDevice, GetLayout, Store, Exit,
       CountDrives, Fails, Succeeds
  <2>2. \E l : Goto(t, l) /\ l # "idle"
    BY <1>0, <1>4 DEF Continue, InitCheck, InitSet, BuildStep, GetClassDevs, EnumDeviceInterfaces,
       GetInterfaceDetail, OpenDevice, GetDeviceNumber, QueryDevice, GetLayout, Store, Exit,
       CountDrives, Fails, Succeeds, Looked
  <2>3. pc'[t] # "idle"
    BY <2>2 DEF Goto, PosixInv, TableInv, Types
  <2>4. \A n \in Used : n \in Used' /\ table'[n] = table[n]
    BY <1>0, UsedKept DEF PosixInv
  <2>5. frame[t].at = "path" => PathSeen(t)'
    BY <1>0, <1>1, <2>1, <2>3 DEF PathSeen, NamedInv, CallsNamed
  <2>6. frame[t].at = "entry" /\ frame[t].path # Null => EntrySeen(t)'
    BY <1>0, <1>1, <2>1, <2>3, <2>4 DEF EntrySeen, Shows, NamedInv, CallsNamed
  <2>7. CallsNamed'
    BY <1>0, <2>5, <2>6 DEF CallsNamed, OneThread, NamedInv, ShowsObject
  <2> QED BY <1>2, <2>7 DEF NamedInv
<1> QED BY <1>3, <1>4

LEMMA NamedStart == ASSUME PosixInit PROVE NamedInv
<1>1. InOrder
  BY OrderStart DEF PosixInit
<1>2. HasFd = {} /\ \A t \in Threads : frame[t].at = "idle"
  BY DEF PosixInit, HasFd, Rest
<1> QED BY <1>1, <1>2 DEF NamedInv, GivenNamed, CallsNamed

LEMMA NamedKeeps ==
  ASSUME OneThread, PosixInv, PosixInv', NamedInv, [PosixNext]_<<vars, posix>>
  PROVE  NamedInv'
<1>1. CASE UNCHANGED <<vars, posix>>
  <2>1. InOrder'
    BY <1>1, OrderStays DEF NamedInv
  <2>2. UNCHANGED <<table, pc, call, ret, frame, opened, given>>
    BY <1>1 DEF vars, shared, posix, registry
  <2>3. GivenNamed'
    BY <2>2, GivenStays DEF NamedInv
  <2>4. CallsNamed'
    BY <2>2 DEF NamedInv, CallsNamed, PathSeen, EntrySeen, ShowsObject, Shows, Used
  <2> QED BY <2>1, <2>3, <2>4 DEF NamedInv
<1>2. ASSUME NEW t \in Threads, PosixCall(t) \/ PosixStep(t) \/ Below(t)
      PROVE  NamedInv'
  <2>1. Called(t) /\ InOrder'
    BY <1>2, AllCalled, OrderCalled DEF PosixInv, NamedInv
  <2>2. CASE CloseHandle(t)
    <3>1. UNCHANGED <<opened, given>> /\ frame'[t].at \in {"unlink", "idle"}
      BY <2>2 DEF CloseHandle, Reach, Leave, Rest, PosixInv, Kinds, Frames
    <3> QED BY <2>1, <3>1, Elsewhere
  <2> QED BY <1>2, <2>1, <2>2, CallNamed, LookedUpNamed, AttachNamed, WrapNamed, UnlinkNamed, BelowNamed
          DEF PosixStep
<1> QED BY <1>1, <1>2 DEF PosixNext

LEMMA PosixStart == ASSUME PosixInit PROVE PosixInv
<1>1. TableInv
  BY TableStart DEF PosixInit
<1>2. /\ Live = {} /\ HasFd = {} /\ kept = {} /\ lost = {} /\ osHandles = {}
      /\ list = [e \in Ids |-> <<>>]
  BY DEF PosixInit, Live, HasFd, Registry!Init
<1>3. BuildsOnce /\ Locals
  BY DEF PosixInit, Init, BuildsOnce, Locals
<1>4. Kinds
  <2>1. CrtSound
    BY DEF PosixInit, CrtSound
  <2> QED BY <1>2, <2>1, Rests DEF PosixInit, Kinds
<1>5. Listing /\ Handles /\ Owners
  BY <1>2 DEF Listing, Handles, Owners
<1>6. Reached
  BY DEF PosixInit, Reached, Rest
<1> QED BY <1>1, <1>3, <1>4, <1>5, <1>6 DEF PosixInv

LEMMA PosixKeeps ==
  ASSUME OneThread, PosixInv, [PosixNext]_<<vars, posix>>
  PROVE  PosixInv'
<1>1. CASE UNCHANGED <<vars, posix>>
  <2>1. UNCHANGED vars /\ UNCHANGED <<list, opened, osHandles, fds, given, kept, lost, handler, installed, frame>>
    BY <1>1 DEF posix, registry, crt, CrtSound
  <2>2. TableInv' /\ Stored' = Stored /\ UNCHANGED <<builds, inited, pc, call, ret>>
    BY <2>1, StaysKept, KeptStored DEF PosixInv, vars, shared
  <2>3. Quiet
    BY <2>1, <2>2 DEF Quiet, PosixInv, Kinds, crt, CrtSound
  <2>4. Live' = Live /\ HasFd' = HasFd /\ \A o : Unowned(o)' = Unowned(o)
    BY <2>1, <2>3, QuietKeeps DEF Live, HasFd
  <2>5. BuildsOnce' /\ Locals' /\ Reached'
    BY <2>1, <2>2, <2>4 DEF PosixInv, BuildsOnce, Locals, Reached
  <2> QED BY <2>2, <2>3, <2>5, QuietKeeps DEF PosixInv
<1>2. ASSUME NEW t \in Threads, PosixCall(t)
      PROVE  PosixInv'
  BY <1>2, DevblkOpenKeeps, DevblkCloseKeeps, FstatKeeps, DevBlkOpenKeeps, DevBlkCloseKeeps, QueryKeeps,
     HandlerKeeps DEF PosixCall
<1>3. ASSUME NEW t \in Threads, PosixStep(t)
      PROVE  PosixInv'
  BY <1>3, LookedUpKeeps, AttachKeeps, WrapKeeps, CloseHandleKeeps, UnlinkKeeps DEF PosixStep
<1> QED BY <1>1, <1>2, <1>3, BelowKeeps DEF PosixNext

(* With one thread the invariant of descriptors, objects and OS handles    *)
(* holds, whatever is opened and closed beside and whichever call fails.   *)
THEOREM PosixInductive == ASSUME OneThread PROVE PosixSpec => []PosixInv
<1>1. PosixInit => PosixInv
  BY PosixStart
<1>2. PosixInv /\ [PosixNext]_<<vars, posix>> => PosixInv'
  BY PosixKeeps
<1> QED BY <1>1, <1>2, PTL DEF PosixSpec

(* A descriptor leads back to the object it was opened for and to no       *)
(* other: the search devblk_close and devblk_fstat make by the value of    *)
(* the OS handle (windevblk_posix.c:76) is never led astray by values that *)
(* come again or by descriptors the CRT was not told of.                   *)
THEOREM DescriptorsLeadHome == ASSUME OneThread PROVE PosixSpec => []LeadHome
<1>1. PosixInv => LeadHome
  BY Home
<1> QED BY <1>1, PosixInductive, PTL

(* The variables of the layer keep their types, and lists and descriptors  *)
(* name live objects.                                                      *)
THEOREM PosixTypeCorrect == ASSUME OneThread PROVE PosixSpec => []PosixTypeOK
<1>1. PosixInv => PosixTypeOK
  <2> SUFFICES ASSUME PosixInv PROVE PosixTypeOK
    OBVIOUS
  <2>1. \A fd \in Fds : given[fd] # Null => given[fd].obj \in Live /\ fds[fd] # Null
    BY Opened, Nulls DEF PosixInv, Owners, HasFd
  <2>2. \A t \in Threads : frame[t].at \in Places
    BY Frame DEF PosixInv
  <2> QED BY <2>1, <2>2 DEF PosixTypeOK, PosixInv, Kinds, Listing, crt, CrtSound
<1> QED BY <1>1, PosixInductive, PTL

(* No bad descriptor reaches the CRT while its own handler is there, in    *)
(* the first call of the process either (get_osfhandle-nothrow.c:77), and  *)
(* whatever handlers the program puts in; only with one it puts in after   *)
(* the shim's, which is installed but once, does the process end.          *)
THEOREM AlwaysAnswers == ASSUME OneThread PROVE PosixSpec => []BadFdsAnswered
<1>1. PosixInv => BadFdsAnswered
  BY DEF PosixInv, Reached, BadFdsAnswered
<1> QED BY <1>1, PosixInductive, PTL

(* Between calls no object and no OS handle is forgotten or counted twice, *)
(* but for those a devblk_open that got no descriptor dropped              *)
(* (windevblk_posix.c:63).                                                 *)
THEOREM ObjectsAllAccounted == ASSUME OneThread PROVE PosixSpec => []ObjectsAccounted
<1>1. PosixInv => ObjectsAccounted
  <2> DEFINE G == {given[fd].obj : fd \in HasFd}
             f == [fd \in HasFd |-> given[fd].obj]
  <2> SUFFICES ASSUME PosixInv, \A t \in Threads : frame[t] = Rest
               PROVE  /\ Live = G \cup kept \cup lost
                      /\ Cardinality(Live) = Cardinality(HasFd) + Cardinality(kept) + Cardinality(lost)
                      /\ {opened[o].handle : o \in Live} \subseteq osHandles
                      /\ \A o, p \in Live : opened[o].handle = opened[p].handle => o = p
    BY DEF ObjectsAccounted
  <2>1. \A t \in Threads : frame[t].at = "idle"
    BY DEF Rest
  <2>2. /\ {opened[o].handle : o \in Live} \subseteq osHandles
        /\ \A o, p \in Live : opened[o].handle = opened[p].handle => o = p
    BY <2>1 DEF PosixInv, Handles, Leaving
  <2>3. \A o \in Live : o \in G \cup kept \cup lost
    BY <2>1 DEF PosixInv, Owners, Unowned, Given, InCall
  <2>4. G \cup kept \cup lost \subseteq Live
    BY DEF PosixInv, Owners, Kinds
  <2>5. Live = G \cup kept \cup lost
    BY <2>3, <2>4
  <2>6. G \cap kept = {} /\ (G \cup kept) \cap lost = {}
    BY <2>4 DEF PosixInv, Owners, Given
  <2>7. IsFiniteSet(Objs) /\ IsFiniteSet(Fds) /\ HasFd \subseteq Fds /\ Live \subseteq Objs
    BY PosixAssumption DEF HasFd, Live
  <2>8. IsFiniteSet(HasFd) /\ IsFiniteSet(kept) /\ IsFiniteSet(lost)
    BY <2>4, <2>7, FS_Subset
  <2>9. f \in Bijection(HasFd, G)
    BY DEF PosixInv, Owners, Bijection, Injection, Surjection, IsInjective
  <2>10. ExistsBijection(HasFd, G)
    BY <2>9 DEF ExistsBijection
  <2>11. IsFiniteSet(G) /\ Cardinality(G) = Cardinality(HasFd)
    BY <2>8, <2>10, FS_Bijection
  <2>12. /\ IsFiniteSet(G \cup kept)
         /\ Cardinality(G \cup kept) = Cardinality(G) + Cardinality(kept) - Cardinality({})
    BY <2>6, <2>8, <2>11, FS_Union
  <2>13. Cardinality(Live) = Cardinality(G \cup kept) + Cardinality(lost) - Cardinality({})
    BY <2>5, <2>6, <2>8, <2>12, FS_Union
  <2>14. /\ Cardinality({}) = 0 /\ Cardinality(G) \in Nat
         /\ Cardinality(kept) \in Nat /\ Cardinality(lost) \in Nat
    BY <2>8, <2>11, FS_EmptySet, FS_CardinalityType
  <2> HIDE DEF G
  <2> QED BY <2>2, <2>5, <2>11, <2>12, <2>13, <2>14
<1> QED BY <1>1, PosixInductive, PTL

----------------------------------------------------------------------------
(* The table below the layer, for any number of threads.                   *)
LEMMA TableSteps ==
  ASSUME [PosixNext]_<<vars, posix>>
  PROVE  UNCHANGED vars \/ \E t \in Threads : (\E c : Begin(t, c)) \/ Continue(t)
BY AllCalled DEF PosixNext, Called

LEMMA TableBelow == PosixSpec => [](TableInv /\ InOrder)
<1>1. PosixInit => TableInv /\ InOrder
  BY TableStart, OrderStart DEF PosixInit
<1>2. TableInv /\ InOrder /\ [PosixNext]_<<vars, posix>> => TableInv' /\ InOrder'
  BY TableSteps, StaysKept, StepsKeep, OrderKept, OrderStays
<1> QED BY <1>1, <1>2, PTL DEF PosixSpec

(* Below the Posix calls of any number of threads, too, the entries show   *)
(* the layouts, the whole drives and the volumes, if the layouts number    *)
(* their partitions.                                                       *)
THEOREM LayerShowsDrives ==
  ASSUME LayoutsSound PROVE PosixSpec => [](Faithful /\ WholeDevice /\ VolumesTheirs)
<1>1. TableInv /\ InOrder => Faithful /\ WholeDevice /\ VolumesTheirs
  BY PartsShown, WholeShown, VolumesShown
<1> QED BY <1>1, TableBelow, PTL

(* And st_rdev and paths tell the entries apart, if the minors fit.        *)
THEOREM LayerTellsEntries == ASSUME MinorsFit PROVE PosixSpec => []PosixUnique
<1>1. TableInv /\ InOrder => PosixUnique
  BY NamesTold
<1> QED BY <1>1, TableBelow, PTL

(* In a program of one thread, the drives that answer are found after      *)
(* DevBlkInit, and enumerated by number, whatever it opens and closes.     *)
THEOREM LayerDetects ==
  ASSUME OneThread, BuildsSucceed, NumbersFit, NumbersDense
  PROVE  PosixSpec => []Detects /\ EnumFindsAll
<1> DEFINE Inv == Detecting /\ Calling /\ DOMAIN ret = Threads
<1>1. PosixInit => Inv
  BY DetectStart DEF PosixInit, Init
<1>2. TableInv /\ Inv /\ [PosixNext]_<<vars, posix>> => Inv'
  <2>1. ASSUME Inv, UNCHANGED vars PROVE Inv'
    BY <2>1, DetectStays DEF vars
  <2> QED BY <2>1, TableSteps, DetectKept, CallingKept, RetKept
<1>3. TableInv /\ Inv => [\A t \in Threads :
        Answer(t) /\ call[t].api = "drive" /\ call[t].number \in Used => ret'[t] # Null]_vars
  BY EnumAnswers
<1>4. Inv => Detects
  BY DrivesDetected
<1> QED BY <1>1, <1>2, <1>3, <1>4, TableBelow, PTL DEF PosixSpec, EnumFindsAll

----------------------------------------------------------------------------
(* What descriptors lead to shows the path they were opened by.            *)
THEOREM NamedInductive == ASSUME OneThread PROVE PosixSpec => []NamedInv
<1>1. PosixInit => NamedInv
  BY NamedStart
<1>2. PosixInv /\ PosixInv' /\ NamedInv /\ [PosixNext]_<<vars, posix>> => NamedInv'
  BY NamedKeeps
<1> QED BY <1>1, <1>2, PosixInductive, PTL DEF PosixSpec

(* The entry behind a descriptor.                                          *)
LEMMA BehindEntry ==
  ASSUME PosixInv, NamedInv, NEW fd \in HasFd
  PROVE  \E n \in Used :
           LET o == given[fd].obj IN
           /\ table[n] = opened[o].entry /\ <<n, opened[o].part>> \in Entries
           /\ Entry(n, opened[o].part) = filled[opened[o].entry][opened[o].part]
           /\ Entry(n, opened[o].part).posix.path = given[fd].path
<1> DEFINE o == given[fd].obj
           e == opened[o].entry
           p == opened[o].part
<1>1. o \in Live
  BY DEF PosixInv, Owners
<1>2. PICK n \in Used : table[n] = e
  BY <1>1 DEF PosixInv, Listing, Stored
<1>3. /\ p \in 0 .. PartSlots - 1 /\ Enumerated[e[2]].slots[p] # Null
      /\ Enumerated[e[2]].slots[p].posix.path = given[fd].path
  BY DEF NamedInv, GivenNamed, ShowsObject, Shows
<1>4. Entry(n, p) = Enumerated[e[2]].slots[p]
  <2>1. \A q \in 0 .. PartSlots - 1 : Entry(n, q) = Enumerated[table[n][2]].slots[q]
    BY ShownAt DEF PosixInv, NamedInv
  <2> HIDE DEF e, p
  <2> QED BY <1>2, <1>3, <2>1
<1>5. <<n, p>> \in Entries
  BY <1>3, <1>4 DEF Entries
<1>6. Entry(n, p) = filled[e][p]
  BY <1>2, <1>3 DEF Entry
<1> QED BY <1>2, <1>3, <1>4, <1>5, <1>6

(* What devblk_fstat tells of two descriptors differs exactly if the paths *)
(* they were opened by do.                                                 *)
THEOREM StatsTellPaths == ASSUME OneThread, MinorsFit PROVE PosixSpec => []StatTells
<1>1. PosixInv /\ NamedInv => StatTells
  <2> SUFFICES ASSUME PosixInv, NamedInv, NEW a \in HasFd, NEW b \in HasFd
               PROVE  StatOf(given[a].obj) = StatOf(given[b].obj) <=> given[a].path = given[b].path
    BY DEF StatTells
  <2> DEFINE p == opened[given[a].obj].part
             q == opened[given[b].obj].part
  <2>1. PICK n \in Used : /\ table[n] = opened[given[a].obj].entry /\ <<n, p>> \in Entries
                          /\ Entry(n, p) = filled[opened[given[a].obj].entry][p]
                          /\ Entry(n, p).posix.path = given[a].path
    BY BehindEntry
  <2>2. PICK m \in Used : /\ table[m] = opened[given[b].obj].entry /\ <<m, q>> \in Entries
                          /\ Entry(m, q) = filled[opened[given[b].obj].entry][q]
                          /\ Entry(m, q).posix.path = given[b].path
    BY BehindEntry
  <2>3. StatOf(given[a].obj) = RootDev(<<n, p>>) /\ StatOf(given[b].obj) = RootDev(<<m, q>>)
    BY <2>1, <2>2 DEF StatOf, DevOf, RootDev
  <2>4. PosixUnique
    BY NamesTold DEF PosixInv, NamedInv
  <2> HIDE DEF p, q
  <2>5. RootDev(<<n, p>>) = RootDev(<<m, q>>) => <<n, p>> = <<m, q>>
    BY <2>1, <2>2, <2>4 DEF PosixUnique
  <2>6. given[a].path = given[b].path => <<n, p>> = <<m, q>>
    <3> DEFINE A == <<n, p>>
               B == <<m, q>>
    <3>1. Entry(A[1], A[2]).posix.path = given[a].path /\ Entry(B[1], B[2]).posix.path = given[b].path
      BY <2>1, <2>2
    <3>2. A \in Entries /\ B \in Entries
      BY <2>1, <2>2
    <3> HIDE DEF A, B
    <3>3. Path(A) = given[a].path /\ Path(B) = given[b].path
      BY <3>1 DEF Path
    <3>4. given[a].path = given[b].path => A = B
      BY <2>4, <3>2, <3>3 DEF PosixUnique
    <3> QED BY <3>4 DEF A, B
  <2>7. <<n, p>> = <<m, q>> => n = m /\ p = q
    OBVIOUS
  <2> QED BY <2>1, <2>2, <2>3, <2>5, <2>6, <2>7
<1> QED BY <1>1, PosixInductive, NamedInductive, PTL

----------------------------------------------------------------------------
(* The descriptors as FileTable's.                                         *)
PathsOf == [fd \in Fds |-> IF given[fd] = Null THEN Null ELSE given[fd].path]
DevicesOf == [fd \in Fds |-> IF given[fd] = Null THEN Null ELSE Where(Behind(fd))]

(* Where an object is, told from its entry.                                *)
Located(o) == <<Present[opened[o].entry[2]].number, opened[o].part>>

LEMMA WhereIs ==
  ASSUME PosixInv, InOrder, NEW o \in Live
  PROVE  Where(o) = Located(o)
<1>1. o # Null
  BY Opened, Nulls DEF PosixInv
<1>2. \E n \in Used : table[n] = opened[o].entry
  BY DEF PosixInv, Listing, Stored
<1>3. \A n \in Used : table[n] = opened[o].entry => n = Present[opened[o].entry[2]].number
  BY ShownAt DEF PosixInv
<1>4. (CHOOSE n \in Used : table[n] = opened[o].entry) = Present[opened[o].entry[2]].number
  BY <1>2, <1>3
<1> QED BY <1>1, <1>4 DEF Where, Located

DevicesShown ==
  DevicesOf = [fd \in Fds |-> IF given[fd] = Null THEN Null ELSE Located(given[fd].obj)]

LEMMA DevicesAre == ASSUME PosixInv, InOrder PROVE DevicesShown
<1>1. ASSUME NEW fd \in Fds, given[fd] # Null PROVE Where(Behind(fd)) = Located(given[fd].obj)
  <2>1. fd \in HasFd
    BY <1>1 DEF HasFd
  <2>2. Behind(fd) = given[fd].obj /\ given[fd].obj \in Live
    BY <2>1, Home DEF LeadHome, PosixInv, Owners
  <2> QED BY <2>2, WhereIs
<1> QED BY <1>1 DEF DevicesOf, DevicesShown

(* SetPosixInfo's path is the one Linux has for the partition.             *)
LEMMA PathIs ==
  ASSUME PosixInv, InOrder, NEW e \in Stored, NEW p, NEW path, Shows(e, p, path)
  PROVE  LET n == Present[e[2]].number
         IN  n \in 0 .. Slots - 1 /\ path = <<Files!LinuxLetters(n), p>>
<1> DEFINE i == e[2]
           n == Present[i].number
<1>1. PICK m \in Used : table[m] = e
  BY DEF Stored
<1>2. /\ n = m /\ DriveAt(m) = i /\ i \in 1 .. Len(Present) /\ HasName(i)
      /\ m \in Nat /\ m < Slots /\ m \in 0 .. Slots - 1
  BY <1>1, ShownAt, EntryIs DEF PosixInv, Used
<1>3. /\ p \in 0 .. PartSlots - 1 /\ Enumerated[i].slots[p] # Null
      /\ Enumerated[i].slots[p].posix.path = path
  BY DEF Shows
<1>4. PICK x : Enumerated[i].slots[p].posix = PosixInfo(Present[i], p, x)
  BY <1>2, <1>3, TurnOf DEF Turn
<1>5. n \in Nameable
  BY <1>2, SlotsNameable
<1>6. n < BlkPerMajor /\ n \in Nat /\ ~(n >= BlkPerMajor)
  BY <1>2, Bounds DEF HasName
<1>7. path = <<Letters(n), p>>
  <2> HIDE DEF i
  <2> QED BY <1>3, <1>4, <1>6 DEF PosixInfo
<1>8. LinuxLetters(n) = Letters(n)
  BY <1>5, LettersOfLinux
<1>9. Files!LinuxLetters(n) = LinuxLetters(n)
  BY DEF Files!LinuxLetters, LinuxLetters
<1> QED BY <1>2, <1>7, <1>8, <1>9

LEMMA FilesStay ==
  ASSUME DevicesShown, DevicesShown', UNCHANGED given,
         \A fd \in HasFd : opened'[given[fd].obj] = opened[given[fd].obj]
  PROVE  UNCHANGED <<PathsOf, DevicesOf>>
<1>1. \A fd \in Fds : given[fd] # Null => Located(given[fd].obj)' = Located(given[fd].obj)
  BY DEF Located, HasFd
<1>2. DevicesOf' = [fd \in Fds |-> IF given'[fd] = Null THEN Null ELSE Located(given[fd].obj)']
  BY DEF DevicesShown, Located
<1>3. DevicesOf' = DevicesOf
  BY <1>1, <1>2 DEF DevicesShown
<1> QED BY <1>3 DEF PathsOf

(* A descriptor is given.                                                  *)
LEMMA FilesOpen ==
  ASSUME OneThread, PosixInv, PosixInv', NamedInv, DevicesShown, DevicesShown', NEW t \in Threads, Wrap(t)
  PROVE  Files!Next \/ UNCHANGED <<PathsOf, DevicesOf>>
<1> DEFINE o == frame[t].obj
           gift == [path |-> frame[t].path, obj |-> o]
           n == Present[opened[o].entry[2]].number
           p == opened[o].part
<1>0. opened' = opened /\ frame[t].at = "wrap"
  BY DEF Wrap, registry
<1>1. CASE given' = given
  BY <1>0, <1>1, FilesStay
<1>2. CASE given' # given
  <2>1. PICK fd \in Fds : fds[fd] = Null /\ given' = [given EXCEPT ![fd] = gift]
    BY <1>2 DEF Wrap
  <2>2. o \in Live /\ gift.obj = o /\ gift.path = frame[t].path /\ gift \in Gifts
    BY <1>0 DEF PosixInv, Reached, Gifts, Live
  <2>3. gift # Null
    BY <2>2, Nulls
  <2>4. given[fd] = Null
    <3>1. fd \notin HasFd
      BY <2>1, Opened, Nulls DEF PosixInv, Owners
    <3> QED BY <3>1 DEF HasFd
  <2>5. n \in 0 .. Slots - 1 /\ frame[t].path = <<Files!LinuxLetters(n), p>> /\ p \in 0 .. PartSlots - 1
    <3>1. ShowsObject(o, frame[t].path)
      BY <1>0 DEF NamedInv, CallsNamed
    <3>2. opened[o].entry \in Stored
      BY <2>2 DEF PosixInv, Listing
    <3> QED BY <3>1, <3>2, PathIs DEF ShowsObject, NamedInv, Shows
  <2> HIDE DEF gift, n, p
  <2>6. given'[fd] = gift /\ \A a \in Fds : a # fd => given'[a] = given[a]
    BY <2>1 DEF PosixInv, Kinds
  <2>7. PathsOf[fd] = Null /\ PathsOf' = [PathsOf EXCEPT ![fd] = <<Files!LinuxLetters(n), p>>]
    BY <2>2, <2>3, <2>4, <2>5, <2>6 DEF PathsOf
  <2>8. Located(o) = <<n, p>> /\ \A x : Located(x)' = Located(x)
    BY <1>0 DEF Located, n, p
  <2>9. DevicesOf' = [DevicesOf EXCEPT ![fd] = <<n, p>>]
    <3>1. DevicesOf' = [a \in Fds |-> IF given'[a] = Null THEN Null ELSE Located(given[a].obj)']
      BY DEF DevicesShown, Located
    <3>2. given'[fd] # Null /\ Located(given[fd].obj)' = <<n, p>>
      BY <2>2, <2>3, <2>6, <2>8, <1>0 DEF Located
    <3>3. \A a \in Fds : a # fd => Located(given[a].obj)' = Located(given[a].obj)
      BY <2>6, <1>0 DEF Located
    <3> QED BY <3>1, <3>2, <3>3, <2>6 DEF DevicesShown
  <2> HIDE DEF o
  <2>10. \E m \in 0 .. Slots - 1, q \in 0 .. PartSlots - 1 : Files!Open(fd, m, q)
    BY <2>5, <2>7, <2>9 DEF Files!Open, PathsOf, DevicesOf
  <2> QED BY <2>10 DEF Files!Next, Files!Open, Files!Close
<1> QED BY <1>1, <1>2

(* A descriptor is taken back.                                             *)
LEMMA FilesClose ==
  ASSUME OneThread, PosixInv, PosixInv', NamedInv, DevicesShown, DevicesShown', NEW t \in Threads, Unlink(t)
  PROVE  Files!Next \/ UNCHANGED <<PathsOf, DevicesOf>>
<1> DEFINE o == frame[t].obj
           fd == frame[t].fd
<1>1. /\ given' = IF fd = Null THEN given ELSE [given EXCEPT ![fd] = Null]
      /\ opened' = [opened EXCEPT ![o] = Null] /\ frame[t].at = "unlink"
  BY DEF Unlink
<1>2. \A a \in HasFd' : given'[a].obj # o /\ opened'[given'[a].obj] = opened[given'[a].obj]
  <2>1. \A a \in HasFd' : given'[a].obj \in Live'
    BY DEF PosixInv, Owners
  <2>2. \A x \in Live' : x # o /\ opened'[x] = opened[x]
    BY <1>1 DEF Live, PosixInv, Kinds
  <2> QED BY <2>1, <2>2
<1>3. CASE fd = Null
  <2>1. given' = given /\ HasFd' = HasFd
    BY <1>1, <1>3 DEF HasFd
  <2> QED BY <1>2, <2>1, FilesStay
<1>4. CASE fd # Null
  <2>1. fd \in HasFd /\ fd \in Fds /\ given[fd] # Null /\ given[fd] \in Gifts
    BY <1>1, <1>4 DEF PosixInv, Reached, HasFd, Kinds
  <2>2. given'[fd] = Null /\ \A a \in Fds : a # fd => given'[a] = given[a]
    BY <1>1, <1>4, <2>1 DEF PosixInv, Kinds
  <2>3. PathsOf' = [PathsOf EXCEPT ![fd] = Null]
    BY <2>1, <2>2 DEF PathsOf
  <2>4. PathsOf[fd] # Null
    <3>1. given[fd].path # Null
      BY <2>1 DEF NamedInv, GivenNamed, ShowsObject
    <3> QED BY <2>1, <3>1 DEF PathsOf
  <2>5. DevicesOf' = [DevicesOf EXCEPT ![fd] = Null]
    <3>1. DevicesOf' = [a \in Fds |-> IF given'[a] = Null THEN Null ELSE Located(given[a].obj)']
      BY DEF DevicesShown, Located
    <3>2. \A a \in Fds : a # fd /\ given'[a] # Null => Located(given[a].obj)' = Located(given[a].obj)
      BY <1>2, <2>2 DEF Located, HasFd
    <3> QED BY <3>1, <3>2, <2>1, <2>2 DEF DevicesShown
  <2>6. Files!Close(fd)
    BY <2>3, <2>4, <2>5 DEF Files!Close, PathsOf, DevicesOf
  <2> QED BY <2>1, <2>6 DEF Files!Next, Files!Open, Files!Close
<1> QED BY <1>3, <1>4

LEMMA FilesStep ==
  ASSUME OneThread, PosixInv, PosixInv', NamedInv, DevicesShown, DevicesShown',
         [PosixNext]_<<vars, posix>>
  PROVE  Files!Next \/ UNCHANGED <<PathsOf, DevicesOf>>
<1>0. \A fd \in HasFd : given[fd].obj \in Live
  BY DEF PosixInv, Owners
<1>1. CASE UNCHANGED <<vars, posix>>
  BY <1>0, <1>1, FilesStay DEF posix, registry
<1>2. ASSUME NEW t \in Threads, PosixCall(t)
      PROVE  UNCHANGED <<PathsOf, DevicesOf>>
  <2>1. UNCHANGED <<opened, given>>
    BY <1>2 DEF PosixCall, DevblkOpen, DevblkClose, DevblkFstat, DevBlkOpen, DevBlkClose, Query,
     ReplaceHandler, registry
  <2> QED BY <1>0, <2>1, FilesStay
<1>3. ASSUME NEW t \in Threads, LookedUp(t) \/ CloseHandle(t) \/ Below(t)
      PROVE  UNCHANGED <<PathsOf, DevicesOf>>
  <2>1. UNCHANGED <<opened, given>>
    BY <1>3 DEF LookedUp, CloseHandle, Below, posix, registry
  <2> QED BY <1>0, <2>1, FilesStay
<1>4. ASSUME NEW t \in Threads, Attach(t)
      PROVE  UNCHANGED <<PathsOf, DevicesOf>>
  <2>1. given' = given /\ \A o \in Live : opened'[o] = opened[o]
    BY <1>4 DEF Attach, NoObject, PosixInv, Kinds, Live
  <2> QED BY <1>0, <2>1, FilesStay
<1> QED BY <1>0, <1>1, <1>2, <1>3, <1>4, FilesOpen, FilesClose DEF PosixNext, PosixStep

(* The descriptors of one thread implement FileTable: each is, through the *)
(* CRT's table, the search by handle value and the entry, the partition    *)
(* Linux calls by the path it was opened by, until it is closed.           *)
THEOREM DescriptorsAreFiles == ASSUME OneThread PROVE PosixSpec => ImplementsFiles
<1>1. PosixInit => Files!Init
  BY DEF PosixInit, Files!Init
<1>2. PosixInv /\ PosixInv' /\ NamedInv /\ DevicesShown /\ DevicesShown' /\ [PosixNext]_<<vars, posix>>
        => [Files!Next]_<<PathsOf, DevicesOf>>
  BY FilesStep
<1>3. PosixInv /\ PosixInv' /\ NamedInv /\ DevicesShown /\ DevicesShown' /\ [PosixNext]_<<vars, posix>>
        => [Files!Next]_<<[fd \in Fds |-> IF given[fd] = Null THEN Null ELSE given[fd].path],
                          [fd \in Fds |-> IF given[fd] = Null THEN Null ELSE Where(Behind(fd))]>>
  BY <1>2 DEF PathsOf, DevicesOf
<1>4. PosixInv /\ NamedInv => DevicesShown
  BY DevicesAre DEF NamedInv
<1> QED BY <1>1, <1>3, <1>4, PosixInductive, NamedInductive, PTL DEF PosixSpec, ImplementsFiles, Files!Spec
=============================================================================

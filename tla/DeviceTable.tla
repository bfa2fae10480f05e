----------------------------- MODULE DeviceTable -----------------------------
(* DevBlkInit, BuildDeviceList and the queries over g_devblk_array         *)
(* (src/src/windevblk.c, src/src/windevblk_list.c).                        *)
(*                                                                         *)
(* The first call of the library enumerates the disks and stores, one by   *)
(* one, an entry per drive in a table indexed by device number; later      *)
(* calls only read the table.  "The first" is decided by a flag that is    *)
(* tested and set without a lock, so several threads may build, and others *)
(* may read what is there so far.  An action is one OS call of the build,  *)
(* or one access to the flag or the table; filling in an entry is private  *)
(* to the thread until the entry is stored.                                *)
(*                                                                         *)
(* Abstracted: identification strings (module DriveStrings), the buffers   *)
(* BuildDeviceList mallocs and never frees, and a failing calloc of the    *)
(* entry, which the code does not test.  A volume stands for the fields    *)
(* that are copied from it.  A scan of the table by a query is one action. *)
EXTENDS FiniteSets, PosixNames

CONSTANTS
  Threads,
  Present,     \* the disks, in the order SetupDi enumerates them: sequence of
               \* [number, removable, ready, size, parts]; a drive that is not
               \* ready (no medium) fails the queries of its geometry; parts
               \* is its layout, a sequence of [number, start, size]
  Volumes,     \* the mounted volumes, in the order of FindNextVolume: sequence
               \* of [readable, recognised, reachable, extents], extents a set
               \* of [disk, start, size]; one that is not readable cannot be
               \* opened or asked for them; of one that is not recognised (its
               \* file system is unknown or locked) GetVolumeInformation fails,
               \* of one not reachable GetVolumePathNamesForVolumeName
  Slots,       \* 128, the length of g_devblk_array
  PartSlots,   \* 129, the length of Partitions
  BlkPerMajor, \* 2^18, the device numbers SetPosixInfo can name
  MajorBit,    \* 8 << 8, what makedev(8, minor) ors to the minor
  Numbers,     \* device numbers callers ask for
  Parts,       \* partition numbers callers ask for
  Faults,      \* names of the calls that may fail
  Null

(* What an entry has in a slot: a path and a device number, bytes of the   *)
(* disk, the volume whose names, serial number and flags it shows, and the *)
(* one whose szVolumePathName it shows.                                    *)
Extents == [start : Nat, end : Nat,
            volume : DOMAIN Volumes \cup {Null}, mount : DOMAIN Volumes \cup {Null},
            posix : [path : (Seq(Int) \X Nat) \cup {Null}, rootDev : Nat]]
Partitions == [0 .. PartSlots - 1 -> Extents \cup {Null}]

ASSUME TableAssumption ==
  /\ Slots \in Nat \ {0} /\ PartSlots \in Nat \ {0}
  /\ BlkPerMajor \in Nat /\ Slots <= BlkPerMajor /\ BlkPerMajor <= 262144
  /\ MajorBit \in Nat \ {0}
  /\ Numbers \subseteq Nat /\ Parts \subseteq Nat
  /\ Len(Present) \in Nat /\ DOMAIN Present = 1 .. Len(Present)
  /\ \A i, j \in DOMAIN Present : Present[i].number = Present[j].number => i = j
  /\ Null \notin Threads \X (1 .. Len(Present)) /\ Null \notin DOMAIN Volumes
  /\ Null \notin Extents /\ Null \notin Partitions
  /\ \A i \in DOMAIN Present :
       /\ Present[i].number \in Nat /\ Present[i].size \in Nat
       /\ Len(Present[i].parts) \in Nat
       /\ DOMAIN Present[i].parts = 1 .. Len(Present[i].parts)
       /\ Present[i].removable \in BOOLEAN /\ Present[i].ready \in BOOLEAN
       /\ \A k \in DOMAIN Present[i].parts :
            /\ Present[i].parts[k].number \in 0 .. PartSlots - 1
            /\ Present[i].parts[k].start \in Nat /\ Present[i].parts[k].size \in Nat
  /\ DOMAIN Volumes \subseteq Nat
  /\ \A v \in DOMAIN Volumes :
       {Volumes[v].readable, Volumes[v].recognised, Volumes[v].reachable} \subseteq BOOLEAN

VARIABLES
  inited,      \* g_bIsInited
  table,       \* g_devblk_array: per slot Null or the entry stored
  filled,      \* contents of the SMI_RAWDEV_ENTRYs, by entry
  alloc,       \* entries allocated
  osOpen,      \* device handles the builds have open
  builds,      \* history: how many times BuildDeviceList was entered
  pc, call,    \* where each thread is, and the API call it serves
  index,       \* its deviceIndex
  minor,       \* its minor
  hDevice, raw, \* its hDevice and rawDevEntry, Null when they are
  count,       \* its driveCount
  ret          \* the result of its last call

shared == <<inited, table, filled, alloc, osOpen, builds>>
locals == <<index, minor, hDevice, raw, count>>
vars == <<shared, pc, call, locals, ret>>

Labels == {"idle", "check", "set", "classDevs", "enum", "detail", "open",
           "number", "query", "layout", "store", "exit", "count", "answer"}

(* An entry, and the handle it is read through, are named by who built it. *)
Ids == Threads \X (1 .. Len(Present))
NoCall == [api |-> "none"]

----------------------------------------------------------------------------
(* What BuildDeviceList puts in an entry.                                  *)

MakeDev(m) == IF (m \div MajorBit) % 2 = 1 THEN m ELSE m + MajorBit

(* Name and RootDev of partition part of a drive; minors are handed out in *)
(* the order of the enumeration.                                           *)
PosixInfo(dev, part, m) ==
  IF dev.number >= BlkPerMajor THEN [path |-> Null, rootDev |-> 0]
  ELSE [path |-> <<Letters(dev.number), part>>, rootDev |-> MakeDev(m)]

(* Mutant of NextMinor: the minor is not advanced for small device numbers. *)
NextMinorSame(dev, m) == IF dev.number >= BlkPerMajor THEN m + 1 ELSE m

NextMinor(dev, m) == IF dev.number >= BlkPerMajor THEN m ELSE m + 1

(* Mutants of SlotOf: partitions are numbered by their place in the        *)
(* layout; the place of a removable drive's is counted from 0.             *)
SlotOfPlace(dev, k) == k
SlotOfZeroBased(dev, k) == IF dev.removable THEN k - 1 ELSE dev.parts[k].number

(* Where the k-th partition of the layout goes.                            *)
SlotOf(dev, k) == IF dev.removable THEN k ELSE dev.parts[k].number

(* Mutant of IsExtent: an extent of any disk will do.                      *)
IsExtentAnywhere(x, diskno, start, size) == x.start = start /\ x.size = size

IsExtent(x, diskno, start, size) == x = [disk |-> diskno, start |-> start, size |-> size]

(* The first volume one of whose extents is the partition.                 *)
FindVolume(diskno, start, size) ==
  LET on == {v \in DOMAIN Volumes : Volumes[v].readable
               /\ \E x \in Volumes[v].extents : IsExtent(x, diskno, start, size)}
  IN  IF on = {} THEN Null ELSE CHOOSE v \in on : \A w \in on : v <= w

Recognised == {v \in DOMAIN Volumes : Volumes[v].recognised}
Reachable == {v \in DOMAIN Volumes : Volumes[v].reachable}

(* A field copied from the volume found, if it is one of those that give   *)
(* it; the field keeps what it held otherwise.                             *)
Copied(found, givers, held) == IF found \in givers THEN found ELSE held

Extent(start, size, posix, volume, mount) ==
  [start |-> start, end |-> start + size, posix |-> posix, volume |-> volume, mount |-> mount]

(* Slot 0 is for the whole disk.                                           *)
Whole(dev, m0) ==
  LET whole == Extent(0, dev.size, PosixInfo(dev, 0, m0), Null, Null)
  IN  [slots |-> [p \in 0 .. PartSlots - 1 |-> IF p = 0 THEN whole ELSE Null],
       minor |-> NextMinor(dev, m0)]

(* What the k-th partition of the layout makes of its slot.  The slot is   *)
(* written in place: one that is filled a second time keeps the fields     *)
(* that FindVolume does not write.                                         *)
PartOf(dev, k, got) ==
  LET part == dev.parts[k]
      p == SlotOf(dev, k)
      held == IF got.slots[p] = Null THEN [volume |-> Null, mount |-> Null] ELSE got.slots[p]
      found == FindVolume(dev.number, part.start, part.size)
  IN  Extent(part.start, part.size, PosixInfo(dev, p, got.minor),
             Copied(found, Recognised, held.volume), Copied(found, Reachable, held.mount))

(* The k-th partition of the layout, unless it is empty, goes to its slot. *)
Partition(dev, k, got) ==
  IF dev.parts[k].size = 0 THEN got
  ELSE [slots |-> [got.slots EXCEPT ![SlotOf(dev, k)] = PartOf(dev, k, got)],
        minor |-> NextMinor(dev, got.minor)]

(* How much of the layout is looked at.                                    *)
Scanned(dev) == IF Len(dev.parts) < PartSlots THEN Len(dev.parts) ELSE PartSlots - 1

(* The slots after each partition, and the next minor.                     *)
Filling(dev, m0) ==
  LET after[k \in 0 .. Scanned(dev)] ==
        IF k = 0 THEN Whole(dev, m0) ELSE Partition(dev, k, after[k - 1])
  IN  after

----------------------------------------------------------------------------
Init ==
  /\ inited = FALSE /\ builds = 0
  /\ table = [n \in 0 .. Slots - 1 |-> Null]
  /\ filled = [e \in Ids |-> Null] /\ alloc = {} /\ osOpen = {}
  /\ pc = [t \in Threads |-> "idle"] /\ call = [t \in Threads |-> NoCall]
  /\ index = [t \in Threads |-> 0] /\ minor = [t \in Threads |-> 0]
  /\ hDevice = [t \in Threads |-> Null] /\ raw = [t \in Threads |-> Null]
  /\ count = [t \in Threads |-> 0] /\ ret = [t \in Threads |-> Null]

Goto(t, l) == pc' = [pc EXCEPT ![t] = l]

(* CHK: a failure leaves the whole enumeration.                            *)
Succeeds(t, next) == Goto(t, next) /\ UNCHANGED <<call, ret>>
Fails(t) == Goto(t, "exit") /\ UNCHANGED <<shared, call, locals, ret>>

----------------------------------------------------------------------------
(* DevBlkInit: every call that looks a drive up starts with it, but for    *)
(* the lookup of a Posix path, which takes the table as it is.  The counts *)
(* are read by DevBlkGetDriveCount only.                                   *)

Looked(c) == IF c.api = "open" THEN "answer" ELSE "count"

Begin(t, c) ==
  /\ pc[t] = "idle"
  /\ call' = [call EXCEPT ![t] = c]
  /\ Goto(t, IF c.api = "path" THEN "answer" ELSE "check")
  /\ UNCHANGED <<shared, locals, ret>>

InitCheck(t) ==
  /\ pc[t] = "check"
  /\ Goto(t, IF inited THEN Looked(call[t]) ELSE "set")
  /\ UNCHANGED <<shared, call, locals, ret>>

InitSet(t) ==
  /\ pc[t] = "set"
  /\ inited' = TRUE
  /\ builds' = builds + 1
  /\ index' = [index EXCEPT ![t] = 0]
  /\ minor' = [minor EXCEPT ![t] = 0]
  /\ Goto(t, "classDevs")
  /\ UNCHANGED <<table, filled, alloc, osOpen, call, hDevice, raw, count, ret>>

----------------------------------------------------------------------------
(* BuildDeviceList                                                         *)

GetClassDevs(t) ==
  /\ pc[t] = "classDevs"
  /\ \/ Succeeds(t, "enum") /\ UNCHANGED <<shared, locals>>
     \/ "SetupDiGetClassDevs" \in Faults /\ Fails(t)

(* Mutant of EnumDeviceInterfaces: one device too many is asked for.       *)
EnumDeviceInterfacesPast(t) ==
  /\ pc[t] = "enum"
  /\ \/ /\ index[t] <= Len(Present)
        /\ Succeeds(t, "detail")
        /\ index' = [index EXCEPT ![t] = @ + 1]
        /\ UNCHANGED <<shared, minor, hDevice, raw, count>>
     \/ /\ ~(index[t] <= Len(Present)) \/ "SetupDiEnumDeviceInterfaces" \in Faults
        /\ Fails(t)

(* No further device, or a failure: the test of the last error decides     *)
(* only what is printed, and Error_Exit follows.                           *)
EnumDeviceInterfaces(t) ==
  /\ pc[t] = "enum"
  /\ \/ /\ index[t] < Len(Present)
        /\ Succeeds(t, "detail")
        /\ index' = [index EXCEPT ![t] = @ + 1]
        /\ UNCHANGED <<shared, minor, hDevice, raw, count>>
     \/ /\ ~(index[t] < Len(Present)) \/ "SetupDiEnumDeviceInterfaces" \in Faults
        /\ Fails(t)

GetInterfaceDetail(t) ==
  /\ pc[t] = "detail"
  /\ \/ Succeeds(t, "open") /\ UNCHANGED <<shared, locals>>
     \/ "SetupDiGetDeviceInterfaceDetail" \in Faults /\ Fails(t)

OpenDevice(t) ==
  LET h == <<t, index[t]>> IN
  /\ pc[t] = "open"
  /\ \/ /\ Succeeds(t, "number")
        /\ osOpen' = osOpen \cup {h}
        /\ hDevice' = [hDevice EXCEPT ![t] = h]
        /\ UNCHANGED <<inited, table, filled, alloc, builds, index, minor, raw, count>>
     \/ "CreateFile" \in Faults /\ Fails(t)

(* IOCTL_STORAGE_GET_DEVICE_NUMBER, then calloc of the entry.              *)
GetDeviceNumber(t) ==
  LET e == <<t, index[t]>> IN
  /\ pc[t] = "number"
  /\ \/ /\ Succeeds(t, "query")
        /\ alloc' = alloc \cup {e}
        /\ raw' = [raw EXCEPT ![t] = e]
        /\ UNCHANGED <<inited, table, filled, osOpen, builds, index, minor, hDevice, count>>
     \/ "IOCTL_STORAGE_GET_DEVICE_NUMBER" \in Faults /\ Fails(t)

(* IOCTL_STORAGE_QUERY_PROPERTY, IOCTL_DISK_GET_DRIVE_GEOMETRY_EX          *)
QueryDevice(t) ==
  /\ pc[t] = "query"
  /\ \/ /\ Present[index[t]].ready
        /\ Succeeds(t, "layout")
        /\ UNCHANGED <<shared, locals>>
     \/ /\ ~Present[index[t]].ready \/ "IOCTL_DISK_GET_DRIVE_GEOMETRY_EX" \in Faults
        /\ Fails(t)

(* IOCTL_DISK_GET_DRIVE_LAYOUT_EX, and all that is filled in from it.      *)
GetLayout(t) ==
  LET dev == Present[index[t]]
      full == Filling(dev, minor[t])[Scanned(dev)]
  IN
  /\ pc[t] = "layout"
  /\ \/ /\ Succeeds(t, "store")
        /\ filled' = [filled EXCEPT ![raw[t]] = full.slots]
        /\ minor' = [minor EXCEPT ![t] = full.minor]
        /\ UNCHANGED <<inited, table, alloc, osOpen, builds, index, hDevice, raw, count>>
     \/ "IOCTL_DISK_GET_DRIVE_LAYOUT_EX" \in Faults /\ Fails(t)

(* Mutant of Storable: the limit is one lower.                             *)
StorableFewer(n) == n < Slots - 2

(* The test before the entry is stored.                                    *)
Storable(n) == n < Slots - 1

(* Mutant of Store: rawDevEntry keeps its value.                           *)
StoreKeepsRaw(t) ==
  LET n == Present[index[t]].number IN
  /\ pc[t] = "store"
  /\ osOpen' = osOpen \ {hDevice[t]}
  /\ hDevice' = [hDevice EXCEPT ![t] = Null]
  /\ table' = [table EXCEPT ![n] = raw[t]]
  /\ Goto(t, "enum")
  /\ UNCHANGED <<inited, filled, alloc, builds, call, index, minor, raw, count, ret>>

(* CloseHandle, then the entry goes to its slot or is freed.               *)
Store(t) ==
  LET n == Present[index[t]].number IN
  /\ pc[t] = "store"
  /\ osOpen' = osOpen \ {hDevice[t]}
  /\ hDevice' = [hDevice EXCEPT ![t] = Null]
  /\ IF Storable(n)
     THEN table' = [table EXCEPT ![n] = raw[t]] /\ UNCHANGED alloc
     ELSE alloc' = alloc \ {raw[t]} /\ UNCHANGED table
  /\ raw' = [raw EXCEPT ![t] = Null]
  /\ Goto(t, "enum")
  /\ UNCHANGED <<inited, filled, builds, call, index, minor, count, ret>>

(* Mutant of Exit: the device handle stays open after a failure.           *)
ExitKeepsHandle(t) ==
  /\ pc[t] = "exit"
  /\ alloc' = alloc \ {raw[t]}
  /\ hDevice' = [hDevice EXCEPT ![t] = Null]
  /\ raw' = [raw EXCEPT ![t] = Null]
  /\ Goto(t, Looked(call[t]))
  /\ UNCHANGED <<inited, table, filled, osOpen, builds, call, index, minor, count, ret>>

(* Error_Exit, reached at the end of the enumeration as well.              *)
Exit(t) ==
  /\ pc[t] = "exit"
  /\ alloc' = alloc \ {raw[t]}
  /\ osOpen' = osOpen \ {hDevice[t]}
  /\ hDevice' = [hDevice EXCEPT ![t] = Null]
  /\ raw' = [raw EXCEPT ![t] = Null]
  /\ Goto(t, Looked(call[t]))
  /\ UNCHANGED <<inited, table, filled, builds, call, index, minor, count, ret>>

----------------------------------------------------------------------------
(* The queries, once DevBlkInit has returned.                              *)

Used == {n \in 0 .. Slots - 1 : table[n] # Null}
Entry(n, p) ==
  IF n \in Used /\ p \in 0 .. PartSlots - 1 THEN filled[table[n]][p] ELSE Null

CountDrives(t) ==
  /\ pc[t] = "count"
  /\ count' = [count EXCEPT ![t] = Cardinality(Used)]
  /\ Goto(t, "answer")
  /\ UNCHANGED <<shared, call, index, minor, hDevice, raw, ret>>

(* Mutant of Beyond: off by one.                                           *)
BeyondLast(n, c) == c > 0 /\ n >= c - 1

(* dwDeviceNumber > driveCount - 1 in unsigned arithmetic.                 *)
Beyond(n, c) == c > 0 /\ n > c - 1

(* The first entry with the path, by device and then by partition.         *)
WithPath(path) == {np \in Used \X (0 .. PartSlots - 1) :
  Entry(np[1], np[2]) # Null /\ Entry(np[1], np[2]).posix.path = path}

First(S) == CHOOSE a \in S : \A b \in S :
  a[1] < b[1] \/ (a[1] = b[1] /\ a[2] <= b[2])

Result(t, c) ==
  CASE c.api = "count" -> count[t]
    [] c.api = "drive" ->
         IF Beyond(c.number, count[t]) \/ c.number \notin Used THEN Null ELSE table[c.number]
    [] c.api = "devblk" ->
         IF Beyond(c.number, count[t]) THEN Null ELSE Entry(c.number, c.part)
    [] c.api = "open" ->
         IF Entry(c.number, c.part) = Null THEN Null ELSE <<table[c.number], c.part>>
    [] c.api = "path" -> IF WithPath(c.path) = {} THEN Null ELSE First(WithPath(c.path))

Answer(t) ==
  /\ pc[t] = "answer"
  /\ ret' = [ret EXCEPT ![t] = Result(t, call[t])]
  /\ Goto(t, "idle")
  /\ call' = [call EXCEPT ![t] = NoCall]
  /\ count' = [count EXCEPT ![t] = 0]
  /\ UNCHANGED <<shared, index, minor, hDevice, raw>>

----------------------------------------------------------------------------
Calls ==
  {[api |-> "count"]}
    \cup {[api |-> "drive", number |-> n] : n \in Numbers}
    \cup [api : {"devblk", "open"}, number : Numbers, part : Parts]
    \cup {[api |-> "path", path |-> <<LinuxLetters(n), p>>] : n \in Numbers, p \in Parts}

BuildStep(t) ==
  GetClassDevs(t) \/ EnumDeviceInterfaces(t) \/ GetInterfaceDetail(t) \/ OpenDevice(t)
    \/ GetDeviceNumber(t) \/ QueryDevice(t) \/ GetLayout(t) \/ Store(t) \/ Exit(t)

Continue(t) ==
  InitCheck(t) \/ InitSet(t) \/ BuildStep(t) \/ CountDrives(t) \/ Answer(t)

Next == \E t \in Threads : (\E c \in Calls : Begin(t, c)) \/ Continue(t)

Spec == Init /\ [][Next]_vars

----------------------------------------------------------------------------
(* Properties                                                              *)

Stored == {table[n] : n \in Used}

(* Slots hold entries some build allocated and filled in completely, and   *)
(* BuildDeviceList never goes past the devices there are.                  *)
TypeOK ==
  /\ inited \in BOOLEAN /\ builds \in Nat
  /\ table \in [0 .. Slots - 1 -> Ids \cup {Null}]
  /\ DOMAIN filled = Ids /\ alloc \subseteq Ids /\ osOpen \subseteq Ids
  /\ pc \in [Threads -> Labels]
  /\ \A t \in Threads : call[t] \in Calls \cup {NoCall}
  /\ index \in [Threads -> 0 .. Len(Present)] /\ minor \in [Threads -> Nat]
  /\ hDevice \in [Threads -> Ids \cup {Null}] /\ raw \in [Threads -> Ids \cup {Null}]
  /\ count \in [Threads -> 0 .. Slots]
  /\ \A e \in Stored : filled[e] # Null

(* However builds fail or race, the entry Error_Exit would free is         *)
(* allocated, in no slot of the table and not the one another build would  *)
(* free; the device handle it would close is open and not the one another  *)
(* build would close.  The table points to entries that are allocated, and *)
(* no two slots to the same one.                                           *)
Owned ==
  /\ \A t \in Threads : /\ raw[t] # Null => raw[t] \in alloc \ Stored
                        /\ hDevice[t] # Null => hDevice[t] \in osOpen
  /\ \A t, u \in Threads : t # u => /\ raw[t] # Null => raw[t] # raw[u]
                                    /\ hDevice[t] # Null => hDevice[t] # hDevice[u]
  /\ Stored \subseteq alloc
  /\ \A m, n \in 0 .. Slots - 1 : m # n /\ table[m] # Null => table[m] # table[n]

(* Between calls of the builds no device handle is open but those the      *)
(* threads still hold.  While no more than one build was entered, no entry *)
(* is allocated but those of the table and the one the build is at.        *)
NothingLost ==
  /\ builds <= 1 => alloc = Stored \cup ({raw[t] : t \in Threads} \ {Null})
  /\ osOpen = {hDevice[t] : t \in Threads} \ {Null}

DriveAt(n) == CHOOSE i \in DOMAIN Present : Present[i].number = n

(* Each partition that is not empty is found in its drive's entry, with    *)
(* the bytes of the layout.                                                *)
Faithful == \A n \in Used :
  LET dev == Present[DriveAt(n)] IN
  \A k \in DOMAIN dev.parts : dev.parts[k].size > 0 =>
    LET wanted == IF dev.removable THEN k ELSE dev.parts[k].number
    IN  /\ Entry(n, wanted) # Null
        /\ Entry(n, wanted).start = dev.parts[k].start
        /\ Entry(n, wanted).end = dev.parts[k].start + dev.parts[k].size

(* "The index 0 corresponds to the whole device" (README.md:20).           *)
WholeDevice == \A n \in Used :
  Entry(n, 0).start = 0 /\ Entry(n, 0).end = Present[DriveAt(n)].size

Entries == {np \in Used \X (0 .. PartSlots - 1) : Entry(np[1], np[2]) # Null}
RootDev(np) == Entry(np[1], np[2]).posix.rootDev
Path(np) == Entry(np[1], np[2]).posix.path

(* The st_rdev of devblk_fstat tells the entries apart, and a path leads   *)
(* back to its entry, as no other has it.                                  *)
PosixUnique == \A a, b \in Entries :
  a # b => RootDev(a) # RootDev(b) /\ Path(a) # Path(b)

(* A partition shows a volume it is an extent of, though disks may have    *)
(* the same layout and slots be written twice.  It shows none only if no   *)
(* volume that can be asked has it, or the first that has it, where        *)
(* FindVolume stops, does not give what is shown.                          *)
VolumesTheirs == \A np \in Entries : np[2] # 0 =>
  LET entry == Entry(np[1], np[2])
      here == [disk |-> np[1], start |-> entry.start, size |-> entry.end - entry.start]
      on == {v \in DOMAIN Volumes : Volumes[v].readable /\ here \in Volumes[v].extents}
      Theirs(shown, givers) ==
        IF shown = Null THEN on = {} \/ \E v \in on \ givers : \A w \in on : v <= w
                        ELSE shown \in on \cap givers
  IN  Theirs(entry.volume, Recognised) /\ Theirs(entry.mount, Reachable)

(* The device numbers of Linux, 16 minors a disk (proc_partitions.txt).    *)
LinuxMinors == \A np \in Entries : RootDev(np) = MajorBit + 16 * np[1] + np[2]

(* A drive that can be opened is one an enumeration comes across.          *)
EnumFindsAll == [][\A t \in Threads :
  Answer(t) /\ call[t].api = "drive" /\ call[t].number \in Used => ret'[t] # Null]_vars

(* Once a call has returned from DevBlkInit every drive that answered its  *)
(* queries is in the table.                                                *)
Detects == \A t \in Threads : pc[t] \in {"count", "answer"} /\ call[t].api # "path" =>
  \A i \in DOMAIN Present : Present[i].ready /\ Present[i].number < Slots => Present[i].number \in Used

(* "The first time DevBlkOpen will be called" (windevblk.c:52).            *)
BuiltOnce == builds <= 1
=============================================================================

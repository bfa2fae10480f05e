# libwindevblk: a TLA+ model, its checks and its proofs

libwindevblk lets a Windows program treat a partition, or a whole drive, as a
file. A partition has no OS handle of its own, so the library opens the drive
and confines the caller to a byte range by arithmetic. This directory models
the code under `src/src/`, checks it with TLC on small instances and proves with
TLAPS, for all of them, every safety property and every refinement the runs
check.

## 1. The system

| Component | Source | State | Operations |
|---|---|---|---|
| Positions and reads of an HDEVBLK | `windevblk.c` 255-508 | OS file pointer of `DriveHandle`; `CurAbsPos`, `CurRelPos` of the `DEVBLK_OBJECT` | `DevBlkSetPointer`, `DevBlkSetPointerEx`, `DevBlkRead`, `DevBlkWrite` (an empty stub), `DevBlkGetFileSizeEx` |
| Registry of open handles | `windevblk.c` 120-300, 510-544, `list.h` | one circular list of `DEVBLK_OBJECT`s per drive, the heap, the OS handles | `DevBlkOpen`, `DevBlkClose`, `DevBlkIsValidHandle`, `DevBlkFromDiskHandle`, `DevBlkGetDiskHandle` |
| Device table | `windevblk_list.c` 38-551, `windevblk.c` 44-118 | `g_bIsInited`, `g_devblk_array[128]`, per drive 129 partition entries | `DevBlkInit`, `BuildDeviceList`, `DevBlkGetDriveCount`, `DevBlkEnumDriveInfo`, `DevBlkEnumDevBlkInfo`, `GetDevBlkEntry`, `GetDevBlkInfoFromPosixPath` |
| Posix names | `windevblk_list.c` 178-207 | none | `SetPosixInfo` |
| Volume lookup | `windevblk_list.c` 555-650 | none | `FindVolume` |
| Identification strings | `windevblk_list.c` 652-749 | none | `flipAndCodeBytes` |
| Posix layer | `windevblk_posix.c` | C file descriptors of the CRT | `devblk_open`, `devblk_close`, `devblk_fstat` |
| Invalid-parameter shim | `get_osfhandle-nothrow.c` | the CRT's handler, installed once | `_get_osfhandle_nothrow` |
| Message loop | `windevblk_notif.c`, `dllmain.c` | `g_hThread`, `g_hWnd`, the window class, the window and what is sent to it | `CreateOnceMsgLoop`, `ThreadProc`, `WindowProc`, `DestroyMsgLoop`, `DllMain` |
| Sysfs emulation | `windevblk_sysfs.c` | none: the body is under `#if 0` | none |

How they interact. `DevBlkOpen` and the counting and enumerating functions start
with `DevBlkInit`, which on the first call starts the message loop's thread and
builds the device table; the lookup of a Posix path does not. `DevBlkOpen` looks
the entry up in the table, opens the drive through the OS, moves to the start
of the partition, and appends a `DEVBLK_OBJECT` to the list that hangs off the
drive's entry. Seeks and reads take the bounds from the entry and the position
from the object or the OS. `devblk_open` looks a path up, opens the HDEVBLK
found and wraps its OS handle in a C descriptor; `devblk_close` and
`devblk_fstat` find the HDEVBLK again by searching all lists for that OS
handle. The message loop counts device changes; nothing refreshes the table.
`DllMain` closes the loop's window when the DLL is unloaded.

What is hard. There is a critical section, but it is only ever initialised and
deleted, never entered: threads interleave between any two memory accesses. The
position exists three times and the copies are updated by separate steps, some
of which fail. The cut of a read at the end of the partition, its rounding to
sectors and the 32- and 64-bit conversions meet at the boundary. Nine OS calls
per drive can fail while the table is built. Object addresses, OS handle values
and descriptors are all reused by their owners. The unloading runs under the
loader lock, which the thread it waits for needs to start and to end. The test
program under `src/test` makes one pass through the happy path.

What makes each component correct:

* positions: a caller never seeks to, or reads, a byte outside its partition,
  is never given more than it asked for, and the copies of the position agree
  whenever no call is under way; a partition behaves as a file;
* registry: what a caller holds is what traversals find, in any order of calls
  and while another thread opens; every OS handle is accounted for; traversals
  end and never touch freed memory;
* table: what the drives reported is what lookups return; slot 0 is the whole
  drive; paths and device numbers identify entries; a partition shows the
  volume mounted from it and no other; failures and races leave nothing
  half-built, leaked or freed twice;
* names and strings: drives are named as Linux names them; text comes out
  decoded or as it was, trimmed, with nothing left of a reading given up;
* Posix layer: a descriptor leads back to its own object and partition until it
  is closed; bad descriptors are answered, even in the first call; every
  object has an owner;
* message loop: at most one window, closed, and unregistered, before the code is
  unmapped; `DllMain` returns; the thread ends; changes are counted.

## 2. The modules

| Module | Models | Checked by |
|---|---|---|
| `DevBlkIO` | positions and reads of one HDEVBLK | `io_*` |
| `PartitionFile` | abstract: a partition as a file with one position | `ImplementsFile` |
| `DevBlkHandles` | the registry over `list.h` | `handles_*` |
| `HandleList` | abstract: per drive, the open handles in order | `ImplementsList` |
| `PosixNames` | `SetPosixInfo`'s letters, and Linux's | used by the next three |
| `DeviceTable` | `DevBlkInit`, `BuildDeviceList`, `FindVolume`, the lookups | `table_*`, `posix_calls` |
| `DriveStrings` | `SetPosixInfo`, `flipAndCodeBytes` | `strings*` |
| `PosixFiles` | the Posix layer and the shim over `DeviceTable` and `HandleList` | `posix_*` |
| `FileTable` | abstract: descriptors as Linux partitions | `ImplementsFiles` |
| `MsgLoop` | the message loop, `DllMain`, the loader | `loop*` |
| `MC...` | instances for TLC and the refinement mappings; `MsgLoop` needs none | |
| `..._proofs` | the theorems (section 4) | TLAPS |
| `NatRecursion` | induction and recursion over numbers, for the proofs | TLAPS |

The grain is the same everywhere but in `PosixFiles`: an action is one OS call,
or one store to (or read of) a location another thread can see, together with
the private computation around it. Program locations are in `pc`, a call's
locals are per-thread functions, and a return resets them.

**DevBlkIO.** One HDEVBLK is enough: distinct ones share neither file pointer
nor object. `filePos` is the OS's pointer, `curAbs` and `curRel` the fields of
the object; `lPos`, `want`, `got` are `lPos`, `dwBytesToRead`, `dwReadBytes`.
`SeekBegin` is the code up to the second `SetFilePointerEx` of
`DevBlkSetPointerEx`, `SeekMove` that call, `SeekStoreAbs` and `SeekStoreRel`
the stores, `SeekReturn` the read-back into `*lpNewFilePointer`. The history
variable `asked` keeps the method and the distance the seek was called with, so
that where it lands can be compared with where it was told to go. `ReadBegin` is
`DevBlkRead` up to `ReadFile`; `ReadFile`, `ReadSync` and the two stores
follow. `Dword`, `Long`, `Quad` are the machine's conversions and signed
overflow wraps. A `ReadFile` on a physical drive takes whole sectors at a
sector boundary only; it is external. An uninitialised `HighPart` is any value.
`escapes` is a history variable: it records the four events after which the
code no longer keeps its promise (section 5), so that `Confined` and `Synced`
can say "until then".

**PartitionFile.** A call is first asked, with its arguments (`Ask`, the
variable `call`), and answered in a later step, by those arguments: `Seek`
lands where they say or at the nearer end, `Read` returns the bytes asked for
that are left, `Fail` leaves the position alone. The mapping in `MCDevBlkIO`
takes `call` from `asked` and `req`, so a seek or a read that does something
else than it was told is no step of the file.

**DevBlkHandles.** Objects are heap addresses and may be reused, and so are OS
handle values; the heap is finite. Drives double as list heads. `Calloc` ends with the private half
of `InsertTailList`, `LinkPrev` and `LinkHead` are its two visible stores;
`UnlinkPrev` and `UnlinkNext` are those of `RemoveEntryList`. A traversal is a
step per node. Touching freed memory leads to the location `undefined`, from
which nothing is described. Callers close what they hold, once: that is the
contract of any close. They may ask `DevBlkIsValidHandle` about any pointer.

**DeviceTable.** `Present` is what is plugged in, `Volumes` what is mounted,
`Slots` stands for 128, `PartSlots` for 129. Each OS call of `BuildDeviceList`
is an action that may fail; `Filling` is the loop over the layout:
`Whole` fills slot 0, `Partition` one turn's slot, with the name, the device
number and the volume of each partition. A volume stands for
the fields `FindVolume` copies from it; the search takes the first volume that
can be asked and has the partition as an extent, and stops there. Of a volume
that is not `recognised` `GetVolumeInformation` fails, of one that is not
`reachable` `GetVolumePathNamesForVolumeName`: the fields they would give keep
what they held (`Copied`), nothing in a slot written once and the first
partition's in a slot written twice. A Posix path is the pair of
its letters and its partition number, 0 where there is none; since letters end
where digits begin, pairs are equal exactly when the spelled paths are. An
entry, and the handle it is read through, are named by the thread that made it
and the turn of its loop.

**DriveStrings.** A step is one turn of a loop of `flipAndCodeBytes` over a
sequence of character codes: the attempt to read hex codes, the attempt to read
text, the trimming. The function's tests for a negative `char` are modelled
with the one byte, 255, that equals the code's -1. `iFlip`, the byte order, is
0 in every call and left out. `SetPosixInfo` is one step.

**PosixFiles** extends `DeviceTable` and composes it with the registry. The
registry is `HandleList`, one list of objects per entry, with an insertion, a
removal and a search as one action each: that the links of `list.h` implement
it is what `ImplementsList` checks. `frame` holds the call that is above
`DeviceTable`'s (a lookup, or an open on what the lookup found) and its locals.
`fds` is the CRT's table; `given` is a history variable, the path and object a
descriptor was returned for; `kept` are HDEVBLKs programs opened beside the
Posix layer; `lost` collects objects `devblk_open` drops when it gets no
descriptor. The order inside `DevBlkClose` is kept: the OS handle is closed,
then the object leaves its list. `devblk_close` never tells the CRT, so
descriptors keep the values of closed handles and those values come again.
`handler` is the process-wide invalid-parameter handler: the CRT's own, the
shim's or one the program sets, at any time (`ReplaceHandler`). `installed` is
`msvc_nothrow_initialized`: the shim installs its handler in the first call of
a process only. The test, the installation and `_get_osfhandle` are one action;
the location `abort` is a bad descriptor meeting another handler than the
shim's, by which the process may end.

**MsgLoop.** A window is named by the thread that owns it. `Start` and `End`
need the loader lock, which `FreeLibrary` holds from `DestroyMsgLoop` to
`Unmap`. Each of `ThreadProc`'s calls is an action; a message is dispatched by
`DeviceChange` or by `CloseUnregister` and `CloseDestroy`. `LoadLibrary` gives
the DLL's variables their initial values while the window class, which belongs
to the process, stays; `gen` tells which load a thread's code is from. A thread
whose code is unmapped crashes the process at its next instruction.
`UnregisterDeviceNotification` may fail, and the window is destroyed all the
same; the history variable `left` keeps the windows it failed for. A process
that is over, by a crash or by `ExitProcess`, has no threads and no windows
(`Over`). `BuildDeviceList` is a single step here: only the moment counts.

## 3. The runs

Bounds are the CONSTANTS of the cfg files; no run has a state constraint.
`handles_concurrent` and `posix_calls` use symmetry of addresses and OS handle
values, which the models only compare for equality, and check no liveness.

| Run | What it shows |
|---|---|
| `io_sequential` | One caller. `TypeOK`; `Confined`: until an escape the position and every read are inside the partition and fit the buffer; `Synced`: the three copies agree between calls; `IOInv`: the inductive invariant of the proofs; `ImplementsFile`: each call does with its arguments what `PartitionFile` does with them, and a failed one leaves the position alone, but for what `Beside` names. |
| `io_seek_race` | Two threads seek on one handle, with failures: the copies may disagree, but none ever leaves the partition (`SeeksInside`). |
| `io_reader` | A caller reading whole sectors, retrying failed reads, reaches the end (`ReachesEnd`). |
| `handles_sequential` | One thread, two drives, all faults. `HandlesAccounted`: between calls the open OS handles are those of the live objects plus those a failed `DevBlkOpen` dropped; `AnswersRight`: the queries answer by what is held, though addresses and handle values are reused; `CallsReturn`: every traversal ends. |
| `handles_concurrent` | One thread opens on drive 0; another traverses both lists and opens and closes on drive 1. `HeldListed`, `NoUndefined`, `Rings`, `ImplementsList`: an open publishes its entry fully linked, so queries need no lock against it, and drives do not disturb each other. |
| `table_race` | Two threads enter `DevBlkInit`, any call of either build fails. `Owned`: what Error_Exit frees or closes is live and nobody else's, and the table points to live entries, to each once; `NothingLost`: nothing else stays open or, after one build, allocated. |
| `strings` | `NamesAsLinux`: every device number near a change of length, up to the last one that is named, has the name bijective base 26 gives it. `Decodes`: every text of up to four characters from an alphabet of corner cases comes out as a reference definition says. |
| `posix_calls` | Three drives enumerated out of order and four volumes; one thread opens and closes by path and by number and enumerates, and calls fail. Of the table: `Faithful`, `WholeDevice`, `PosixUnique`, `VolumesTheirs`, `Detects`, `EnumFindsAll`. Of the descriptors: `LeadHome`, a descriptor leads to the object it was opened for though handle values are reused and old descriptors still hold them; `ObjectsAccounted`; `StatTells`; `BadFdsAnswered`; `ImplementsFiles`, the whole refines `FileTable`. |
| `loop` | Two threads make first calls, devices change, calls fail, the DLL is unloaded, loaded and unloaded again, the process exits at any time. `OneWindow`, `Unregistered`, `DetachCloses` (but for what Windows refuses to take back); `DetachReturns`: no deadlock under the loader lock; `ThreadEnds`; `ChangesCounted`; `Listens`: the first load gets its window unless something failed. |
| `io_bug_round`, `handles_bug_close`, `table_bug_reader` | The code disagrees with its documentation (section 5). |

Why the bounds are enough. `DevBlkIO`: a `LONG` of 8 values and a `LONGLONG`
of 64 put every wrap within a few sectors of two bytes; partition 4..16 on a
drive of 20 has neighbours on both sides; distances include both extremes of a
LONGLONG, and sizes every DWORD from 0 to the largest. The control does not
depend on magnitudes beyond these. `DevBlkHandles`: three objects are the first,
middle and last of a list; two drives make the search go from one list to the
next; two threads are the writer and the reader of a race. `DeviceTable`: four
slots with a drive in the last one, and a partition number beyond them; in `posix_calls` a layout with a gap, a
removable drive with two partitions all numbered 0 by Windows, two disks with a
partition at the same place, a volume that spans two disks, one that cannot be
asked, one without a path and one with an unknown file system that hides
another. `PosixFiles`: two objects and two handle values are enough for a
value to be reused while a dangling descriptor holds it, three descriptors for
two of them to dangle and the third to be in use, and then for the CRT to run
out of them; the paths name two partitions of one drive and one of a drive that
is opened by number too, so that a list holds objects of both kinds. `MsgLoop`:
two program threads race to start the loop; two loop
threads; two loads; two changes, so that one is queued behind another or behind
the WM_CLOSE.

`posix_calls` has one thread. Two threads have genuine races here, one per
configuration shown in section 5; what two threads may do to each other below
this layer is the question of `table_race` and `handles_concurrent`.

Fairness. `io_reader`: weak fairness of the caller's steps (it keeps calling
and the scheduler runs it), strong fairness of a `ReadFile` that moves the
pointer (a drive does not fail for ever). `handles_sequential`: weak fairness
of the steps inside a call, since nothing in a call waits; no caller is obliged
to call. `loop`: weak fairness of every thread that is in a call of the library
or runs `ThreadProc`, as the scheduler gives; nobody is obliged to call,
to unload, to plug anything in or to exit. Deadlock is checked in every run but
the two in which the process may end: `loop` (`over`), where `DetachReturns` and
`ThreadEnds` say that nothing waits for ever, and `posix_calls`, where a bad
descriptor may meet a handler of the program's.

## 4. What is proved

Each theorem holds for every value of the constants that satisfies the module's
assumption. Where a theorem has hypotheses of its own they are those of the run
that checks its property: the instance of `posix_calls` satisfies every one
named below, `handles_concurrent` satisfies `Apart`. Each inductive invariant
holds in TLC on the instance of its run (`io_sequential` checks `IOInv`,
`loop_inductive.cfg` with `MsgLoop_proofs` checks `LoopInv`; the others name
sets to enumerate, so the ranks of `ListInv` must first be bounded).

**`DevBlkIO_proofs`**: `TypeCorrect`, `Inductive`, `StaysConfined`,
`StaysSynced` (`Spec => []TypeOK`, `[]IOInv`, `[]Confined`, `[]Synced`), for any
threads, geometry, integer width, arguments and faults. Neither `Confined` nor
`Synced` is inductive: between a call's steps the copies disagree, and what
keeps the next step inside the partition is in the locals of the call. `IOInv`
adds, per program location, what the rest of the call relies on (`CallInv`):
before `ReadFile` the copies agree, so a cut computed from `CurAbsPos` is right
for the file pointer; after it, the pointer is `CurAbsPos` plus what was read;
before each store `lPos` is where the pointer is. `Alone` says that without an
`interleaved` escape at most one thread is in a call, which makes the
per-location facts stable. The arithmetic is in lemmas: a count cut at an
aligned end, rounded to sectors only when the whole of it is left, ends inside
the partition; the move back after the read fits a LONG and lands where the
caller's bytes end. `SeeksStayInside` is about any number of threads that only
seek (`ReadSizes = {}`) and needs no "until": whatever is stored was clamped.

The assumption, `IOAssumption`, is that of the hardware and of the code's own
types: sectors of at least one byte that fit a LONG, a drive whose size is a
LONGLONG, a partition on the drive that ends at a sector boundary (as partition
tables, which count in sectors, imply), arguments of their C types.

`PartitionIsFile`, in the same module, is `Spec => ImplementsFile` where one
thread calls: every step of `DevBlkIO` is a step of `PartitionFile` or leaves
its position and results alone, but where `Beside` names a case of section 5.
`FileInv` adds to `IOInv` that the target of a seek under way is what
`SeekTarget` makes of the method and the distance that were asked, and that a
read under way will report the caller's count or what is left, whichever is
less. A seek whose sum is a LONGLONG then lands at the nearer end; one whose sum
is not (`Wraps`) is in `Beside`, with the other cases the code gets wrong.

**`DevBlkHandles_proofs`**: `HandlesInductive`, `RegistryTypeCorrect`,
`EveryHandleAccounted`, for any number of threads and with no restriction on
who opens and closes where. The invariant gives every object and every OS
handle to exactly one owner: a caller, a call under way or, for a handle,
`leaked`. The lists play no part in it, so it survives the races that break
them.

The rest of the module is about the lists, under `Apart`: each list has one
thread that opens on it, and a list some thread closes from is used by no
other. That is the discipline under which the code needs no lock,
`handles_concurrent` at any size; two opens on one drive break it
(`handles_bug_open_race.cfg`). `ListsInductive` and `NothingFreedTouched`
(`[]NoUndefined`) rest on `ListInv`: a rank for each object, the order of
opening, such that the forward link of a node leads to the least higher rank of
its list or to the head (`Follows`), the backward link to the greatest lower one
(`Precedes`), but for the one node a thread is linking in or out. So a link
never leads to a freed object, wherever a traversal stands.

From the ranks follows what a traversal reaches. The nodes met from the head on
have growing ranks (`Sorted`), so none is met twice, the heap is finite, and the
walk ends at the head (`ListEnds`); a node it left out would lie between two
ranks with nothing between them. That gives `HeldFound` (`[]HeldListed`),
`ListsAreRings` (`[]Rings`) and, with the sequence `Forward` so determined,
`RegistryIsList` (`Spec => ImplementsList`): `LinkHead` appends, `UnlinkPrev`
removes and every other store leaves the sequence alone. `QueriesAnswerRight`
(`AnswersRight`) is about one caller (`OneCaller`), as an answer to a query
may be overtaken by another thread's close: its invariant, `AskInv`, is that
what the query looks for is still ahead of it, in this list or in a later one.

**`NatRecursion`** is what the proofs about loops and traversals need: from the
least-number principle of the library, induction as a statement about a set of
numbers, and that a function defined by recursion over `0 .. n` exists and is
unique, as a statement about functions.

**`PosixNames_proofs`**: `LettersOfLinux`, `LettersTell`. The nested tests and
divisions of `SetPosixInfo` compute bijective base 26, for all 475254 numbers
of up to four letters and so for all that are below `BLK_PER_MAJOR`; no two
numbers have one name.

**`DriveStrings_proofs`**: `StringsInductive`, `DrivesNamedAsLinux`
(`[]NamesAsLinux`), `TextsDecoded` (`[]Decodes`), for texts of any length over
any characters. `StringsInv` says what each loop has read: a prefix decoded
without an error, and a buffer that holds that and nothing else (`Fresh`).

**`DeviceTable_proofs`**: `TableInductive`, `BuildsOwn`, `BuildsLoseNothing`
(`[]Owned`, `[]NothingLost`), for any drives, volumes and number of threads
that build at once. `Owned` says that what a build would free or close at
Error_Exit is live, in no slot and no other build's, and that the slots point to
different, live entries. `NothingLost` says of device handles that none is open
but those builds hold, with any number of builds; of entries that each is in the
table or in hand, with one build at most, as a second one drops what it
overwrites. The buffers that are malloc'd and never freed are in neither. Entries and handles are named by the build step that made
them, device numbers are distinct, and so a slot is free until its one entry is
stored when there is one build; a second build may only overwrite.

What the entries contain follows from `OrderInductive` (`[]InOrder`): an entry,
whoever fills it in, holds what the enumeration has at its place (`Enumerated`,
the fold of `Filling` over the drives with the minors handed on). What that is
needs an induction over the layout: the slots after each turn, the minors in
their order. Then

| Theorem | States | Hypotheses |
|---|---|---|
| `TableTypeCorrect` | `[]TypeOK` | |
| `PartsInEntries`, `WholeAtZero` | `[]Faithful`, `[]WholeDevice` | `LayoutsSound`: no more partitions than slots, with numbers of their own that are not 0 |
| `VolumesInEntries` | `[]VolumesTheirs` | `LayoutsSound`: a slot written twice shows the first partition's volume where the second has none |
| `NamesApart` | `[]PosixUnique` | `MinorsFit`: the minors stay below the bit `makedev` ors to them |
| `AllDetected` | `[]Detects` | `OneThread`, `BuildsSucceed`, `NumbersFit` |
| `EnumComplete` | `EnumFindsAll` | these and `NumbersDense`: no gap in the device numbers |

Each hypothesis names what the code needs and does not ensure, and most have a
configuration in section 5 that shows the statement fail without it:
`table_bug_whole` (`LayoutsSound`), `table_bug_once` (`OneThread`),
`table_bug_reader` (`BuildsSucceed`), `table_bug_last` (`NumbersFit`),
`table_bug_sparse` (`NumbersDense`). `BuildsSucceed` includes that
`SetupDiEnumDeviceInterfaces` fails only at the end. `MinorsFit` fails with more than 2048
names of drives and partitions: `makedev(8, 2048)` is `makedev(8, 0)` again.

**`MsgLoop_proofs`**: `LoopInductive`, `LoopTypeCorrect`, `AtMostOneWindow`,
`NoneLeftRegistered`, `ClosedBeforeUnmapping`, for any numbers of threads, loads
and changes and whichever calls fail. `NoneLeftRegistered` and
`ClosedBeforeUnmapping` except the notifications Windows refused to take back
(`left`): the code has no second attempt for those. The window class turns out to be the lock the code lacks: one
thread at most gets past `RegisterClassEx` (`OneBeyond`) because nobody ever
unregisters the class. `Closing` says which messages, places and windows go with
each location of the unloading thread, `Locked` who holds the loader lock.

Two more are the safety half of the loop's liveness. `NeverWaitsInVain`
(`[]Served`): while `DestroyMsgLoop` waits in its `SendMessage` with the loader
lock held, the answer is there or the thread that owes it stands where it needs
no loader lock, with its code mapped and the message in front of it.
`NoChangeLost` (`[]NoneUncounted`): the changes the window was sent are those
counted and those in its queue, whatever WM_CLOSE and reloads do in between.
`loop_inductive.cfg` checks their strengthenings, `Serving` and `Accounting`.

**`PosixFiles_proofs`**: `PosixInductive`, `DescriptorsLeadHome`,
`ObjectsAllAccounted`, `PosixTypeCorrect`, `AlwaysAnswers`
(`ASSUME OneThread PROVE PosixSpec => []LeadHome`, `[]ObjectsAccounted`,
`[]PosixTypeOK`, `[]BadFdsAnswered`), for any drives, volumes, paths, objects,
handle values, descriptors, failures and calls beside. `AlwaysAnswers` rests on
`CrtSound`: once `installed`, the handler is the shim's or one the program put in
later. With two threads
`LeadHome` is false (section 5). `PosixInv` extends `TableInv`. `LeadHome` is
not inductive, as the search goes by a value that is closed, given again and
still held by descriptors the CRT was never told to free; what makes it hold is
that live objects have handles of their own that are open until their object is
about to leave (`Handles`), that an object is in its own entry's list and there
once (`Listing`), and that a descriptor a program has is the only owner of its
object (`Owners`; the others are `kept`, `lost` and the call under way,
`Reached`). Then the search has exactly one hit. With one thread the table is
built once (`BuildsOnce`), so an entry with objects is never replaced. The
assumption, `PosixAssumption`: descriptors are numbers, they and the heap are
finite, and `Null` is none of the values.

What the table shows is proved of the layer as well, with any number of threads
(`LayerShowsDrives`, `LayerTellsEntries`, and with one `LayerDetects`): its steps
are steps of `DeviceTable` or leave the table alone. `NamedInductive` adds the
names: an object opened by path belongs to the entry that shows the path
(`NamedInv`; entries that are filled in never change, and a lookup's result is
used before another build could replace it, as there is one). With it,
`StatsTellPaths` (`[]StatTells`, under `MinorsFit`) and `DescriptorsAreFiles`
(`PosixSpec => ImplementsFiles`): the return of `devblk_open` is `FileTable`'s
open, the search of `devblk_close` has the one hit `LeadHome` gives, and no other
step changes what a descriptor stands for.

Only model-checked: the liveness, `ReachesEnd`, `CallsReturn`, `DetachReturns`,
`ThreadEnds`, `ChangesCounted` and `Listens`; the prover has no ENABLED, in which
fairness is defined. The bounds of a run are otherwise no limit to what is
claimed: every invariant and every step property of the passing runs is a
theorem.

## 5. What the code does not keep

Listed as findings, each with a run that TLC must find violated:

| Run | Disagreement |
|---|---|
| `io_bug_round` | `windevblk.c:437` rounds up to sectors after the cut at the end of the partition: a read of 3 bytes with one sector left reads the next partition's first sector. |
| `handles_bug_close` | `DevBlkClose` returns `RemoveEntryList`'s "the list is now empty" (`windevblk.c:532`): a close succeeds and reports a failure while other handles on the drive are open, and `devblk_close` returns -1 with it. |
| `table_bug_reader` | A drive without a medium ends the enumeration of all drives. |

Met while modelling and reproducible by hand, with
`tlc -continue -config <file> <module>`, the module being the MC module of the component
(`MsgLoop` for `loop_*`); the passing runs step around them, each by a named
condition, bound or argument:

| Configuration | Disagreement | Set aside by |
|---|---|---|
| `io_bug_bytes.cfg` | After a read of part of a sector the pointer is moved back into the sector; every following read fails. | whole sectors in `io_reader`, `Beside` |
| `io_bug_buffer.cfg` | Once `CurAbsPos` is past the end, the room left is negative, its DWORD huge, and an aligned read asks for more than the caller's buffer holds. | `Tame` |
| `io_bug_overlapped.cfg` | `lpOverlapped` bypasses the partition. | escape `overlapped` |
| `io_bug_stale.cfg` | Two readers of one handle: the cut uses a stale `CurAbsPos`. | escape `interleaved` |
| `io_bug_wrap.cfg` | The largest sizes wrap to 0 when rounded: success with no bytes. | `Beside` |
| `io_bug_nohigh.cfg` (`NoHighIsSigned`) | `DevBlkSetPointer` without a high half uses an uninitialised one. | any value is confined; `Beside` |
| `io_bug_nohigh.cfg` (`SeekNearest`) | A seek whose origin and distance do not add up to a LONGLONG wraps before it is clamped (`windevblk.c:358-378`) and lands at the wrong end of the partition. | `Beside` |
| `handles_bug_open_race.cfg` | Two opens on a drive: one insertion is lost, for want of a lock. | one opener per drive |
| `table_bug_sparse.cfg` | `DevBlkEnumDriveInfo` compares a device number with a count: with a gap the last drives are missed. | `Dense` |
| `table_bug_whole.cfg` | A layout entry numbered 0 overwrites the whole-device entry. | `Dense` |
| `table_bug_last.cfg` | Device number 127 has a slot but is dropped. | `Dense` |
| `table_bug_minors.cfg` | Minors are consecutive, not 16 per disk as in `doc/dev/proc_partitions.txt`. | not claimed |
| `table_bug_once.cfg` (`BuiltOnce`) | Two first calls build the list twice. | `builds <= 1` |
| `table_bug_once.cfg` (`Detects`) | The flag is set before the list is built: a second caller finds no drive. | one thread |
| `strings_bug_blank.cfg` | A string of spaces only is not trimmed (`windevblk_list.c:729`). | `Blank` |
| `posix_bug_null.cfg` | `devblk_open(NULL)` returns `ENOENT`, 2, which reads as a descriptor (`windevblk_posix.c:50`). | no null path |
| `posix_bug_first.cfg` | A path is looked up before anything built the table: the first `devblk_open` of a process fails. | not claimed |
| `posix_bug_fds.cfg` | `devblk_close` does not free the C descriptor. | not claimed |
| `posix_bug_rebuild.cfg` | Two first calls: the second build replaces an entry whose list holds an open handle; the search no longer finds it. | one thread |
| `posix_bug_reuse.cfg` | Between `CloseHandle` and `RemoveEntryList` another thread is given the same handle value: its descriptor leads to the object being closed. | one thread |
| `loop_bug_crash.cfg` | The thread is not waited for: the code is unmapped under it. | not claimed |
| `loop_bug_window.cfg` | A window that is created and not yet in `g_hWnd` survives the unloading. | `DetachCloses` is about a window that was found |
| `loop_bug_reload.cfg` | The class stays registered, so a DLL that is loaded again never listens, against `windevblk.c:52`. | `loads > 1` in `Listens` |
| `loop_bug_table.cfg` | Changes are counted; the table is never built again. | not claimed |

Four more have no configuration; the models admit them by name. A slot written
twice keeps the volume fields of the first partition where the second has none
(`LayoutsSound`). `FindVolume` stops at the first volume that has the extent and
returns TRUE though `GetVolumeInformation` failed (`windevblk_list.c:598-616`): a
partition whose volume is locked or unknown shows no names, even if another
volume would give them (the last case of `VolumesTheirs`). The shim's handler is
installed once: when the program sets another one later, bad descriptors meet
that one and the process may end (`handler = "program"` in `BadFdsAnswered`). A
notification Windows refuses to take back stays registered for a window that is
destroyed (`windevblk_notif.c:201-205`; `left` in `Unregistered` and
`DetachCloses`).

After a `SetFilePointerEx` that fails behind a successful read (escape
`resync`) `CurAbsPos` stays behind the pointer until the next successful call.
A `DevBlkOpen` that fails after `CreateFile` leaves the OS handle open (the
history variable `leaked`), and a `devblk_open` that gets no descriptor leaves
the HDEVBLK open (`lost`).

## 6. Not modelled, and why

`windevblk_sysfs.c` is not compiled, and neither is the `#else` branch of
`windevblk_posix.c`. `InsertHeadList` is not called; `iFlip` is always 0. The
buffers `BuildDeviceList` mallocs per drive and never frees, and its untested
`calloc`, are left out of `DeviceTable`. The build files and the example have
no logic of the library; the example shows the sequences of calls the models'
callers make. The Windows and CRT calls themselves are external: each is the
set of outcomes the code distinguishes.

## 7. What is left

Every part of the library that is compiled is modelled, and what the passing
runs check of it is proved but for liveness. What could follow:

1. Variants for the liveness that can be stated as steps: a traversal comes
   nearer to its head with each step, a read nearer to the end of the partition.
2. `PosixFiles` over `DevBlkHandles` itself rather than `HandleList`;
   `RegistryIsList` makes it unnecessary for one thread, and with two the races
   of section 5 come first.

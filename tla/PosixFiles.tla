------------------------------ MODULE PosixFiles ------------------------------
(* devblk_open, devblk_close and devblk_fstat (src/src/windevblk_posix.c)  *)
(* over the device table and the registry of open handles.                 *)
(*                                                                         *)
(* A C descriptor names an OS handle in the CRT's table; the HDEVBLK is    *)
(* found again by searching the lists of all drives for that handle.  The  *)
(* table is module DeviceTable's.  The registry is a list of objects per   *)
(* entry, HandleList, which module DevBlkHandles shows to be what the      *)
(* links of list.h implement; an insertion, a removal and a search are one *)
(* action here.  Programs call the HDEVBLK functions beside the Posix      *)
(* ones.  A program passes devblk_close a descriptor it was given, once,   *)
(* or one that never was open.                                             *)
EXTENDS DeviceTable

CONSTANTS
  Objs,        \* heap addresses of DEVBLK_OBJECTs
  OSHandles,   \* values of OS handles
  Fds,         \* the descriptors of the CRT
  Paths        \* what devblk_open is asked for: <<letters, part>>, Null

(* What a program has open, and what devblk_open was asked and made of it. *)
Openings == [handle : OSHandles, entry : Ids, part : 0 .. PartSlots - 1]
Gifts == [path : Paths, obj : Objs]

ASSUME PosixAssumption ==
  /\ Fds \subseteq Nat
  /\ IsFiniteSet(Fds) /\ IsFiniteSet(Objs)
  /\ Null \notin Objs \cup OSHandles \cup Fds
  /\ Null \notin Openings /\ Null \notin Gifts

VARIABLES
  list,        \* DevBlkObjList of each entry
  opened,      \* the objects: [handle, entry, part], entry being RawDevice
  osHandles,   \* OS handles of drives the process has open
  fds,         \* the CRT's table: the handle of each descriptor
  given,       \* history: the path and object of each descriptor a program
               \* has, Null for others
  kept,        \* HDEVBLKs a program has
  lost,        \* history: objects devblk_open dropped
  handler,     \* the CRT's invalid-parameter handler: "default", "shim" or
               \* "program", one of the program's that ends the process too
  installed,   \* msvc_nothrow_initialized
  frame,       \* per thread: the call above DeviceTable's, and its locals
  result       \* its result, while the thread makes no call

registry == <<list, opened, osHandles>>
crt == <<handler, installed>>
posix == <<registry, fds, given, kept, lost, crt, frame, result>>

Registry == INSTANCE HandleList WITH Drives <- Ids

Places == {"idle", "path", "entry", "wrap", "close", "unlink", "abort"}
Rest == [at |-> "idle", path |-> Null, fd |-> Null, obj |-> Null]
ENOENT == 2
Failed == -1
Live == {o \in Objs : opened[o] # Null}

PosixInit ==
  /\ Init /\ Registry!Init
  /\ opened = [o \in Objs |-> Null] /\ osHandles = {}
  /\ fds = [fd \in Fds |-> Null] /\ given = [fd \in Fds |-> Null]
  /\ kept = {} /\ lost = {} /\ handler = "default" /\ installed = FALSE
  /\ frame = [t \in Threads |-> Rest] /\ result = [t \in Threads |-> Null]

Resting(t) == frame[t] = Rest /\ pc[t] = "idle"

Enter(t, f) == frame' = [frame EXCEPT ![t] = f] /\ result' = [result EXCEPT ![t] = Null]
Reach(t, place) == frame' = [frame EXCEPT ![t].at = place] /\ UNCHANGED result
Leave(t, r) == frame' = [frame EXCEPT ![t] = Rest] /\ result' = [result EXCEPT ![t] = r]

----------------------------------------------------------------------------
(* devblk_open and DevBlkOpen                                              *)

(* The path is looked up in the table as it is.                            *)
DevblkOpen(t, path) ==
  /\ Resting(t)
  /\ IF path = Null
     THEN Leave(t, ENOENT) /\ UNCHANGED vars
     ELSE /\ Begin(t, [api |-> "path", path |-> path])
          /\ Enter(t, [Rest EXCEPT !.at = "path", !.path = path])
  /\ UNCHANGED <<registry, fds, given, kept, lost, crt>>

(* Mutant of LookedUp: the indices are taken in the other order.           *)
LookedUpSwapped(t) ==
  /\ frame[t].at = "path" /\ pc[t] = "idle"
  /\ IF ret[t] = Null
     THEN Leave(t, Failed) /\ UNCHANGED vars
     ELSE /\ Begin(t, [api |-> "open", number |-> ret[t][2], part |-> ret[t][1]])
          /\ Reach(t, "entry")
  /\ UNCHANGED <<registry, fds, given, kept, lost, crt>>

(* DevBlkOpen on what the lookup found.                                    *)
LookedUp(t) ==
  /\ frame[t].at = "path" /\ pc[t] = "idle"
  /\ IF ret[t] = Null
     THEN Leave(t, Failed) /\ UNCHANGED vars
     ELSE /\ Begin(t, [api |-> "open", number |-> ret[t][1], part |-> ret[t][2]])
          /\ Reach(t, "entry")
  /\ UNCHANGED <<registry, fds, given, kept, lost, crt>>

DevBlkOpen(t, n, p) ==
  /\ Resting(t)
  /\ Begin(t, [api |-> "open", number |-> n, part |-> p])
  /\ Enter(t, [Rest EXCEPT !.at = "entry"])
  /\ UNCHANGED <<registry, fds, given, kept, lost, crt>>

(* The end of DevBlkOpen, in the call that has path[t].                    *)
NoObject(t) ==
  Leave(t, IF frame[t].path = Null THEN Null ELSE Failed) /\ UNCHANGED <<list, opened, kept>>

(* CreateFile, SetFilePointerEx, calloc and the insertion in the list of   *)
(* the entry; what CreateFile opened is kept if one of the others fails.   *)
Attach(t) ==
  /\ frame[t].at = "entry" /\ pc[t] = "idle"
  /\ \/ NoObject(t) /\ UNCHANGED osHandles
     \/ /\ ret[t] # Null
        /\ \E h \in OSHandles \ osHandles :
             /\ osHandles' = osHandles \cup {h}
             /\ \/ "SetFilePointerEx" \in Faults /\ NoObject(t)
                \/ \E o \in Objs \ Live :
                     /\ opened' = [opened EXCEPT ![o] =
                                     [handle |-> h, entry |-> ret[t][1], part |-> ret[t][2]]]
                     /\ Registry!Opened(ret[t][1], o)
                     /\ IF frame[t].path = Null
                        THEN Leave(t, o) /\ kept' = kept \cup {o}
                        ELSE /\ Enter(t, [frame[t] EXCEPT !.at = "wrap", !.obj = o])
                             /\ UNCHANGED kept
  /\ UNCHANGED <<vars, fds, given, lost, crt>>

(* _open_osfhandle, which takes the lowest descriptor that is free.        *)
Wrap(t) ==
  LET free == {fd \in Fds : fds[fd] = Null}
      o == frame[t].obj
  IN
  /\ frame[t].at = "wrap"
  /\ \/ \E fd \in free :
          /\ \A other \in free : fd <= other
          /\ fds' = [fds EXCEPT ![fd] = opened[o].handle]
          /\ given' = [given EXCEPT ![fd] = [path |-> frame[t].path, obj |-> o]]
          /\ Leave(t, fd)
          /\ UNCHANGED lost
     \/ /\ free = {} \/ "_open_osfhandle" \in Faults
        /\ lost' = lost \cup {o}
        /\ Leave(t, Failed)
        /\ UNCHANGED <<fds, given>>
  /\ UNCHANGED <<vars, registry, kept, crt>>

----------------------------------------------------------------------------
(* The way back from a descriptor                                          *)

(* Objects with the OS handle, as the search meets them: by slot of the    *)
(* table, then in the order of opening.                                    *)
Hits(h) == {np \in UNION {{n} \X DOMAIN list[table[n]] : n \in Used} :
  opened[list[table[np[1]]][np[2]]].handle = h}

(* Mutant of FromDiskHandle: the search ends at the first drive.           *)
FromDiskHandleFirst(h) ==
  LET hits == {np \in Hits(h) : \A n \in Used : np[1] <= n}
  IN  IF hits = {} THEN Null ELSE list[table[First(hits)[1]]][First(hits)[2]]

(* DevBlkFromDiskHandle                                                    *)
FromDiskHandle(h) ==
  IF Hits(h) = {} THEN Null ELSE list[table[First(Hits(h))[1]]][First(Hits(h))[2]]

(* msvc_install_handler_once                                               *)
InstallHandlerOnce ==
  IF installed THEN UNCHANGED crt ELSE handler' = "shim" /\ installed' = TRUE

(* Mutant of EndsProcess: the handler is installed after the call.         *)
EndsProcessBefore(fd) == fds[fd] = Null /\ handler # "shim"

(* _get_osfhandle_nothrow: after msvc_install_handler_once a bad           *)
(* descriptor ends the process unless the shim's handler is the CRT's.     *)
EndsProcess(fd) == fds[fd] = Null /\ handler' # "shim"

(* A program has the CRT call a handler of its own, at any time.  (One     *)
(* that returns does what the shim's does.)                                *)
ReplaceHandler(t) ==
  /\ Resting(t)
  /\ handler' = "program"
  /\ UNCHANGED <<vars, registry, fds, given, kept, lost, installed, frame, result>>

(* HDEVBLK of a descriptor.                                                *)
Behind(fd) == IF fds[fd] = Null THEN Null ELSE FromDiskHandle(fds[fd])

Passable(fd) ==
  /\ given[fd] # Null \/ fds[fd] = Null
  /\ \A u \in Threads : frame[u].fd # fd

DevblkClose(t, fd) ==
  /\ Resting(t)
  /\ Passable(fd)
  /\ InstallHandlerOnce
  /\ IF EndsProcess(fd) THEN Reach(t, "abort")
     ELSE IF Behind(fd) = Null THEN Leave(t, Failed)
     ELSE Enter(t, [Rest EXCEPT !.at = "close", !.fd = fd, !.obj = Behind(fd)])
  /\ UNCHANGED <<vars, registry, fds, given, kept, lost>>

DevBlkClose(t, o) ==
  /\ Resting(t)
  /\ o \in kept /\ \A u \in Threads : frame[u].obj # o
  /\ Enter(t, [Rest EXCEPT !.at = "close", !.obj = o])
  /\ UNCHANGED <<vars, registry, fds, given, kept, lost, crt>>

(* CloseHandle of DevBlkClose, which stops if it fails.                    *)
CloseHandle(t) ==
  LET o == frame[t].obj IN
  /\ frame[t].at = "close"
  /\ \/ /\ opened[o].handle \in osHandles
        /\ osHandles' = osHandles \ {opened[o].handle}
        /\ kept' = IF frame[t].fd = Null THEN kept \ {o} ELSE kept
        /\ Reach(t, "unlink")
     \/ /\ opened[o].handle \notin osHandles \/ "CloseHandle" \in Faults
        /\ Leave(t, Failed)
        /\ UNCHANGED <<osHandles, kept>>
  /\ UNCHANGED <<vars, list, opened, fds, given, lost, crt>>

(* Mutant of Unlink: the object stays in the list of its drive.            *)
UnlinkForgotten(t) ==
  LET o == frame[t].obj IN
  /\ frame[t].at = "unlink"
  /\ given' = IF frame[t].fd = Null THEN given ELSE [given EXCEPT ![frame[t].fd] = Null]
  /\ Leave(t, IF list[opened[o].entry] = <<o>> THEN 0 ELSE Failed)
  /\ UNCHANGED <<vars, list, opened, osHandles, fds, kept, lost, crt>>

(* Mutant of Unlink: the object is freed in its list.                      *)
UnlinkDangling(t) ==
  LET o == frame[t].obj IN
  /\ frame[t].at = "unlink"
  /\ opened' = [opened EXCEPT ![o] = Null]
  /\ given' = IF frame[t].fd = Null THEN given ELSE [given EXCEPT ![frame[t].fd] = Null]
  /\ Leave(t, IF list[opened[o].entry] = <<o>> THEN 0 ELSE Failed)
  /\ UNCHANGED <<vars, list, osHandles, fds, kept, lost, crt>>

(* The rest of DevBlkClose: removal and free.  FALSE, for devblk_close a   *)
(* failure, is its result unless the list is empty now.  The CRT is not    *)
(* told.                                                                   *)
Unlink(t) ==
  LET o == frame[t].obj IN
  /\ frame[t].at = "unlink"
  /\ Registry!Closed(opened[o].entry, o)
  /\ opened' = [opened EXCEPT ![o] = Null]
  /\ given' = IF frame[t].fd = Null THEN given ELSE [given EXCEPT ![frame[t].fd] = Null]
  /\ Leave(t, IF list'[opened[o].entry] = <<>> THEN 0 ELSE Failed)
  /\ UNCHANGED <<vars, osHandles, fds, kept, lost, crt>>

DevOf(o) == filled[opened[o].entry][opened[o].part].posix.rootDev

(* Mutant of StatOf: the device number of the whole drive.                 *)
StatOfDrive(o) == filled[opened[o].entry][0].posix.rootDev

(* st_rdev: devBlkObj->DevBlk->RootDev                                     *)
StatOf(o) == DevOf(o)

DevblkFstat(t, fd) ==
  /\ Resting(t)
  /\ Passable(fd)
  /\ InstallHandlerOnce
  /\ IF EndsProcess(fd) THEN Reach(t, "abort")
     ELSE Leave(t, IF Behind(fd) = Null THEN Failed ELSE StatOf(Behind(fd)))
  /\ UNCHANGED <<vars, registry, fds, given, kept, lost>>

----------------------------------------------------------------------------
(* The enumerating functions, which take no descriptor.                    *)
Query(t, c) ==
  /\ Resting(t)
  /\ c.api \in {"count", "drive", "devblk"}
  /\ Begin(t, c)
  /\ Enter(t, Rest)
  /\ UNCHANGED <<registry, fds, given, kept, lost, crt>>

Below(t) == Continue(t) /\ UNCHANGED posix

PosixCall(t) ==
  \/ \E path \in Paths : DevblkOpen(t, path)
  \/ \E fd \in Fds : DevblkClose(t, fd) \/ DevblkFstat(t, fd)
  \/ \E n \in Numbers, p \in Parts : DevBlkOpen(t, n, p)
  \/ \E o \in Objs : DevBlkClose(t, o)
  \/ \E c \in Calls : Query(t, c)
  \/ ReplaceHandler(t)

PosixStep(t) == LookedUp(t) \/ Attach(t) \/ Wrap(t) \/ CloseHandle(t) \/ Unlink(t)

Running == \A t \in Threads : frame[t].at # "abort"

PosixNext == Running /\ \E t \in Threads : PosixCall(t) \/ PosixStep(t) \/ Below(t)

PosixSpec == PosixInit /\ [][PosixNext]_<<vars, posix>>

----------------------------------------------------------------------------
(* Properties                                                              *)

(* Lists hold live objects of their own entry, descriptors a program has   *)
(* are open in the CRT.                                                    *)
PosixTypeOK ==
  /\ \A e \in Ids : \A k \in DOMAIN list[e] :
       list[e][k] \in Live /\ opened[list[e][k]].entry = e
  /\ opened \in [Objs -> Openings \cup {Null}] /\ given \in [Fds -> Gifts \cup {Null}]
  /\ osHandles \subseteq OSHandles /\ kept \subseteq Live /\ lost \subseteq Live
  /\ fds \in [Fds -> OSHandles \cup {Null}]
  /\ \A fd \in Fds : given[fd] # Null => given[fd].obj \in Live /\ fds[fd] # Null
  /\ handler \in {"default", "shim", "program"} /\ installed \in BOOLEAN
  /\ \A t \in Threads : frame[t].at \in Places

(* devblk_close and devblk_fstat answer a bad descriptor, in the first     *)
(* call of a process too, and whatever handler there was before it; only   *)
(* one the program puts in the place of the shim's ends the process.       *)
BadFdsAnswered == \A t \in Threads : frame[t].at = "abort" => handler = "program"

HasFd == {fd \in Fds : given[fd] # Null}

(* A descriptor leads back to the object it was opened for and to no       *)
(* other, though handle values are reused, old descriptors still hold them *)
(* and HDEVBLKs come and go beside it.                                     *)
LeadHome == \A fd \in HasFd : Behind(fd) = given[fd].obj

(* Between calls the objects are those of descriptors and of HDEVBLKs      *)
(* programs have, each counted once, and those devblk_open dropped when it *)
(* got no descriptor; all of them have their OS handle, of their own.      *)
ObjectsAccounted == (\A t \in Threads : frame[t] = Rest) =>
  /\ Live = {given[fd].obj : fd \in HasFd} \cup kept \cup lost
  /\ Cardinality(Live) = Cardinality(HasFd) + Cardinality(kept) + Cardinality(lost)
  /\ {opened[o].handle : o \in Live} \subseteq osHandles
  /\ \A o, p \in Live : opened[o].handle = opened[p].handle => o = p

(* The partitions the paths of two descriptors name are different exactly  *)
(* if what devblk_fstat tells of them is.                                  *)
StatTells == \A a, b \in HasFd :
  StatOf(given[a].obj) = StatOf(given[b].obj) <=> given[a].path = given[b].path

(* Of the descriptors no call is closing, while the table is the one that  *)
(* was built first.                                                        *)
LeadHomeOnce == builds <= 1 =>
  \A fd \in HasFd \ {frame[t].fd : t \in Threads} : Behind(fd) = given[fd].obj

(* "return ENOENT" (windevblk_posix.c:50) is not a descriptor.             *)
NullRefused == [][\A t \in Threads : DevblkOpen(t, Null) => result'[t] = Failed]_<<vars, posix>>

(* A path of a drive that is there is found, whatever was called before.   *)
Named == {<<LinuxLetters(Present[i].number), 0>> : i \in DOMAIN Present}
FindsPresent == \A t \in Threads :
  frame[t].at = "path" /\ pc[t] = "idle" /\ frame[t].path \in Named => ret[t] # Null

(* devblk_close frees the descriptor.                                      *)
FdsFreed == \A fd \in Fds : fds[fd] # Null => given[fd] # Null
=============================================================================

---------------------------- MODULE DevBlkHandles ----------------------------
(* The registry of open HDEVBLKs: DevBlkOpen, DevBlkClose and the queries  *)
(* of src/src/windevblk.c over the circular lists of src/src/list.h.       *)
(*                                                                         *)
(* A DEVBLK_OBJECT lives on the heap, owns one OS handle and is linked in  *)
(* the DevBlkObjList of its drive.  The critical section of these calls is *)
(* initialised and deleted but never entered, so threads interleave        *)
(* between any two accesses to shared memory: each store to a link another *)
(* thread can see is an action, as is each node a traversal visits.  The   *)
(* OS reuses handle values, the heap reuses addresses.                     *)
(*                                                                         *)
(* Abstracted: which partition a handle is for (the registry is per drive) *)
(* and its position (module DevBlkIO).                                     *)
EXTENDS FiniteSets, Naturals

CONSTANTS
  Threads,
  Drives,      \* device numbers; a drive is also the head of its list
  Objs,        \* heap addresses DEVBLK_OBJECTs may get
  OSHandles,   \* values of OS handles
  MayOpen,     \* [Threads -> SUBSET Drives]: where a thread opens,
  MayClose,    \* [Threads -> SUBSET Drives]: closes,
  MayAsk,      \* [Threads -> SUBSET Drives]: and calls the queries
  Faults,      \* "CreateFile", "SetFilePointerEx", "calloc", "CloseHandle"
  Null

Node == Objs \cup Drives

ASSUME HandlesAssumption ==
  /\ Drives \subseteq Nat /\ Drives # {} /\ IsFiniteSet(Drives)
  /\ IsFiniteSet(Objs) /\ Objs \cap Drives = {}
  /\ Null \notin Node \cup OSHandles
  /\ MayOpen \in [Threads -> SUBSET Drives]
  /\ MayClose \in [Threads -> SUBSET Drives]
  /\ MayAsk \in [Threads -> SUBSET Drives]

VARIABLES
  live,          \* allocated objects
  drive, handle, \* DevBlk->RawDevice and DriveHandle of each object
  flink, blink,  \* ListEntry of each object, DevBlkObjList of each drive
  osOpen,        \* OS handles the process has open
  held,          \* objects a caller was given and has not passed to close
  leaked,        \* history: OS handles failed opens left open
  pc, op,        \* where each thread is, in which call
  obj,           \* its devBlkObj
  hnd,           \* its hDev, or the hDrive it looks for
  dev,           \* the drive of its open, or iRawDevNumber of its search
  entry,         \* its pEntry
  next, prev,    \* locals Flink, Blink of the list.h routines
  ret            \* its result

heap == <<live, drive, handle>>
links == <<flink, blink>>
locals == <<op, obj, hnd, dev, entry, next, prev>>
vars == <<heap, links, osOpen, held, leaked, pc, locals, ret>>

Labels == {"idle", "move", "calloc", "linkPrev", "linkHead", "walk",
           "unlinkPrev", "unlinkNext", "free", "undefined"}
Ops == {"open", "close", "valid", "find"}
Min(S) == CHOOSE d \in S : \A e \in S : d <= e
After(d) == {e \in Drives : e > d}

(* InitializeListHead on every drive, before the library hands out any.    *)
Init ==
  /\ live = {} /\ held = {} /\ osOpen = {} /\ leaked = {}
  /\ drive = [o \in Objs |-> Null] /\ handle = [o \in Objs |-> Null]
  /\ flink = [n \in Node |-> IF n \in Drives THEN n ELSE Null]
  /\ blink = [n \in Node |-> IF n \in Drives THEN n ELSE Null]
  /\ pc = [t \in Threads |-> "idle"] /\ op = [t \in Threads |-> "open"]
  /\ obj = [t \in Threads |-> Null] /\ hnd = [t \in Threads |-> Null]
  /\ dev = [t \in Threads |-> Null] /\ entry = [t \in Threads |-> Null]
  /\ next = [t \in Threads |-> Null] /\ prev = [t \in Threads |-> Null]
  /\ ret = [t \in Threads |-> Null]

Goto(t, l) == pc' = [pc EXCEPT ![t] = l]

Forget(t) ==
  /\ op' = [op EXCEPT ![t] = "open"]
  /\ obj' = [obj EXCEPT ![t] = Null] /\ hnd' = [hnd EXCEPT ![t] = Null]
  /\ dev' = [dev EXCEPT ![t] = Null] /\ entry' = [entry EXCEPT ![t] = Null]
  /\ next' = [next EXCEPT ![t] = Null] /\ prev' = [prev EXCEPT ![t] = Null]

Return(t, v) ==
  /\ Goto(t, "idle")
  /\ ret' = [ret EXCEPT ![t] = v]
  /\ Forget(t)

(* What a thread does after it used freed memory is not described.         *)
Undescribed(t) ==
  /\ Goto(t, "undefined")
  /\ Forget(t)
  /\ UNCHANGED ret

Readable(n) == n \in live \cup Drives

----------------------------------------------------------------------------
(* DevBlkOpen on an entry of drive d.                                      *)

CreateFile(t, d) ==
  /\ pc[t] = "idle"
  /\ \/ \E h \in OSHandles \ osOpen :
          /\ osOpen' = osOpen \cup {h}
          /\ hnd' = [hnd EXCEPT ![t] = h]
          /\ dev' = [dev EXCEPT ![t] = d]
          /\ Goto(t, "move")
          /\ UNCHANGED <<op, obj, entry, next, prev, ret>>
     \/ "CreateFile" \in Faults /\ Return(t, Null) /\ UNCHANGED osOpen
  /\ UNCHANGED <<heap, links, held, leaked>>

(* Nothing closes hDev once DevBlkOpen gives up.                           *)
GiveUp(t) ==
  /\ Return(t, Null)
  /\ leaked' = leaked \cup {hnd[t]}

(* SetFilePointerEx to the start of the partition, and the MAXIMUM_CHECK.  *)
MoveToStart(t) ==
  /\ pc[t] = "move"
  /\ \/ Goto(t, "calloc") /\ UNCHANGED <<locals, ret, leaked>>
     \/ "SetFilePointerEx" \in Faults /\ GiveUp(t)
  /\ UNCHANGED <<heap, links, osOpen, held>>

(* Mutant of Calloc: the entry is published with the links calloc left.    *)
CallocUnlinked(t) ==
  LET head == dev[t] IN
  /\ pc[t] = "calloc"
  /\ \E o \in Objs \ live :
       /\ live' = live \cup {o}
       /\ drive' = [drive EXCEPT ![o] = head]
       /\ handle' = [handle EXCEPT ![o] = hnd[t]]
       /\ flink' = [flink EXCEPT ![o] = Null]
       /\ blink' = [blink EXCEPT ![o] = Null]
       /\ obj' = [obj EXCEPT ![t] = o]
       /\ prev' = [prev EXCEPT ![t] = blink[head]]
       /\ Goto(t, "linkPrev")
       /\ UNCHANGED <<op, hnd, dev, entry, next, ret, leaked>>
  /\ UNCHANGED <<osOpen, held>>

(* calloc, the fields, and the start of InsertTailList: the list is read,  *)
(* the links of the new entry are set.                                     *)
Calloc(t) ==
  LET head == dev[t] IN
  /\ pc[t] = "calloc"
  /\ \/ \E o \in Objs \ live :
          /\ live' = live \cup {o}
          /\ drive' = [drive EXCEPT ![o] = head]
          /\ handle' = [handle EXCEPT ![o] = hnd[t]]
          /\ flink' = [flink EXCEPT ![o] = head]
          /\ blink' = [blink EXCEPT ![o] = blink[head]]
          /\ obj' = [obj EXCEPT ![t] = o]
          /\ prev' = [prev EXCEPT ![t] = blink[head]]
          /\ Goto(t, "linkPrev")
          /\ UNCHANGED <<op, hnd, dev, entry, next, ret, leaked>>
     \/ "calloc" \in Faults /\ GiveUp(t) /\ UNCHANGED <<heap, links>>
  /\ UNCHANGED <<osOpen, held>>

(* Mutant of LinkPrev: the node that was last keeps its link.              *)
LinkPrevForgotten(t) ==
  /\ pc[t] = "linkPrev"
  /\ Goto(t, "linkHead")
  /\ UNCHANGED <<heap, links, osOpen, held, leaked, locals, ret>>

(* Blink->Flink = Entry                                                    *)
LinkPrev(t) ==
  /\ pc[t] = "linkPrev"
  /\ IF Readable(prev[t])
     THEN /\ flink' = [flink EXCEPT ![prev[t]] = obj[t]]
          /\ Goto(t, "linkHead")
          /\ UNCHANGED <<locals, ret>>
     ELSE Undescribed(t) /\ UNCHANGED flink
  /\ UNCHANGED <<heap, blink, osOpen, held, leaked>>

(* Mutant of LinkHead: the list keeps its last element.                    *)
LinkHeadForgotten(t) ==
  /\ pc[t] = "linkHead"
  /\ held' = held \cup {obj[t]}
  /\ Return(t, obj[t])
  /\ UNCHANGED <<heap, links, osOpen, leaked>>

(* ListHead->Blink = Entry; the caller gets its HDEVBLK.                   *)
LinkHead(t) ==
  /\ pc[t] = "linkHead"
  /\ blink' = [blink EXCEPT ![dev[t]] = obj[t]]
  /\ held' = held \cup {obj[t]}
  /\ Return(t, obj[t])
  /\ UNCHANGED <<heap, flink, osOpen, leaked>>

----------------------------------------------------------------------------
(* The traversal of DevBlkClose, DevBlkIsValidHandle, DevBlkFromDiskHandle *)

StartWalk(t, what, o, h, d) ==
  /\ op' = [op EXCEPT ![t] = what]
  /\ obj' = [obj EXCEPT ![t] = o]
  /\ hnd' = [hnd EXCEPT ![t] = h]
  /\ dev' = [dev EXCEPT ![t] = d]
  /\ entry' = [entry EXCEPT ![t] = flink[d]]
  /\ Goto(t, "walk")
  /\ UNCHANGED <<next, prev, ret>>

(* Mutant of Close: the object is freed though CloseHandle failed.         *)
CloseFrees(t, o) ==
  /\ pc[t] = "idle"
  /\ o \in held
  /\ "CloseHandle" \in Faults
  /\ live' = live \ {o}
  /\ Return(t, "FALSE")
  /\ UNCHANGED <<drive, handle, links, osOpen, held, leaked>>

(* A caller closes each handle it holds once.  CloseHandle comes first;    *)
(* if it fails the object stays as it was.                                 *)
Close(t, o) ==
  /\ pc[t] = "idle"
  /\ o \in held
  /\ \/ /\ osOpen' = osOpen \ {handle[o]}
        /\ held' = held \ {o}
        /\ StartWalk(t, "close", o, Null, drive[o])
     \/ /\ "CloseHandle" \in Faults
        /\ Return(t, "FALSE")
        /\ UNCHANGED <<osOpen, held>>
  /\ UNCHANGED <<heap, links, leaked>>

(* Any pointer may be asked about.  One that was freed is caught by        *)
(* GetDevBlkObjectPtr, or still looks like an object.                      *)
IsValidHandle(t, o) ==
  /\ pc[t] = "idle"
  /\ \/ /\ drive[o] \in Drives
        /\ StartWalk(t, "valid", o, Null, drive[o])
     \/ o \notin live /\ Return(t, "FALSE")
  /\ UNCHANGED <<heap, links, osOpen, held, leaked>>

FromDiskHandle(t, h) ==
  /\ pc[t] = "idle"
  /\ StartWalk(t, "find", Null, h, Min(Drives))
  /\ UNCHANGED <<heap, links, osOpen, held, leaked>>

GetDiskHandle(t, o) ==
  /\ pc[t] = "idle"
  /\ o \in held
  /\ Return(t, handle[o])
  /\ UNCHANGED <<heap, links, osOpen, held, leaked>>

(* Mutant of ListOf: a search never leaves the first drive's list.         *)
ListOfFirst(t) == IF op[t] = "find" THEN Min(Drives) ELSE drive[obj[t]]

(* The list whose end the loop tests for: that of the object's drive, read *)
(* from the object again at every turn, or that of iRawDevNumber.          *)
ListOf(t) == IF op[t] = "find" THEN dev[t] ELSE drive[obj[t]]

AtEnd(t) == pc[t] = "walk" /\ entry[t] = ListOf(t)

Sought(t) == IF op[t] = "find" THEN entry[t] \in live /\ handle[entry[t]] = hnd[t]
                               ELSE entry[t] = obj[t]

StepTo(t, n) == entry' = [entry EXCEPT ![t] = n] /\ UNCHANGED <<op, obj, hnd, next, prev, pc, ret>>

WalkOn(t) ==
  /\ pc[t] = "walk" /\ ~AtEnd(t) /\ ~Sought(t)
  /\ IF Readable(entry[t])
     THEN StepTo(t, flink[entry[t]]) /\ UNCHANGED dev
     ELSE Undescribed(t)
  /\ UNCHANGED <<heap, links, osOpen, held, leaked>>

(* RemoveEntryList starts by reading the links of the entry.               *)
WalkFinds(t) ==
  /\ pc[t] = "walk" /\ ~AtEnd(t) /\ Sought(t)
  /\ \/ /\ op[t] = "close"
        /\ next' = [next EXCEPT ![t] = flink[obj[t]]]
        /\ prev' = [prev EXCEPT ![t] = blink[obj[t]]]
        /\ Goto(t, "unlinkPrev")
        /\ UNCHANGED <<op, obj, hnd, dev, entry, ret>>
     \/ op[t] = "valid" /\ Return(t, "TRUE")
     \/ op[t] = "find" /\ Return(t, entry[t])
  /\ UNCHANGED <<heap, links, osOpen, held, leaked>>

(* The search goes through the drives in the order of their numbers.       *)
WalkEnds(t) ==
  /\ AtEnd(t)
  /\ \/ op[t] = "close" /\ Goto(t, "free") /\ UNCHANGED <<locals, ret>>
     \/ op[t] = "valid" /\ Return(t, "FALSE")
     \/ op[t] = "find" /\ After(dev[t]) = {} /\ Return(t, Null)
     \/ /\ op[t] = "find" /\ After(dev[t]) # {}
        /\ dev' = [dev EXCEPT ![t] = Min(After(dev[t]))]
        /\ StepTo(t, flink[Min(After(dev[t]))])
  /\ UNCHANGED <<heap, links, osOpen, held, leaked>>

(* Blink->Flink = Flink                                                    *)
UnlinkPrev(t) ==
  /\ pc[t] = "unlinkPrev"
  /\ IF Readable(prev[t])
     THEN /\ flink' = [flink EXCEPT ![prev[t]] = next[t]]
          /\ Goto(t, "unlinkNext")
          /\ UNCHANGED <<locals, ret>>
     ELSE Undescribed(t) /\ UNCHANGED flink
  /\ UNCHANGED <<heap, blink, osOpen, held, leaked>>

(* Flink->Blink = Blink; bRet becomes "the list is empty now" (kept in     *)
(* next = prev); the loop goes on from the unlinked entry.                 *)
UnlinkNext(t) ==
  /\ pc[t] = "unlinkNext"
  /\ IF Readable(next[t])
     THEN /\ blink' = [blink EXCEPT ![next[t]] = prev[t]]
          /\ entry' = [entry EXCEPT ![t] = flink[obj[t]]]
          /\ Goto(t, "walk")
          /\ UNCHANGED <<op, obj, hnd, dev, next, prev, ret>>
     ELSE Undescribed(t) /\ UNCHANGED blink
  /\ UNCHANGED <<heap, flink, osOpen, held, leaked>>

(* Mutant of Free: the memory is not returned.                             *)
FreeForgotten(t) ==
  /\ pc[t] = "free"
  /\ Return(t, IF next[t] = prev[t] THEN "TRUE" ELSE "FALSE")
  /\ UNCHANGED <<heap, links, osOpen, held, leaked>>

(* free, whether or not the traversal met the object; the result of the    *)
(* close is RemoveEntryList's.                                             *)
Free(t) ==
  /\ pc[t] = "free"
  /\ live' = live \ {obj[t]}
  /\ Return(t, IF next[t] = prev[t] THEN "TRUE" ELSE "FALSE")
  /\ UNCHANGED <<drive, handle, links, osOpen, held, leaked>>

----------------------------------------------------------------------------
OpenStep(t) == MoveToStart(t) \/ Calloc(t) \/ LinkPrev(t) \/ LinkHead(t)
WalkStep(t) == WalkOn(t) \/ WalkFinds(t) \/ WalkEnds(t)
CloseStep(t) == UnlinkPrev(t) \/ UnlinkNext(t) \/ Free(t)

Call(t) ==
  \/ \E d \in MayOpen[t] : CreateFile(t, d)
  \/ \E o \in held : drive[o] \in MayClose[t] /\ Close(t, o)
  \/ \E o \in Objs : drive[o] \in MayAsk[t] \cup {Null} /\ IsValidHandle(t, o)
  \/ MayAsk[t] = Drives /\ \E h \in OSHandles : FromDiskHandle(t, h)
  \/ \E o \in held : drive[o] \in MayAsk[t] /\ GetDiskHandle(t, o)

Continue(t) == OpenStep(t) \/ WalkStep(t) \/ CloseStep(t)

Next == \E t \in Threads : Call(t) \/ Continue(t)

Spec == Init /\ [][Next]_vars

(* A thread in a call keeps running.                                       *)
FairSpec == Spec /\ \A t \in Threads : WF_vars(Continue(t))

----------------------------------------------------------------------------
(* Properties                                                              *)

(* Links lead to nodes, no caller holds a freed object and what a failed   *)
(* DevBlkOpen dropped is still open, whatever call fails.                  *)
TypeOK ==
  /\ live \subseteq Objs /\ held \subseteq live
  /\ osOpen \subseteq OSHandles /\ leaked \subseteq osOpen
  /\ drive \in [Objs -> Drives \cup {Null}]
  /\ handle \in [Objs -> OSHandles \cup {Null}]
  /\ flink \in [Node -> Node \cup {Null}] /\ blink \in [Node -> Node \cup {Null}]
  /\ pc \in [Threads -> Labels] /\ op \in [Threads -> Ops]
  /\ obj \in [Threads -> Objs \cup {Null}]
  /\ hnd \in [Threads -> OSHandles \cup {Null}]
  /\ dev \in [Threads -> Drives \cup {Null}]
  /\ entry \in [Threads -> Node \cup {Null}]
  /\ next \in [Threads -> Node \cup {Null}] /\ prev \in [Threads -> Node \cup {Null}]

Quiet == \A t \in Threads : pc[t] = "idle"
Of(d) == {o \in live : drive[o] = d}

(* The first k nodes of a traversal of the list of d.                      *)
Reach(d) ==
  LET at[k \in 0 .. Cardinality(Objs)] ==
        IF k = 0 THEN flink[d]
        ELSE IF at[k - 1] \in Objs THEN flink[at[k - 1]] ELSE at[k - 1]
  IN  {at[k] : k \in 0 .. Cardinality(Objs)}

(* Between calls the objects of a drive and its head form one ring, in     *)
(* both directions, and nothing else is allocated.                         *)
Rings == Quiet => \A d \in Drives :
  /\ Reach(d) = Of(d) \cup {d}
  /\ \A n \in Of(d) \cup {d} : flink[n] \in Node /\ blink[flink[n]] = n

(* "Insert in our list of devblk handles" (windevblk.c:188): what a caller *)
(* holds is found by every traversal, at any moment.                       *)
HeldListed == \A o \in held : o \in Reach(drive[o])

(* No traversal and no link store ever touches freed memory.               *)
NoUndefined == \A t \in Threads : pc[t] # "undefined"

(* Between calls the process holds exactly the OS handles of its objects,  *)
(* each for one object, but for those DevBlkOpen dropped when it failed.   *)
HandlesAccounted == Quiet =>
  /\ osOpen = {handle[o] : o \in live} \cup leaked
  /\ \A o, p \in live : handle[o] = handle[p] => o = p
  /\ live = held

(* The object a caller holds for an OS handle.                             *)
Owner(h) == IF \E o \in held : handle[o] = h
            THEN CHOOSE o \in held : handle[o] = h ELSE Null

(* DevBlkIsValidHandle and DevBlkFromDiskHandle answer by what is held,    *)
(* though addresses and OS handle values are used again.                   *)
AnswersRight == [][\A t \in Threads : pc[t] = "walk" /\ pc'[t] = "idle" =>
  /\ op[t] = "valid" => ret'[t] = IF obj[t] \in held THEN "TRUE" ELSE "FALSE"
  /\ op[t] = "find" => ret'[t] = Owner(hnd[t])]_vars

(* No traversal goes round for ever: every call returns.                   *)
CallsReturn == \A t \in Threads : (pc[t] # "idle") ~> (pc[t] = "idle")

(* A close that closed the drive handle and freed the object says so.      *)
CloseReports == [][\A t \in Threads : Free(t) => ret'[t] = "TRUE"]_vars
=============================================================================

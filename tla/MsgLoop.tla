-------------------------------- MODULE MsgLoop --------------------------------
(* The thread that listens for drives coming and going, and the unloading  *)
(* of the DLL (src/src/windevblk_notif.c, dllmain.c, DevBlkInit of         *)
(* windevblk.c).                                                           *)
(*                                                                         *)
(* The first call of the library starts a thread that registers a window   *)
(* class, creates a hidden window and dispatches its messages; a change of *)
(* devices is counted there.  FreeLibrary runs DllMain under the loader    *)
(* lock, sends WM_CLOSE and unmaps the code; a thread needs that lock to   *)
(* start and to end.  A window is named by the thread that owns it.  An    *)
(* action is a call of the OS or an access to a variable threads share;    *)
(* the OS's own steps (a device changes, FreeLibrary, LoadLibrary,         *)
(* ExitProcess) are actions of their own.                                  *)
EXTENDS Naturals, SequencesExt

CONSTANTS
  Apps,        \* threads of the program
  Loops,       \* threads CreateThread may give
  MaxChanges,  \* bound: how often devices change
  MaxLoads,    \* bound: how often the DLL is loaded
  Faults,      \* names of the calls that may fail
  Null

ASSUME LoopAssumption ==
  /\ MaxChanges \in Nat /\ MaxLoads \in Nat \ {0}
  /\ Apps \cap Loops = {} /\ Null \notin Apps \cup Loops

VARIABLES
  inited,      \* g_bIsInited
  hThread,     \* g_hThread
  hWnd,        \* g_hWnd
  hNotify,     \* hDeviceNotify of WindowProc: the window it was made for
  msgCount,    \* msgCount of WindowProc
  class,       \* whether the window class is registered in the process
  windows,     \* windows that exist
  registered,  \* windows RegisterDeviceNotification is in force for
  inbox,       \* messages sent to the window and not dispatched
  pc, lpc,     \* where the program's threads and the loop threads are
  gen,         \* which load of the DLL a loop thread runs the code of
  loader,      \* who has the loader lock
  mapped, loads, \* whether the DLL is, and how often it was loaded
  over,        \* "no", "crashed" or "exited"
  changes,     \* history: how often devices changed
  sent,        \* history: how many changes the window was sent
  fresh,       \* history: no change since the device table was built
  left,        \* history: windows Windows would not take the notification back of
  failed       \* history: whether a call in Faults has failed

statics == <<inited, hThread, hWnd, hNotify, msgCount>>
user == <<class, windows, registered, inbox>>
dll == <<loader, mapped, loads, over>>
history == <<changes, sent, fresh, left, failed>>
vars == <<statics, user, pc, lpc, gen, dll, history>>

Init ==
  /\ inited = FALSE /\ hThread = Null /\ hWnd = Null /\ hNotify = Null /\ msgCount = 0
  /\ class = FALSE /\ windows = {} /\ registered = {} /\ inbox = <<>>
  /\ pc = [a \in Apps |-> "idle"] /\ lpc = [l \in Loops |-> "none"]
  /\ gen = [l \in Loops |-> 0]
  /\ loader = Null /\ mapped = TRUE /\ loads = 1
  /\ changes = 0 /\ sent = 0 /\ fresh = TRUE /\ left = {} /\ failed = FALSE /\ over = "no"

(* Nothing of a process that is over is left, its threads least of all.    *)
Over(how) ==
  /\ inited' = FALSE /\ hThread' = Null /\ hWnd' = Null /\ hNotify' = Null /\ msgCount' = 0
  /\ class' = FALSE /\ windows' = {} /\ registered' = {} /\ inbox' = <<>>
  /\ pc' = [a \in Apps |-> "idle"] /\ lpc' = [l \in Loops |-> "none"]
  /\ gen' = [l \in Loops |-> 0]
  /\ loader' = Null /\ mapped' = TRUE /\ loads' = 1
  /\ changes' = 0 /\ sent' = 0 /\ fresh' = TRUE /\ left' = {} /\ failed' = FALSE
  /\ over' = how

Goto(a, place) == pc' = [pc EXCEPT ![a] = place] /\ UNCHANGED lpc
LGoto(l, place) == lpc' = [lpc EXCEPT ![l] = place] /\ UNCHANGED pc

Happens(call) == call \in Faults /\ failed' = TRUE /\ UNCHANGED <<changes, sent, fresh>>
Fails(call) == Happens(call) /\ UNCHANGED left

----------------------------------------------------------------------------
(* DevBlkInit and CreateOnceMsgLoop                                        *)

InitCheck(a) ==
  /\ over = "no" /\ pc[a] = "idle" /\ mapped /\ loader = Null
  /\ ~inited
  /\ Goto(a, "set")
  /\ UNCHANGED <<statics, user, gen, dll, history>>

InitSet(a) ==
  /\ pc[a] = "set"
  /\ inited' = TRUE
  /\ Goto(a, "once")
  /\ UNCHANGED <<hThread, hWnd, hNotify, msgCount, user, gen, dll, history>>

(* Mutant of Once: the test is the other way round.                        *)
OnceInverted == hThread # Null
Once == hThread = Null

CreateOnceMsgLoop(a) ==
  /\ pc[a] = "once"
  /\ Goto(a, IF Once THEN "thread" ELSE "build")
  /\ UNCHANGED <<statics, user, gen, dll, history>>

(* CreateThread; its failure is not told on and not mended by later calls. *)
CreateThread(a) ==
  /\ pc[a] = "thread"
  /\ \/ \E l \in Loops :
          /\ lpc[l] \in {"none", "ended"}
          /\ lpc' = [lpc EXCEPT ![l] = "start"]
          /\ gen' = [gen EXCEPT ![l] = loads]
          /\ hThread' = l
          /\ UNCHANGED history
     \/ Fails("CreateThread") /\ hThread' = Null /\ UNCHANGED <<lpc, gen>>
  /\ pc' = [pc EXCEPT ![a] = "build"]
  /\ UNCHANGED <<inited, hWnd, hNotify, msgCount, user, dll>>

(* BuildDeviceList, of which only the moment counts here.                  *)
BuildDeviceList(a) ==
  /\ pc[a] = "build"
  /\ fresh' = TRUE
  /\ Goto(a, "idle")
  /\ UNCHANGED <<statics, user, gen, dll, changes, sent, left, failed>>

----------------------------------------------------------------------------
(* ThreadProc                                                              *)

(* The code a thread is about to run is where it was.                      *)
Runs(l) == mapped /\ gen[l] = loads

(* Windows calls DllMain for the new thread first.                         *)
Start(l) ==
  /\ lpc[l] = "start" /\ loader = Null /\ Runs(l)
  /\ LGoto(l, "register")
  /\ UNCHANGED <<statics, user, gen, dll, history>>

(* Mutant of RegisterWindowClass: the thread goes on when it fails.        *)
RegisterWindowClassIgnored(l) ==
  /\ lpc[l] = "register" /\ Runs(l)
  /\ class' = TRUE
  /\ LGoto(l, "create")
  /\ UNCHANGED <<statics, windows, registered, inbox, gen, dll, history>>

(* A class is registered once in the life of a process: nothing takes it   *)
(* back.  A thread that cannot register it ends.                           *)
RegisterWindowClass(l) ==
  /\ lpc[l] = "register" /\ Runs(l)
  /\ \/ ~class /\ class' = TRUE /\ LGoto(l, "create") /\ UNCHANGED history
     \/ class /\ LGoto(l, "exit") /\ UNCHANGED <<class, history>>
     \/ Fails("RegisterClassEx") /\ LGoto(l, "exit") /\ UNCHANGED class
  /\ UNCHANGED <<statics, windows, registered, inbox, gen, dll>>

(* CreateWindowEx, which sends WM_CREATE: the window is registered for     *)
(* notifications, or goes without.  If it fails there is no window and     *)
(* GetMessage waits all the same.                                          *)
CreateWindowEx(l) ==
  /\ lpc[l] = "create" /\ Runs(l)
  /\ \/ /\ windows' = windows \cup {l}
        /\ \/ registered' = registered \cup {l} /\ hNotify' = l /\ UNCHANGED history
           \/ Fails("RegisterDeviceNotification") /\ hNotify' = Null /\ UNCHANGED registered
     \/ Fails("CreateWindowEx") /\ UNCHANGED <<windows, registered, hNotify>>
  /\ LGoto(l, "store")
  /\ UNCHANGED <<inited, hThread, hWnd, msgCount, class, inbox, gen, dll>>

StoreWindow(l) ==
  /\ lpc[l] = "store" /\ Runs(l)
  /\ hWnd' = IF l \in windows THEN l ELSE Null
  /\ LGoto(l, "pump")
  /\ UNCHANGED <<inited, hThread, hNotify, msgCount, user, gen, dll, history>>

Pumps(l, msg) == lpc[l] = "pump" /\ l \in windows /\ inbox # <<>> /\ Head(inbox) = msg

(* Mutants of Count: a change of the device tree is not counted; one case  *)
(* of the switch falls through to the next.                                *)
CountInterfaces(msg) == IF msg = "interface" THEN 1 ELSE 0
CountFallsThrough(msg) == 2
Count(msg) == 1

(* WM_DEVICECHANGE                                                         *)
DeviceChange(l) ==
  /\ Runs(l)
  /\ \E msg \in {"interface", "devnodes"} :
       Pumps(l, msg) /\ msgCount' = msgCount + Count(msg)
  /\ inbox' = Tail(inbox)
  /\ UNCHANGED <<inited, hThread, hWnd, hNotify, class, windows, registered, pc, lpc, gen,
                 dll, history>>

(* Mutant of CloseUnregister: the notification is left.                    *)
CloseUnregisterForgotten(l) ==
  /\ Pumps(l, "close") /\ Runs(l)
  /\ inbox' = Tail(inbox)
  /\ LGoto(l, "destroy")
  /\ UNCHANGED <<statics, class, windows, registered, gen, dll, history>>

(* WM_CLOSE: UnregisterDeviceNotification, and then DestroyWindow, whether *)
(* it succeeded or not.                                                    *)
CloseUnregister(l) ==
  /\ Pumps(l, "close") /\ Runs(l)
  /\ inbox' = Tail(inbox)
  /\ \/ registered' = registered \ {hNotify} /\ UNCHANGED history
     \/ /\ Happens("UnregisterDeviceNotification")
        /\ left' = left \cup {l}
        /\ UNCHANGED registered
  /\ LGoto(l, "destroy")
  /\ UNCHANGED <<statics, class, windows, gen, dll>>

(* Mutant of AfterDestroy: no PostQuitMessage.                             *)
AfterDestroyNoQuit == "pump"
AfterDestroy == "quit"

(* DestroyWindow sends WM_DESTROY, which posts WM_QUIT.  Messages to the   *)
(* window are gone with it; SendMessage returns.                           *)
CloseDestroy(l) ==
  /\ lpc[l] = "destroy" /\ Runs(l)
  /\ windows' = windows \ {l}
  /\ inbox' = <<>>
  /\ LGoto(l, AfterDestroy)
  /\ UNCHANGED <<statics, class, registered, gen, dll, history>>

(* GetMessage returns 0 and ThreadProc returns.                            *)
Quit(l) ==
  /\ lpc[l] = "quit" /\ Runs(l)
  /\ LGoto(l, "exit")
  /\ UNCHANGED <<statics, user, gen, dll, history>>

(* The end of the thread, outside the DLL; DllMain is called if it is      *)
(* still there.                                                            *)
End(l) ==
  /\ lpc[l] = "exit" /\ loader = Null
  /\ LGoto(l, "ended")
  /\ gen' = [gen EXCEPT ![l] = 0]
  /\ UNCHANGED <<statics, user, dll, history>>

(* A thread whose next instruction is no longer there.                     *)
Crash(l) ==
  /\ ~Runs(l)
  /\ \/ lpc[l] \in {"register", "create", "store", "destroy", "quit"}
     \/ lpc[l] = "start" /\ loader = Null
     \/ lpc[l] = "pump" /\ l \in windows /\ inbox # <<>>
  /\ Over("crashed")

----------------------------------------------------------------------------
(* DllMain and DestroyMsgLoop                                              *)

(* FreeLibrary, once no thread of the program is in the library.           *)
FreeLibrary(a) ==
  /\ over = "no" /\ mapped /\ loader = Null
  /\ \A b \in Apps : pc[b] = "idle"
  /\ loader' = a
  /\ Goto(a, "detach")
  /\ UNCHANGED <<statics, user, gen, mapped, loads, over, history>>

(* Mutants of DestroyMsgLoop: the message is posted, not sent; the end of  *)
(* the thread is waited for.                                               *)
DestroyMsgLoopPosts(a) ==
  /\ pc[a] = "detach"
  /\ IF hWnd \in windows
     THEN inbox' = Append(inbox, "close") /\ Goto(a, "clear")
     ELSE UNCHANGED inbox /\ Goto(a, "unmap")
  /\ UNCHANGED <<statics, class, windows, registered, gen, dll, history>>

DestroyMsgLoop(a) ==
  /\ pc[a] = "detach"
  /\ IF hWnd \in windows
     THEN inbox' = Append(inbox, "close") /\ Goto(a, "sent")
     ELSE UNCHANGED inbox /\ Goto(a, "unmap")
  /\ UNCHANGED <<statics, class, windows, registered, gen, dll, history>>

(* Mutant of Answered: the thread must have ended.                         *)
AnsweredByEnd == \A l \in Loops : lpc[l] \in {"none", "ended"}

(* SendMessage returns when WindowProc has.                                *)
Answered == ~Contains(inbox, "close") /\ \A l \in Loops : lpc[l] # "destroy"

SendMessageReturns(a) ==
  /\ pc[a] = "sent"
  /\ Answered
  /\ Goto(a, "clear")
  /\ UNCHANGED <<statics, user, gen, dll, history>>

ClearWindow(a) ==
  /\ pc[a] = "clear"
  /\ hWnd' = Null
  /\ Goto(a, "unmap")
  /\ UNCHANGED <<inited, hThread, hNotify, msgCount, user, gen, dll, history>>

Unmap(a) ==
  /\ pc[a] = "unmap"
  /\ mapped' = FALSE /\ loader' = Null
  /\ Goto(a, "idle")
  /\ UNCHANGED <<statics, user, gen, loads, over, history>>

(* The DLL's variables start anew, the process's window class stays.       *)
LoadLibrary ==
  /\ ~mapped /\ loads < MaxLoads
  /\ mapped' = TRUE /\ loads' = loads + 1
  /\ inited' = FALSE /\ hThread' = Null /\ hWnd' = Null /\ hNotify' = Null /\ msgCount' = 0
  /\ sent' = 0
  /\ UNCHANGED <<user, pc, lpc, gen, loader, over, changes, fresh, left, failed>>

(* All other threads are ended, and their windows with them, before        *)
(* DllMain is called: IsWindow(g_hWnd) is FALSE then.                      *)
ExitProcess == over = "no" /\ loader = Null /\ Over("exited")

(* Windows tells every window that the device tree changed, and those that *)
(* registered of interfaces of the class they registered for.              *)
Change ==
  /\ over = "no" /\ changes < MaxChanges
  /\ changes' = changes + 1
  /\ fresh' = FALSE
  /\ \/ \E w \in windows :
          /\ \/ inbox' = Append(inbox, "devnodes")
             \/ w \in registered /\ inbox' = Append(inbox, "interface")
          /\ sent' = sent + 1
     \/ windows = {} /\ UNCHANGED <<inbox, sent>>
  /\ UNCHANGED <<statics, class, windows, registered, pc, lpc, gen, dll, left, failed>>

----------------------------------------------------------------------------
AppStep(a) ==
  InitSet(a) \/ CreateOnceMsgLoop(a) \/ CreateThread(a) \/ BuildDeviceList(a)
    \/ DestroyMsgLoop(a) \/ SendMessageReturns(a) \/ ClearWindow(a) \/ Unmap(a)

LoopStep(l) ==
  Start(l) \/ RegisterWindowClass(l) \/ CreateWindowEx(l) \/ StoreWindow(l)
    \/ DeviceChange(l) \/ CloseUnregister(l) \/ CloseDestroy(l) \/ Quit(l) \/ End(l) \/ Crash(l)

Next ==
  \/ \E a \in Apps : InitCheck(a) \/ FreeLibrary(a) \/ AppStep(a)
  \/ \E l \in Loops : LoopStep(l)
  \/ LoadLibrary \/ ExitProcess \/ Change

Spec == Init /\ [][Next]_vars

(* Threads that can run do; nobody has to call, unload or change anything. *)
FairSpec ==
  /\ Spec
  /\ \A a \in Apps : WF_vars(AppStep(a))
  /\ \A l \in Loops : WF_vars(LoopStep(l))

----------------------------------------------------------------------------
(* Properties                                                              *)

(* Only windows of threads that made one exist, and what waits in the      *)
(* inbox waits for a window.                                               *)
TypeOK ==
  /\ inited \in BOOLEAN /\ class \in BOOLEAN /\ mapped \in BOOLEAN /\ failed \in BOOLEAN
  /\ hThread \in Loops \cup {Null} /\ hWnd \in Loops \cup {Null}
  /\ hNotify \in Loops \cup {Null}
  /\ msgCount \in 0 .. MaxChanges /\ sent \in 0 .. MaxChanges
  /\ windows \subseteq Loops /\ registered \subseteq Loops
  /\ inbox \in Seq({"devnodes", "interface", "close"})
  /\ inbox # <<>> => windows # {}
  /\ pc \in [Apps -> {"idle", "set", "once", "thread", "build", "detach", "sent", "clear", "unmap"}]
  /\ lpc \in [Loops -> {"none", "start", "register", "create", "store", "pump", "destroy",
                        "quit", "exit", "ended"}]
  /\ gen \in [Loops -> 0 .. MaxLoads] /\ loads \in 1 .. MaxLoads
  /\ loader \in Apps \cup {Null} /\ over \in {"no", "crashed", "exited"}
  /\ changes \in 0 .. MaxChanges /\ fresh \in BOOLEAN /\ left \subseteq Loops

(* Two first calls may start two threads, but one window at most comes of  *)
(* it, and it is the one DestroyMsgLoop knows as soon as its thread has    *)
(* said so.                                                                *)
OneWindow ==
  /\ \A l, m \in windows : l = m
  /\ \A l \in windows : lpc[l] \in {"pump", "destroy"} /\ gen[l] = loads /\ mapped => hWnd = l

(* A notification is left registered for a window that is gone only where  *)
(* Windows refused to take it back: WM_CLOSE destroys the window then all  *)
(* the same, and hDeviceNotify is otherwise the right handle.              *)
Unregistered == registered \subseteq windows \cup left

(* When DestroyMsgLoop found a window it goes on, towards the unmapping of *)
(* the code, only once the window is destroyed and its notification either *)
(* taken back or refused to be.                                            *)
DetachCloses ==
  \A a \in Apps : pc[a] = "clear" => windows = {} /\ registered \subseteq left

Stops == over # "no"

(* DllMain returns: its SendMessage waits for a thread that answers        *)
(* without the loader lock.                                                *)
DetachReturns == \A a \in Apps : pc[a] = "detach" ~> pc[a] = "idle" \/ Stops

(* A thread whose window is destroyed ends.                                *)
ThreadEnds == \A l \in Loops : lpc[l] = "destroy" ~> lpc[l] \in {"ended", "none"} \/ Stops

(* Every change the window is sent is counted, unless the window is closed *)
(* first.                                                                  *)
ChangesCounted == \A n \in 1 .. MaxChanges :
  sent = n /\ windows # {} ~> msgCount >= n \/ windows = {} \/ loader # Null \/ ~mapped \/ Stops

(* "it will create a msg loop to receive notifications when a usb key is   *)
(* added/removed" (windevblk.c:52), in a process that loads the DLL once.  *)
Listens == inited ~> hWnd \in windows \/ failed \/ loader # Null \/ ~mapped \/ loads > 1 \/ Stops

(* The same of every load.                                                 *)
ListensAlways == inited ~> hWnd \in windows \/ failed \/ loader # Null \/ ~mapped \/ Stops

(* Unloading the DLL does not take the code away from its thread.          *)
NoCrash == over # "crashed"

(* No window survives the DLL.                                             *)
NoWindowLeft == ~mapped => windows = {}

(* What was counted shows in the device table.                             *)
TableFollows == msgCount > 0 ~> fresh \/ loader # Null \/ ~mapped \/ Stops
=============================================================================

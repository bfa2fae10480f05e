---------------------------- MODULE MsgLoop_proofs ----------------------------
(* Proofs about MsgLoop, for any number of threads, loads and changes and  *)
(* any set of calls that may fail.                                         *)
EXTENDS MsgLoop, TLAPS

(* Threads that have the window class and have not given it up.            *)
Beyond == {l \in Loops : lpc[l] \in {"create", "store", "pump", "destroy", "quit"}}

(* The class is a lock nobody releases: one thread at most got past it in  *)
(* the life of the process.                                                *)
OneBeyond ==
  /\ ~class => Beyond = {}
  /\ \A l, m \in Beyond : l = m

(* Where a window's thread is, and which code it runs.                     *)
WindowPlaces ==
  /\ \A l \in windows : lpc[l] \in {"store", "pump", "destroy"}
  /\ \A l \in Loops : gen[l] <= loads
  /\ \A l \in Loops : lpc[l] = "destroy" => l \notin registered \ left

(* The handle WM_CLOSE unregisters is that of the window it closes.        *)
Notified == \A l \in registered \ left : gen[l] = loads => hNotify = l

(* DestroyMsgLoop has the loader lock.                                     *)
Locked == \A a \in Apps : pc[a] \in {"detach", "sent", "clear", "unmap"} => loader = a

(* From the sending of WM_CLOSE to the clearing of g_hWnd there is no      *)
(* window to come, and the one there is has the message or is on its way.  *)
Closing ==
  /\ \A a \in Apps : pc[a] \in {"sent", "clear"} =>
       class /\ \A l \in Loops : lpc[l] # "create"
  /\ \A a \in Apps : pc[a] = "sent" =>
       \/ windows = {} \/ Contains(inbox, "close")
       \/ \E l \in Loops : lpc[l] = "destroy"
  /\ Contains(inbox, "close") => \E a \in Apps : pc[a] = "sent"

(* What is counted or waits to be was a change, but for one WM_CLOSE.      *)
Counted ==
  /\ sent <= changes
  /\ msgCount + Len(inbox) <= changes + (IF Contains(inbox, "close") THEN 1 ELSE 0)

(* The inductive invariant.                                                *)
LoopInv ==
  /\ TypeOK /\ OneWindow /\ Unregistered /\ DetachCloses
  /\ OneBeyond /\ WindowPlaces /\ Notified /\ Locked /\ Closing /\ Counted

----------------------------------------------------------------------------
LEMMA Bounds ==
  MaxChanges \in Nat /\ MaxLoads \in Nat \ {0} /\ Null \notin Apps /\ Null \notin Loops
BY LoopAssumption DEF LoopAssumption

(* The inbox as a sequence.                                                *)
LEMMA ContainsAppend ==
  ASSUME NEW S, NEW s \in Seq(S), NEW e \in S, NEW f
  PROVE  Contains(Append(s, e), f) <=> Contains(s, f) \/ e = f
BY DEF Contains

(* What the window is sent.                                                *)
Messages == {"devnodes", "interface", "close"}

LEMMA Sending ==
  ASSUME TypeOK, NEW e \in Messages
  PROVE  /\ Append(inbox, e) \in Seq(Messages)
         /\ Len(Append(inbox, e)) = Len(inbox) + 1
         /\ Append(inbox, e) # <<>>
         /\ Contains(Append(inbox, e), "close") <=> Contains(inbox, "close") \/ e = "close"
<1>1. inbox \in Seq(Messages)
  BY DEF TypeOK, Messages
<1> QED BY <1>1, ContainsAppend

LEMMA ContainsTail ==
  ASSUME NEW S, NEW s \in Seq(S), s # <<>>, NEW f
  PROVE  /\ Contains(Tail(s), f) => Contains(s, f)
         /\ Contains(s, f) /\ Head(s) # f => Contains(Tail(s), f)
<1>1. /\ Len(s) \in Nat \ {0} /\ Len(Tail(s)) = Len(s) - 1 /\ Head(s) = s[1]
      /\ \A i \in 1 .. Len(s) - 1 : Tail(s)[i] = s[i + 1]
  OBVIOUS
<1>2. ASSUME Contains(Tail(s), f) PROVE Contains(s, f)
  <2>1. PICK i \in 1 .. Len(s) - 1 : s[i + 1] = f
    BY <1>1, <1>2 DEF Contains
  <2>2. i + 1 \in 1 .. Len(s)
    BY <1>1
  <2> QED BY <2>1, <2>2 DEF Contains
<1>3. ASSUME Contains(s, f), Head(s) # f PROVE Contains(Tail(s), f)
  <2>1. PICK i \in 1 .. Len(s) : s[i] = f
    BY <1>3 DEF Contains
  <2>2. i - 1 \in 1 .. Len(s) - 1 /\ Tail(s)[i - 1] = f
    BY <1>1, <1>3, <2>1
  <2> QED BY <1>1, <2>2 DEF Contains
<1> QED BY <1>2, <1>3

LEMMA ContainsNothing ==
  ASSUME NEW f PROVE ~Contains(<<>>, f)
BY DEF Contains

----------------------------------------------------------------------------
(* The types of pc and lpc.                                                *)
AppPlaces ==
  {"idle", "set", "once", "thread", "build", "detach", "sent", "clear", "unmap"}
LoopPlaces ==
  {"none", "start", "register", "create", "store", "pump", "destroy", "quit", "exit", "ended"}

(* Steps of the library's first call.                                      *)

Inert == {"idle", "set", "once", "thread", "build"}

(* What no part of the invariant but the types speaks of may change, and a *)
(* thread of the program may go where no unloading is under way.           *)
LEMMA Unconcerned ==
  ASSUME LoopInv, NEW a \in Apps, NEW place \in Inert, pc[a] \in Inert,
         pc' = [pc EXCEPT ![a] = place],
         inited' \in BOOLEAN, hThread' \in Loops \cup {Null}, fresh' \in BOOLEAN,
         failed' \in BOOLEAN,
         UNCHANGED <<hWnd, hNotify, msgCount, user, lpc, gen, dll, changes, sent, left>>
  PROVE  LoopInv'
<1> USE DEF user, dll, Inert
<1>1. TypeOK'
  BY DEF LoopInv, TypeOK
<1>2. OneWindow' /\ Unregistered' /\ DetachCloses'
  BY DEF LoopInv, OneWindow, Unregistered, DetachCloses
<1>3. OneBeyond' /\ WindowPlaces' /\ Notified'
  BY DEF LoopInv, OneBeyond, Beyond, WindowPlaces, Notified
<1>4. Locked'
  BY DEF LoopInv, TypeOK, Locked
<1>5. Closing' /\ Counted'
  BY DEF LoopInv, Closing, Counted
<1> QED BY <1>1, <1>2, <1>3, <1>4, <1>5 DEF LoopInv

LEMMA InitCheckKeeps ==
  ASSUME LoopInv, NEW a \in Apps, InitCheck(a) PROVE LoopInv'
BY Unconcerned DEF InitCheck, Goto, Inert, LoopInv, TypeOK, statics, history, dll, user

LEMMA InitSetKeeps ==
  ASSUME LoopInv, NEW a \in Apps, InitSet(a) PROVE LoopInv'
BY Unconcerned DEF InitSet, Goto, Inert, LoopInv, TypeOK, history, dll, user

LEMMA CreateOnceMsgLoopKeeps ==
  ASSUME LoopInv, NEW a \in Apps, CreateOnceMsgLoop(a) PROVE LoopInv'
BY Unconcerned DEF CreateOnceMsgLoop, Goto, Inert, LoopInv, TypeOK, statics, history, dll, user

LEMMA BuildDeviceListKeeps ==
  ASSUME LoopInv, NEW a \in Apps, BuildDeviceList(a) PROVE LoopInv'
BY Unconcerned DEF BuildDeviceList, Goto, Inert, LoopInv, TypeOK, statics, dll, user

LEMMA CreateThreadKeeps ==
  ASSUME LoopInv, NEW a \in Apps, CreateThread(a) PROVE LoopInv'
<1> USE DEF CreateThread, Happens, Fails, user, dll, history
<1>1. TypeOK'
  <2>1. loads \in 0 .. MaxLoads
    BY DEF LoopInv, TypeOK
  <2>2. lpc' \in [Loops -> LoopPlaces] /\ gen' \in [Loops -> 0 .. MaxLoads]
    BY <2>1 DEF LoopInv, TypeOK, LoopPlaces
  <2>3. pc' \in [Apps -> AppPlaces] /\ hThread' \in Loops \cup {Null} /\ failed' \in BOOLEAN
    BY DEF LoopInv, TypeOK, AppPlaces
  <2>4. UNCHANGED <<changes, sent, fresh, left>>
    OBVIOUS
  <2> QED BY <2>2, <2>3, <2>4 DEF LoopInv, TypeOK, LoopPlaces, AppPlaces
<1>2. OneWindow'
  BY DEF LoopInv, TypeOK, OneWindow
<1>3. DetachCloses'
  BY DEF LoopInv, TypeOK, DetachCloses
<1>4. OneBeyond'
  BY DEF LoopInv, TypeOK, OneBeyond, Beyond
<1>5. WindowPlaces'
  <2>1. \A l \in windows \cup (registered \ left) : lpc[l] \in {"store", "pump", "destroy"} /\ l \in Loops
    BY DEF LoopInv, TypeOK, Unregistered, WindowPlaces
  <2>2. CASE \E l \in Loops : /\ lpc[l] \in {"none", "ended"}
                              /\ lpc' = [lpc EXCEPT ![l] = "start"]
                              /\ gen' = [gen EXCEPT ![l] = loads]
    <3>1. PICK l \in Loops : /\ lpc[l] \in {"none", "ended"}
                             /\ lpc' = [lpc EXCEPT ![l] = "start"]
                             /\ gen' = [gen EXCEPT ![l] = loads]
      BY <2>2
    <3>2. loads <= loads
      BY DEF LoopInv, TypeOK
    <3> QED BY <2>1, <3>1, <3>2 DEF LoopInv, TypeOK, WindowPlaces
  <2>3. CASE UNCHANGED <<lpc, gen>>
    BY <2>3 DEF LoopInv, WindowPlaces
  <2> QED BY <2>2, <2>3
<1>6. Notified'
  BY DEF LoopInv, TypeOK, Notified, Unregistered, WindowPlaces
<1>7. Locked'
  BY DEF LoopInv, TypeOK, Locked
<1>8. Closing'
  BY DEF LoopInv, TypeOK, Closing
<1>9. Unregistered' /\ Counted'
  BY DEF LoopInv, Unregistered, Counted
<1> QED BY <1>1, <1>2, <1>3, <1>4, <1>5, <1>6, <1>7, <1>8, <1>9 DEF LoopInv

LEMMA StartKeeps ==
  ASSUME LoopInv, NEW l \in Loops, Start(l) PROVE LoopInv'
<1> USE DEF Start, LGoto, statics, user, dll, history
<1>1. TypeOK'
  BY DEF LoopInv, TypeOK
<1>2. OneWindow'
  BY DEF LoopInv, TypeOK, OneWindow
<1>3. OneBeyond'
  BY DEF LoopInv, TypeOK, OneBeyond, Beyond
<1>4. WindowPlaces'
  BY DEF LoopInv, TypeOK, WindowPlaces
<1>5. Closing'
  BY DEF LoopInv, TypeOK, Closing
<1>6. Unregistered' /\ DetachCloses' /\ Notified' /\ Locked' /\ Counted'
  BY DEF LoopInv, Unregistered, DetachCloses, Notified, Locked, Counted
<1> QED BY <1>1, <1>2, <1>3, <1>4, <1>5, <1>6 DEF LoopInv

LEMMA RegisterWindowClassKeeps ==
  ASSUME LoopInv, NEW l \in Loops, RegisterWindowClass(l) PROVE LoopInv'
<1> USE DEF RegisterWindowClass, LGoto, Happens, Fails, statics, dll, history
<1>1. TypeOK'
  <2>1. lpc' \in [Loops -> LoopPlaces] /\ class' \in BOOLEAN /\ failed' \in BOOLEAN
    BY DEF LoopInv, TypeOK, LoopPlaces
  <2>2. UNCHANGED <<changes, sent, fresh, left, pc>>
    OBVIOUS
  <2> QED BY <2>1, <2>2 DEF LoopInv, TypeOK, LoopPlaces
<1>2. OneWindow'
  BY DEF LoopInv, TypeOK, OneWindow
<1>3. OneBeyond'
  BY DEF LoopInv, TypeOK, OneBeyond, Beyond
<1>4. WindowPlaces'
  BY DEF LoopInv, TypeOK, WindowPlaces
<1>5. Closing'
  BY DEF LoopInv, TypeOK, Closing
<1>6. Unregistered' /\ DetachCloses' /\ Notified' /\ Locked' /\ Counted'
  BY DEF LoopInv, Unregistered, DetachCloses, Notified, Locked, Counted
<1> QED BY <1>1, <1>2, <1>3, <1>4, <1>5, <1>6 DEF LoopInv

LEMMA CreateWindowExKeeps ==
  ASSUME LoopInv, NEW l \in Loops, CreateWindowEx(l) PROVE LoopInv'
<1> USE DEF CreateWindowEx, LGoto, Happens, Fails, dll, history
<1>1. TypeOK'
  <2>1. lpc' \in [Loops -> LoopPlaces] /\ failed' \in BOOLEAN
    BY DEF LoopInv, TypeOK, LoopPlaces
  <2>2. /\ windows \subseteq windows' /\ windows' \subseteq Loops
        /\ registered' \subseteq Loops /\ hNotify' \in Loops \cup {Null}
    BY DEF LoopInv, TypeOK
  <2>3. UNCHANGED <<changes, sent, fresh, left, pc>>
    OBVIOUS
  <2> QED BY <2>1, <2>2, <2>3 DEF LoopInv, TypeOK, LoopPlaces
<1>2. OneWindow'
  <2>1. windows = {}
    BY DEF LoopInv, TypeOK, OneBeyond, Beyond, WindowPlaces
  <2>2. windows' \subseteq {l} /\ lpc'[l] = "store"
    BY <2>1 DEF LoopInv, TypeOK
  <2> QED BY <2>2 DEF OneWindow
<1>3. Unregistered'
  BY DEF LoopInv, Unregistered
<1>4. DetachCloses'
  BY DEF LoopInv, TypeOK, DetachCloses, Closing
<1>5. OneBeyond'
  BY DEF LoopInv, TypeOK, OneBeyond, Beyond
<1>6. WindowPlaces'
  BY DEF LoopInv, TypeOK, WindowPlaces
<1>7. Notified'
  BY DEF LoopInv, TypeOK, Notified, OneBeyond, Beyond, WindowPlaces, Unregistered
<1>8. Closing'
  BY DEF LoopInv, TypeOK, Closing
<1>9. Locked' /\ Counted'
  BY DEF LoopInv, Locked, Counted
<1> QED BY <1>1, <1>2, <1>3, <1>4, <1>5, <1>6, <1>7, <1>8, <1>9 DEF LoopInv

LEMMA StoreWindowKeeps ==
  ASSUME LoopInv, NEW l \in Loops, StoreWindow(l) PROVE LoopInv'
<1> USE DEF StoreWindow, LGoto, user, dll, history
<1>1. TypeOK'
  BY DEF LoopInv, TypeOK
<1>2. OneWindow'
  BY DEF LoopInv, TypeOK, OneWindow, OneBeyond, Beyond
<1>3. OneBeyond'
  BY DEF LoopInv, TypeOK, OneBeyond, Beyond
<1>4. WindowPlaces'
  BY DEF LoopInv, TypeOK, WindowPlaces
<1>5. Closing'
  BY DEF LoopInv, TypeOK, Closing
<1>6. Unregistered' /\ DetachCloses' /\ Notified' /\ Locked' /\ Counted'
  BY DEF LoopInv, Unregistered, DetachCloses, Notified, Locked, Counted
<1> QED BY <1>1, <1>2, <1>3, <1>4, <1>5, <1>6 DEF LoopInv

LEMMA DeviceChangeKeeps ==
  ASSUME LoopInv, NEW l \in Loops, DeviceChange(l) PROVE LoopInv'
<1> USE DEF DeviceChange, Pumps, Count, dll, history
<1>1. TypeOK'
  <2>1. inbox' \in Seq({"devnodes", "interface", "close"})
    BY DEF LoopInv, TypeOK
  <2>2. msgCount' \in Nat /\ Counted'
    BY ContainsTail DEF LoopInv, TypeOK, Counted
  <2>3. msgCount' <= changes
    BY <2>1, <2>2 DEF LoopInv, TypeOK, Counted, Contains
  <2> QED BY <2>1, <2>2, <2>3, Bounds DEF LoopInv, TypeOK
<1>2. Closing'
  BY ContainsTail DEF LoopInv, TypeOK, Closing
<1>3. Counted'
  BY ContainsTail DEF LoopInv, TypeOK, Counted
<1>4. OneWindow' /\ Unregistered' /\ DetachCloses' /\ OneBeyond' /\ WindowPlaces' /\ Notified' /\ Locked'
  BY DEF LoopInv, OneWindow, Unregistered, DetachCloses, OneBeyond, WindowPlaces, Notified, Locked, Beyond
<1> QED BY <1>1, <1>2, <1>3, <1>4 DEF LoopInv

LEMMA CloseUnregisterKeeps ==
  ASSUME LoopInv, NEW l \in Loops, CloseUnregister(l) PROVE LoopInv'
<1> USE DEF CloseUnregister, Happens, Pumps, LGoto, statics, dll, history
<1>1. TypeOK'
  <2>1. inbox' \in Seq(Messages) /\ (inbox' # <<>> => windows # {})
    BY DEF LoopInv, TypeOK, Messages
  <2>2. registered' \subseteq Loops /\ left' \subseteq Loops
    BY DEF LoopInv, TypeOK
  <2>3. lpc' \in [Loops -> LoopPlaces] /\ failed' \in BOOLEAN
    BY DEF LoopInv, TypeOK, LoopPlaces
  <2>4. UNCHANGED <<statics, class, windows, pc, gen, dll, changes, sent, fresh>>
    OBVIOUS
  <2> QED BY <2>1, <2>2, <2>3, <2>4 DEF LoopInv, TypeOK, LoopPlaces, Messages
<1>2. OneWindow'
  BY DEF LoopInv, TypeOK, OneWindow
<1>3. Unregistered'
  BY DEF LoopInv, Unregistered
<1>4. DetachCloses'
  BY DEF LoopInv, TypeOK, DetachCloses
<1>5. OneBeyond'
  BY DEF LoopInv, TypeOK, OneBeyond, Beyond
<1>6. WindowPlaces'
  BY DEF LoopInv, TypeOK, WindowPlaces, Notified, Runs
<1>7. Notified'
  BY DEF LoopInv, Notified
<1>8. Closing'
  BY ContainsTail DEF LoopInv, TypeOK, Closing
<1>9. Counted'
  BY DEF LoopInv, TypeOK, Counted
<1>10. Locked'
  BY DEF LoopInv, TypeOK, Locked
<1> QED BY <1>1, <1>2, <1>3, <1>4, <1>5, <1>6, <1>7, <1>8, <1>9, <1>10 DEF LoopInv

LEMMA CloseDestroyKeeps ==
  ASSUME LoopInv, NEW l \in Loops, CloseDestroy(l) PROVE LoopInv'
<1> USE DEF CloseDestroy, AfterDestroy, LGoto, statics, dll, history
<1>1. TypeOK'
  BY DEF LoopInv, TypeOK
<1>2. OneWindow'
  BY DEF LoopInv, TypeOK, OneWindow
<1>3. Unregistered'
  BY DEF LoopInv, Unregistered, WindowPlaces
<1>4. DetachCloses'
  BY DEF LoopInv, TypeOK, DetachCloses
<1>5. OneBeyond'
  BY DEF LoopInv, TypeOK, OneBeyond, Beyond
<1>6. WindowPlaces'
  BY DEF LoopInv, TypeOK, WindowPlaces
<1>7. Closing'
  BY ContainsNothing DEF LoopInv, TypeOK, Closing, OneBeyond, Beyond, WindowPlaces, OneWindow
<1>8. Counted'
  BY DEF LoopInv, TypeOK, Counted
<1>9. Notified' /\ Locked'
  BY DEF LoopInv, Notified, Locked
<1> QED BY <1>1, <1>2, <1>3, <1>4, <1>5, <1>6, <1>7, <1>8, <1>9 DEF LoopInv

LEMMA QuitKeeps ==
  ASSUME LoopInv, NEW l \in Loops, Quit(l) PROVE LoopInv'
<1> USE DEF Quit, LGoto, statics, user, dll, history
<1>1. TypeOK'
  BY DEF LoopInv, TypeOK
<1>2. OneWindow'
  BY DEF LoopInv, TypeOK, OneWindow
<1>3. OneBeyond'
  BY DEF LoopInv, TypeOK, OneBeyond, Beyond
<1>4. WindowPlaces'
  BY DEF LoopInv, TypeOK, WindowPlaces
<1>5. Closing'
  BY DEF LoopInv, TypeOK, Closing
<1>6. Unregistered' /\ DetachCloses' /\ Notified' /\ Locked' /\ Counted'
  BY DEF LoopInv, Unregistered, DetachCloses, Notified, Locked, Counted
<1> QED BY <1>1, <1>2, <1>3, <1>4, <1>5, <1>6 DEF LoopInv

LEMMA EndKeeps ==
  ASSUME LoopInv, NEW l \in Loops, End(l) PROVE LoopInv'
<1> USE DEF End, LGoto, statics, user, dll, history
<1>1. TypeOK'
  BY Bounds DEF LoopInv, TypeOK
<1>2. OneWindow'
  BY DEF LoopInv, TypeOK, OneWindow
<1>3. OneBeyond'
  BY DEF LoopInv, TypeOK, OneBeyond, Beyond
<1>4. WindowPlaces'
  BY DEF LoopInv, TypeOK, WindowPlaces
<1>5. Notified'
  BY DEF LoopInv, TypeOK, Notified
<1>6. Closing'
  BY DEF LoopInv, TypeOK, Closing
<1>7. Unregistered' /\ DetachCloses' /\ Locked' /\ Counted'
  BY DEF LoopInv, Unregistered, DetachCloses, Locked, Counted
<1> QED BY <1>1, <1>2, <1>3, <1>4, <1>5, <1>6, <1>7 DEF LoopInv

LEMMA OverKeeps ==
  ASSUME LoopInv, NEW how \in {"crashed", "exited"}, Over(how) PROVE LoopInv'
<1> USE DEF Over
<1>1. TypeOK'
  <2>1. pc' \in [Apps -> AppPlaces] /\ lpc' \in [Loops -> LoopPlaces]
    BY DEF AppPlaces, LoopPlaces
  <2>2. gen' \in [Loops -> 0 .. MaxLoads] /\ loads' \in 1 .. MaxLoads
    BY Bounds
  <2>3. inbox' \in Seq(Messages)
    OBVIOUS
  <2>4. msgCount' \in 0 .. MaxChanges /\ sent' \in 0 .. MaxChanges /\ changes' \in 0 .. MaxChanges
    BY Bounds
  <2>5. windows' \subseteq Loops /\ registered' \subseteq Loops /\ left' \subseteq Loops
    OBVIOUS
  <2> QED BY <2>1, <2>2, <2>3, <2>4, <2>5 DEF TypeOK, AppPlaces, LoopPlaces, Messages
<1>2. OneWindow'
  BY DEF LoopInv, TypeOK, OneWindow
<1>3. Unregistered'
  BY DEF LoopInv, Unregistered
<1>4. DetachCloses'
  BY DEF LoopInv, TypeOK, DetachCloses
<1>5. OneBeyond'
  BY DEF LoopInv, TypeOK, OneBeyond, Beyond
<1>6. WindowPlaces'
  BY DEF LoopInv, TypeOK, WindowPlaces
<1>7. Notified'
  BY DEF LoopInv, Notified
<1>8. Locked'
  BY DEF LoopInv, TypeOK, Locked
<1>9. Closing'
  BY ContainsNothing DEF LoopInv, TypeOK, Closing
<1>10. Counted'
  BY DEF LoopInv, Counted
<1> QED BY <1>1, <1>2, <1>3, <1>4, <1>5, <1>6, <1>7, <1>8, <1>9, <1>10 DEF LoopInv

LEMMA FreeLibraryKeeps ==
  ASSUME LoopInv, NEW a \in Apps, FreeLibrary(a) PROVE LoopInv'
<1> USE DEF FreeLibrary, Goto, statics, user, history
<1>1. TypeOK'
  BY DEF LoopInv, TypeOK
<1>2. DetachCloses'
  BY DEF LoopInv, TypeOK, DetachCloses
<1>3. Locked'
  BY DEF LoopInv, TypeOK, Locked
<1>4. Closing'
  BY DEF LoopInv, TypeOK, Closing
<1>5. OneWindow' /\ Unregistered' /\ OneBeyond' /\ WindowPlaces' /\ Notified' /\ Counted'
  BY DEF LoopInv, OneWindow, Unregistered, OneBeyond, WindowPlaces, Notified, Counted, Beyond
<1> QED BY <1>1, <1>2, <1>3, <1>4, <1>5 DEF LoopInv

LEMMA DestroyMsgLoopKeeps ==
  ASSUME LoopInv, NEW a \in Apps, DestroyMsgLoop(a) PROVE LoopInv'
<1> USE DEF DestroyMsgLoop, Goto, statics, dll, history
<1>1. TypeOK'
  <2>1. inbox' = inbox \/ (inbox' = Append(inbox, "close") /\ hWnd \in windows)
    OBVIOUS
  <2>2. inbox' \in Seq(Messages) /\ (inbox' # <<>> => windows # {})
    BY <2>1, Sending DEF LoopInv, TypeOK, Messages
  <2>3. pc' \in [Apps -> AppPlaces]
    BY DEF LoopInv, TypeOK, AppPlaces
  <2> QED BY <2>2, <2>3 DEF LoopInv, TypeOK, AppPlaces, Messages
<1>2. DetachCloses'
  BY DEF LoopInv, TypeOK, DetachCloses
<1>3. Locked'
  BY DEF LoopInv, TypeOK, Locked
<1>4. Closing'
  <2>1. CASE hWnd \in windows
    <3>1. inbox' = Append(inbox, "close") /\ pc' = [pc EXCEPT ![a] = "sent"]
      BY <2>1
    <3>2. Contains(inbox', "close")
      BY <3>1, Sending DEF LoopInv, Messages
    <3>3. class /\ \A l \in Loops : lpc[l] # "create"
      BY <2>1 DEF LoopInv, TypeOK, OneBeyond, Beyond, WindowPlaces
    <3> QED BY <3>1, <3>2, <3>3 DEF LoopInv, TypeOK, Closing
  <2>2. CASE hWnd \notin windows
    BY <2>2 DEF LoopInv, TypeOK, Closing
  <2> QED BY <2>1, <2>2
<1>5. Counted'
  <2>1. ~Contains(inbox, "close")
    BY DEF LoopInv, Closing, Locked
  <2>2. CASE inbox' = Append(inbox, "close")
    <3>1. Contains(inbox', "close") /\ Len(inbox') = Len(inbox) + 1
      BY <2>2, Sending DEF LoopInv, Messages
    <3> QED BY <2>1, <3>1 DEF LoopInv, TypeOK, Counted
  <2>3. CASE inbox' = inbox
    BY <2>3 DEF LoopInv, Counted
  <2> QED BY <2>2, <2>3
<1>6. OneWindow' /\ Unregistered' /\ OneBeyond' /\ WindowPlaces' /\ Notified'
  BY DEF LoopInv, OneWindow, Unregistered, OneBeyond, WindowPlaces, Notified, Beyond
<1> QED BY <1>1, <1>2, <1>3, <1>4, <1>5, <1>6 DEF LoopInv

LEMMA SendMessageReturnsKeeps ==
  ASSUME LoopInv, NEW a \in Apps, SendMessageReturns(a) PROVE LoopInv'
<1> USE DEF SendMessageReturns, Answered, Goto, statics, user, dll, history
<1>1. TypeOK'
  BY DEF LoopInv, TypeOK
<1>2. DetachCloses'
  BY DEF LoopInv, TypeOK, DetachCloses, Closing, Unregistered
<1>3. Locked'
  BY DEF LoopInv, TypeOK, Locked
<1>4. Closing'
  BY DEF LoopInv, TypeOK, Closing
<1>5. OneWindow' /\ Unregistered' /\ OneBeyond' /\ WindowPlaces' /\ Notified' /\ Counted'
  BY DEF LoopInv, OneWindow, Unregistered, OneBeyond, WindowPlaces, Notified, Counted, Beyond
<1> QED BY <1>1, <1>2, <1>3, <1>4, <1>5 DEF LoopInv

LEMMA ClearWindowKeeps ==
  ASSUME LoopInv, NEW a \in Apps, ClearWindow(a) PROVE LoopInv'
<1> USE DEF ClearWindow, Goto, user, dll, history
<1>1. TypeOK'
  BY DEF LoopInv, TypeOK
<1>2. OneWindow'
  BY DEF LoopInv, TypeOK, OneWindow, DetachCloses
<1>3. DetachCloses'
  BY DEF LoopInv, TypeOK, DetachCloses
<1>4. Locked'
  BY DEF LoopInv, TypeOK, Locked
<1>5. Closing'
  BY DEF LoopInv, TypeOK, Closing
<1>6. Unregistered' /\ OneBeyond' /\ WindowPlaces' /\ Notified' /\ Counted'
  BY DEF LoopInv, Unregistered, OneBeyond, WindowPlaces, Notified, Counted, Beyond
<1> QED BY <1>1, <1>2, <1>3, <1>4, <1>5, <1>6 DEF LoopInv

LEMMA UnmapKeeps ==
  ASSUME LoopInv, NEW a \in Apps, Unmap(a) PROVE LoopInv'
<1> USE DEF Unmap, Goto, statics, user, history
<1>1. TypeOK'
  BY DEF LoopInv, TypeOK
<1>2. OneWindow'
  BY DEF LoopInv, TypeOK, OneWindow
<1>3. DetachCloses'
  BY DEF LoopInv, TypeOK, DetachCloses
<1>4. Locked'
  BY DEF LoopInv, TypeOK, Locked
<1>5. Closing'
  BY DEF LoopInv, TypeOK, Closing
<1>6. Unregistered' /\ OneBeyond' /\ WindowPlaces' /\ Notified' /\ Counted'
  BY DEF LoopInv, Unregistered, OneBeyond, WindowPlaces, Notified, Counted, Beyond
<1> QED BY <1>1, <1>2, <1>3, <1>4, <1>5, <1>6 DEF LoopInv

LEMMA LoadLibraryKeeps ==
  ASSUME LoopInv, LoadLibrary PROVE LoopInv'
<1> USE DEF LoadLibrary, user
<1>1. TypeOK'
  <2>1. loads' \in 1 .. MaxLoads
    BY Bounds DEF LoopInv, TypeOK
  <2>2. msgCount' \in 0 .. MaxChanges /\ sent' \in 0 .. MaxChanges
    BY Bounds
  <2> QED BY <2>1, <2>2 DEF LoopInv, TypeOK
<1>2. OneWindow'
  BY DEF LoopInv, TypeOK, OneWindow, WindowPlaces
<1>3. WindowPlaces'
  BY DEF LoopInv, TypeOK, WindowPlaces
<1>4. Notified'
  BY DEF LoopInv, TypeOK, Notified, WindowPlaces
<1>5. Counted'
  BY DEF LoopInv, TypeOK, Counted
<1>6. Unregistered' /\ DetachCloses' /\ OneBeyond' /\ Locked' /\ Closing'
  BY DEF LoopInv, Unregistered, DetachCloses, OneBeyond, Locked, Closing, Beyond
<1> QED BY <1>1, <1>2, <1>3, <1>4, <1>5, <1>6 DEF LoopInv

LEMMA ChangeKeeps ==
  ASSUME LoopInv, Change PROVE LoopInv'
<1> USE DEF Change, statics, dll
<1>1. TypeOK'
  <2>1. \/ windows # {} /\ \E e \in {"devnodes", "interface"} : inbox' = Append(inbox, e)
      \/ inbox' = inbox
    OBVIOUS
  <2>2. inbox' \in Seq(Messages) /\ (inbox' # <<>> => windows # {})
    BY <2>1, Sending DEF LoopInv, TypeOK, Messages
  <2>3. changes' \in 0 .. MaxChanges /\ sent' \in 0 .. MaxChanges
    BY Bounds DEF LoopInv, TypeOK, Counted
  <2> QED BY <2>2, <2>3 DEF LoopInv, TypeOK, Messages
<1>2. Closing'
  <2>1. (\E e \in {"devnodes", "interface"} : inbox' = Append(inbox, e)) \/ inbox' = inbox
    OBVIOUS
  <2>2. Contains(inbox', "close") <=> Contains(inbox, "close")
    BY <2>1, Sending DEF LoopInv, Messages
  <2> QED BY <2>2 DEF LoopInv, Closing
<1>3. Counted'
  <2>1. /\ (\E e \in {"devnodes", "interface"} : inbox' = Append(inbox, e)) \/ inbox' = inbox
        /\ sent' = sent + 1 \/ (inbox' = inbox /\ sent' = sent)
    OBVIOUS
  <2>2. Contains(inbox', "close") <=> Contains(inbox, "close")
    BY <2>1, Sending DEF LoopInv, Messages
  <2>3. Len(inbox') <= Len(inbox) + (sent' - sent) /\ Len(inbox') \in Nat /\ sent' \in {sent, sent + 1}
    BY <2>1 DEF LoopInv, TypeOK
  <2> QED BY <2>2, <2>3, Bounds DEF LoopInv, TypeOK, Counted
<1>4. OneWindow' /\ Unregistered' /\ DetachCloses' /\ OneBeyond' /\ WindowPlaces' /\ Notified' /\ Locked'
  BY DEF LoopInv, OneWindow, Unregistered, DetachCloses, OneBeyond, WindowPlaces, Notified, Locked, Beyond
<1> QED BY <1>1, <1>2, <1>3, <1>4 DEF LoopInv

LEMMA StutterKeeps ==
  ASSUME LoopInv, UNCHANGED vars PROVE LoopInv'
<1>1. TypeOK' /\ OneWindow' /\ Unregistered' /\ DetachCloses'
  BY DEF LoopInv, TypeOK, OneWindow, Unregistered, DetachCloses, vars, statics, user, dll, history
<1>2. OneBeyond' /\ WindowPlaces' /\ Notified'
  BY DEF LoopInv, OneBeyond, Beyond, WindowPlaces, Notified, vars, statics, user, dll, history
<1>3. Locked' /\ Closing' /\ Counted'
  BY DEF LoopInv, Locked, Closing, Counted, vars, statics, user, dll, history
<1> QED BY <1>1, <1>2, <1>3 DEF LoopInv

----------------------------------------------------------------------------
(* The theorems.                                                           *)

LEMMA InitHolds == Init => LoopInv
<1> SUFFICES ASSUME Init PROVE LoopInv
  OBVIOUS
<1>1. TypeOK
  <2>1. pc \in [Apps -> AppPlaces] /\ lpc \in [Loops -> LoopPlaces]
    BY DEF Init, AppPlaces, LoopPlaces
  <2>2. gen \in [Loops -> 0 .. MaxLoads] /\ loads \in 1 .. MaxLoads
    BY Bounds DEF Init
  <2>3. inbox \in Seq(Messages)
    BY DEF Init
  <2>4. msgCount \in 0 .. MaxChanges /\ sent \in 0 .. MaxChanges /\ changes \in 0 .. MaxChanges
    BY Bounds DEF Init
  <2>5. windows \subseteq Loops /\ registered \subseteq Loops /\ left \subseteq Loops
    BY DEF Init
  <2> QED BY <2>1, <2>2, <2>3, <2>4, <2>5, Bounds DEF Init, TypeOK, AppPlaces, LoopPlaces, Messages
<1>2. OneWindow /\ Unregistered /\ DetachCloses
  BY DEF Init, OneWindow, Unregistered, DetachCloses
<1>3. OneBeyond /\ WindowPlaces /\ Notified
  BY DEF Init, OneBeyond, Beyond, WindowPlaces, Notified
<1>4. Locked /\ Closing /\ Counted
  BY ContainsNothing DEF Init, Locked, Closing, Counted
<1> QED BY <1>1, <1>2, <1>3, <1>4 DEF LoopInv

LEMMA NextKeeps == LoopInv /\ [Next]_vars => LoopInv'
<1> SUFFICES ASSUME LoopInv, [Next]_vars PROVE LoopInv'
  OBVIOUS
<1>1. ASSUME NEW a \in Apps, InitCheck(a) \/ FreeLibrary(a) \/ AppStep(a) PROVE LoopInv'
  BY <1>1, InitCheckKeeps, InitSetKeeps, CreateOnceMsgLoopKeeps, CreateThreadKeeps,
     BuildDeviceListKeeps, FreeLibraryKeeps, DestroyMsgLoopKeeps, SendMessageReturnsKeeps,
     ClearWindowKeeps, UnmapKeeps DEF AppStep
<1>2. ASSUME NEW l \in Loops, LoopStep(l) PROVE LoopInv'
  <2>1. Crash(l) => LoopInv'
    BY OverKeeps DEF Crash
  <2> QED BY <1>2, <2>1, StartKeeps, RegisterWindowClassKeeps, CreateWindowExKeeps,
     StoreWindowKeeps, DeviceChangeKeeps, CloseUnregisterKeeps, CloseDestroyKeeps, QuitKeeps,
     EndKeeps DEF LoopStep
<1>3. ExitProcess => LoopInv'
  BY OverKeeps DEF ExitProcess
<1>4. LoadLibrary \/ Change \/ UNCHANGED vars => LoopInv'
  BY LoadLibraryKeeps, ChangeKeeps, StutterKeeps
<1> QED BY <1>1, <1>2, <1>3, <1>4 DEF Next

(* The inductive invariant of the message loop and of its unloading, with  *)
(* any number of threads.                                                  *)
THEOREM LoopInductive == Spec => []LoopInv
<1> QED BY InitHolds, NextKeeps, PTL DEF Spec

(* Windows belong to threads that made them, messages to windows, and the  *)
(* count stays below the number of changes.                                *)
THEOREM LoopTypeCorrect == Spec => []TypeOK
<1>1. LoopInv => TypeOK
  BY DEF LoopInv
<1> QED BY LoopInductive, <1>1, PTL

(* However many first calls race through CreateOnceMsgLoop and however     *)
(* many threads they start, there is one window, and g_hWnd names it.      *)
THEOREM AtMostOneWindow == Spec => []OneWindow
<1>1. LoopInv => OneWindow
  BY DEF LoopInv
<1> QED BY LoopInductive, <1>1, PTL

(* No notification outlives its window but one that Windows refused to     *)
(* take back: WM_CLOSE unregisters it first, and hDeviceNotify is the      *)
(* right handle, though every load has its own.                            *)
THEOREM NoneLeftRegistered == Spec => []Unregistered
<1>1. LoopInv => Unregistered
  BY DEF LoopInv
<1> QED BY LoopInductive, <1>1, PTL

(* DllMain goes on past its SendMessage only when the window it found is   *)
(* destroyed, whatever calls of Windows fail, and no notification is in    *)
(* force but those Windows refused to take back.                           *)
THEOREM ClosedBeforeUnmapping == Spec => []DetachCloses
<1>1. LoopInv => DetachCloses
  BY DEF LoopInv
<1> QED BY LoopInductive, <1>1, PTL

----------------------------------------------------------------------------
(* Two facts the liveness of the loop rests on: that DestroyMsgLoop never  *)
(* waits for a thread that cannot move, and that no change is lost.        *)

(* A thread that has a step to take towards the answer to WM_CLOSE, for    *)
(* which it needs its code and not the loader lock.                        *)
CanAnswer(l) ==
  /\ Runs(l)
  /\ \/ lpc[l] = "destroy"
     \/ lpc[l] = "pump" /\ l \in windows /\ inbox # <<>>

(* Whoever waits for the answer has it or somebody is about to give it.    *)
Served == \A a \in Apps : pc[a] = "sent" => Answered \/ \E l \in Loops : CanAnswer(l)

(* The window DestroyMsgLoop found belongs to a thread of this load that   *)
(* dispatches messages, and the code stays while it waits.                 *)
Serving ==
  /\ \A a \in Apps : pc[a] \in {"detach", "sent", "clear", "unmap"} => mapped
  /\ hWnd \in windows => gen[hWnd] = loads /\ lpc[hWnd] \in {"pump", "destroy"}
  /\ \A a \in Apps : pc[a] = "sent" => Answered \/ hWnd \in windows
  /\ ~class \/ (\E l \in Loops : lpc[l] = "create") => hWnd = Null

(* Changes sent to the window and not counted.                             *)
Waiting == Len(inbox) - (IF Contains(inbox, "close") THEN 1 ELSE 0)

(* Every change the window of this load was sent is counted once or waits. *)
NoneUncounted == \A l \in windows : gen[l] = loads => sent = msgCount + Waiting

(* One WM_CLOSE at most; and until the one window is made there is nothing *)
(* to count.                                                               *)
Accounting ==
  /\ NoneUncounted
  /\ \A i, j \in 1 .. Len(inbox) : inbox[i] = "close" /\ inbox[j] = "close" => i = j
  /\ ~class \/ (\E l \in Loops : lpc[l] = "create") =>
       sent = 0 /\ msgCount = 0 /\ inbox = <<>> /\ windows = {}

LEMMA ServingServes ==
  ASSUME LoopInv, Serving PROVE Served
<1> SUFFICES ASSUME NEW a \in Apps, pc[a] = "sent", ~Answered
             PROVE  \E l \in Loops : CanAnswer(l)
  BY DEF Served
<1>1. hWnd \in Loops /\ hWnd \in windows /\ Runs(hWnd) /\ lpc[hWnd] \in {"pump", "destroy"}
  BY DEF Serving, Runs, LoopInv, TypeOK
<1>2. CASE Contains(inbox, "close")
  BY <1>1, <1>2, ContainsNothing DEF CanAnswer
<1>3. CASE \E m \in Loops : lpc[m] = "destroy"
  BY <1>1, <1>3 DEF CanAnswer, LoopInv, OneBeyond, Beyond
<1> QED BY <1>2, <1>3 DEF Answered

(* Threads of the program that are in no part of the unloading.            *)
LEMMA AppServes ==
  ASSUME LoopInv, Serving, NEW a \in Apps,
         InitCheck(a) \/ InitSet(a) \/ CreateOnceMsgLoop(a) \/ BuildDeviceList(a)
           \/ CreateThread(a) \/ FreeLibrary(a)
  PROVE  Serving'
<1> USE DEF user, dll, statics, history, Goto
<1>1. CASE InitCheck(a) \/ InitSet(a) \/ CreateOnceMsgLoop(a) \/ BuildDeviceList(a)
  BY <1>1 DEF InitCheck, InitSet, CreateOnceMsgLoop, BuildDeviceList, Serving, LoopInv, TypeOK, Answered
<1>2. CASE CreateThread(a)
  <2>1. hWnd \in windows => lpc[hWnd] \in {"pump", "destroy"} /\ hWnd \in Loops
    BY DEF Serving, LoopInv, TypeOK
  <2>2. /\ UNCHANGED <<hWnd, windows, inbox, mapped, loads, class>>
        /\ \A l \in Loops : lpc[l] \in {"pump", "destroy"} => lpc'[l] = lpc[l] /\ gen'[l] = gen[l]
        /\ \A l \in Loops : lpc'[l] \in {"destroy", "create"} => lpc'[l] = lpc[l]
        /\ \A b \in Apps : pc'[b] \in {"detach", "sent", "clear", "unmap"} => pc[b] = pc'[b]
    BY <1>2 DEF CreateThread, Happens, Fails, LoopInv, TypeOK
  <2> QED BY <2>1, <2>2 DEF Serving, Answered
<1>3. CASE FreeLibrary(a)
  BY <1>3 DEF FreeLibrary, Serving, LoopInv, TypeOK, Answered
<1> QED BY <1>1, <1>2, <1>3

LEMMA DetachServes ==
  ASSUME LoopInv, Serving, NEW a \in Apps,
         DestroyMsgLoop(a) \/ SendMessageReturns(a) \/ ClearWindow(a) \/ Unmap(a)
  PROVE  Serving'
<1> USE DEF user, dll, statics, history, Goto
<1>1. \A b \in Apps : pc[b] \in {"detach", "sent", "clear", "unmap"} => loader = b
  BY DEF LoopInv, Locked
<1>2. CASE DestroyMsgLoop(a)
  BY <1>1, <1>2 DEF DestroyMsgLoop, Serving, LoopInv, TypeOK, Answered
<1>3. CASE SendMessageReturns(a)
  BY <1>3 DEF SendMessageReturns, Serving, LoopInv, TypeOK, Answered
<1>4. CASE ClearWindow(a)
  BY <1>1, <1>4, Bounds DEF ClearWindow, Serving, LoopInv, TypeOK, Answered
<1>5. CASE Unmap(a)
  BY <1>1, <1>5 DEF Unmap, Serving, LoopInv, TypeOK, Answered
<1> QED BY <1>2, <1>3, <1>4, <1>5

LEMMA LoopServes ==
  ASSUME LoopInv, Serving, NEW l \in Loops, LoopStep(l), ~Crash(l)
  PROVE  Serving'
<1> USE DEF user, dll, statics, history, LGoto
<1>1. CASE Start(l) \/ RegisterWindowClass(l)
  BY <1>1 DEF Start, RegisterWindowClass, Happens, Fails, Serving, LoopInv, TypeOK, Answered
<1>2. CASE CreateWindowEx(l)
  <2>1. hWnd \notin windows'
    BY <1>2, Bounds DEF CreateWindowEx, Serving, LoopInv, TypeOK
  <2>2. \A a \in Apps : pc'[a] # "sent"
    BY <1>2 DEF CreateWindowEx, LoopInv, Closing
  <2> QED BY <1>2, <2>1, <2>2 DEF CreateWindowEx, Happens, Fails, Serving, LoopInv, TypeOK
<1>3. CASE StoreWindow(l)
  BY <1>3, Bounds DEF StoreWindow, Runs, Serving, LoopInv, TypeOK, Answered, OneBeyond, Beyond
<1>4. CASE DeviceChange(l)
  <2>1. Contains(inbox', "close") => Contains(inbox, "close")
    BY <1>4, ContainsTail DEF DeviceChange, Pumps, LoopInv, TypeOK
  <2> QED BY <1>4, <2>1 DEF DeviceChange, Serving, Answered
<1>5. CASE CloseUnregister(l)
  <2>1. Contains(inbox', "close") => Contains(inbox, "close")
    BY <1>5, ContainsTail DEF CloseUnregister, Pumps, LoopInv, TypeOK
  <2>2. Contains(inbox, "close")
    <3>1. inbox \in Seq(Messages) /\ inbox # <<>> /\ inbox[1] = "close"
      BY <1>5 DEF CloseUnregister, Pumps, LoopInv, TypeOK, Messages
    <3>2. 1 \in 1 .. Len(inbox)
      BY <3>1
    <3> QED BY <3>1, <3>2 DEF Contains
  <2> QED BY <1>5, <2>1, <2>2 DEF CloseUnregister, Pumps, Serving, Answered, LoopInv, TypeOK
<1>6. CASE CloseDestroy(l)
  <2>1. \A m \in Loops : lpc'[m] # "destroy"
    BY <1>6 DEF CloseDestroy, AfterDestroy, LoopInv, TypeOK, OneBeyond, Beyond
  <2>2. Answered'
    BY <1>6, <2>1, ContainsNothing DEF CloseDestroy, Answered
  <2> QED BY <1>6, <2>2 DEF CloseDestroy, AfterDestroy, Serving, LoopInv, TypeOK
<1>7. CASE Quit(l) \/ End(l)
  BY <1>7 DEF Quit, End, Serving, LoopInv, TypeOK, Answered
<1> QED BY <1>1, <1>2, <1>3, <1>4, <1>5, <1>6, <1>7 DEF LoopStep

LEMMA OverServes ==
  ASSUME NEW how, Over(how) PROVE Serving'
BY DEF Over, Serving

LEMMA WindowsServe ==
  ASSUME LoopInv, Serving, LoadLibrary \/ Change \/ UNCHANGED vars PROVE Serving'
<1> USE DEF user, dll, statics, history
<1>1. CASE LoadLibrary
  BY <1>1, Bounds DEF LoadLibrary, Serving, LoopInv, TypeOK, Answered
<1>2. CASE Change
  <2>1. Contains(inbox', "close") <=> Contains(inbox, "close")
    BY <1>2, Sending DEF Change, LoopInv, Messages
  <2> QED BY <1>2, <2>1 DEF Change, Serving, Answered
<1>3. CASE UNCHANGED vars
  BY <1>3 DEF vars, Serving, Answered
<1> QED BY <1>1, <1>2, <1>3

(* DllMain, which holds the loader lock while it waits for its             *)
(* SendMessage, never waits for a thread that waits for the lock, that     *)
(* ended or whose code is gone: there is no deadlock to be had, and what   *)
(* DetachReturns needs beyond this is a scheduler.                         *)
THEOREM NeverWaitsInVain == Spec => []Served
<1>1. Init => Serving
  BY Bounds DEF Init, Serving
<1>2. LoopInv /\ Serving /\ [Next]_vars => Serving'
  BY AppServes, DetachServes, LoopServes, OverServes, WindowsServe
     DEF Next, AppStep, LoopStep, Crash, ExitProcess
<1>3. LoopInv /\ Serving => Served
  BY ServingServes
<1> QED BY LoopInductive, <1>1, <1>2, <1>3, PTL DEF Spec

(* What may follow of the messages that wait, but for WM_CLOSE.            *)
OneClose(s) == \A i, j \in 1 .. Len(s) : s[i] = "close" /\ s[j] = "close" => i = j
Changing(s) == Len(s) - (IF Contains(s, "close") THEN 1 ELSE 0)

LEMMA ChangingInt ==
  ASSUME NEW s \in Seq(Messages) PROVE Changing(s) \in Int
<1>1. Len(s) \in Int
  OBVIOUS
<1> QED BY <1>1 DEF Changing

LEMMA ChangingAppend ==
  ASSUME NEW s \in Seq(Messages), OneClose(s), NEW e \in Messages,
         e = "close" => ~Contains(s, "close")
  PROVE  /\ OneClose(Append(s, e))
         /\ Changing(Append(s, e)) = Changing(s) + (IF e = "close" THEN 0 ELSE 1)
<1>1. Contains(Append(s, e), "close") <=> Contains(s, "close") \/ e = "close"
  BY ContainsAppend
<1>2. Len(Append(s, e)) = Len(s) + 1 /\ Len(s) \in Nat
  OBVIOUS
<1>3. OneClose(Append(s, e))
  BY <1>2 DEF OneClose, Contains
<1>4. CASE e = "close"
  <2>1. Contains(Append(s, e), "close") /\ ~Contains(s, "close")
    BY <1>1, <1>4
  <2> QED BY <1>2, <1>3, <1>4, <2>1 DEF Changing
<1>5. CASE e # "close"
  <2>1. CASE Contains(s, "close")
    BY <1>1, <1>2, <1>3, <1>5, <2>1 DEF Changing
  <2>2. CASE ~Contains(s, "close")
    BY <1>1, <1>2, <1>3, <1>5, <2>2 DEF Changing
  <2> QED BY <2>1, <2>2
<1> QED BY <1>4, <1>5

LEMMA ChangingTail ==
  ASSUME NEW s \in Seq(Messages), OneClose(s), s # <<>>
  PROVE  /\ OneClose(Tail(s))
         /\ Changing(Tail(s)) = Changing(s) - (IF Head(s) = "close" THEN 0 ELSE 1)
<1>1. /\ Len(s) \in Nat \ {0} /\ Len(Tail(s)) = Len(s) - 1 /\ Head(s) = s[1]
      /\ \A i \in 1 .. Len(s) - 1 : Tail(s)[i] = s[i + 1]
  OBVIOUS
<1>2. OneClose(Tail(s))
  <2> SUFFICES ASSUME NEW i \in 1 .. Len(s) - 1, NEW j \in 1 .. Len(s) - 1,
                      s[i + 1] = "close", s[j + 1] = "close"
               PROVE  i = j
    BY <1>1 DEF OneClose
  <2>1. i + 1 \in 1 .. Len(s) /\ j + 1 \in 1 .. Len(s)
    BY <1>1
  <2>2. i + 1 = j + 1
    BY <2>1 DEF OneClose
  <2> QED BY <1>1, <2>2
<1>3. CASE Head(s) = "close"
  <2>1. Contains(s, "close")
    <3>1. 1 \in 1 .. Len(s)
      BY <1>1
    <3> QED BY <1>1, <1>3, <3>1 DEF Contains
  <2>2. ~Contains(Tail(s), "close")
    <3> SUFFICES ASSUME NEW i \in 1 .. Len(s) - 1, s[i + 1] = "close" PROVE FALSE
      BY <1>1 DEF Contains
    <3>1. i + 1 \in 1 .. Len(s) /\ 1 \in 1 .. Len(s) /\ i + 1 # 1
      BY <1>1
    <3> QED BY <1>1, <1>3, <3>1 DEF OneClose
  <2> QED BY <1>1, <1>2, <1>3, <2>1, <2>2 DEF Changing
<1>4. CASE Head(s) # "close"
  BY <1>1, <1>2, <1>4, ContainsTail DEF Changing
<1> QED BY <1>3, <1>4

LEMMA AccountingIs ==
  Accounting <=> /\ \A l \in windows : gen[l] = loads => sent = msgCount + Changing(inbox)
                 /\ OneClose(inbox)
                 /\ ~class \/ (\E l \in Loops : lpc[l] = "create") =>
                      sent = 0 /\ msgCount = 0 /\ inbox = <<>> /\ windows = {}
BY DEF Accounting, NoneUncounted, Waiting, Changing, OneClose

(* A step that neither sends nor counts, after which no window is new.     *)
LEMMA Unaccounted ==
  ASSUME LoopInv, Accounting, UNCHANGED <<msgCount, inbox, sent, loads>>, windows' \subseteq windows,
         \A l \in windows : gen'[l] = gen[l],
         class => class', \A l \in Loops : lpc'[l] = "create" => lpc[l] = "create" \/ ~class
  PROVE  Accounting'
<1> DEFINE First == ~class \/ (\E l \in Loops : lpc[l] = "create")
<1>1. Waiting' = Waiting
  BY DEF Waiting
<1>2. NoneUncounted'
  BY <1>1 DEF Accounting, NoneUncounted
<1>3. First' => First
  OBVIOUS
<1>4. First => sent = 0 /\ msgCount = 0 /\ inbox = <<>> /\ windows = {}
  BY DEF Accounting
<1>5. First' => sent' = 0 /\ msgCount' = 0 /\ inbox' = <<>> /\ windows' = {}
  BY <1>3, <1>4
<1>6. \A i, j \in 1 .. Len(inbox') : inbox'[i] = "close" /\ inbox'[j] = "close" => i = j
  BY DEF Accounting
<1> QED BY <1>2, <1>5, <1>6 DEF Accounting

LEMMA AppAccounts ==
  ASSUME LoopInv, Accounting, NEW a \in Apps,
         InitCheck(a) \/ FreeLibrary(a) \/ (AppStep(a) /\ ~DestroyMsgLoop(a))
  PROVE  Accounting'
<1> USE DEF user, dll, statics, history, Goto
<1>1. /\ UNCHANGED <<msgCount, inbox, sent, loads, windows, class>>
      /\ \A l \in Loops : lpc'[l] = "create" => lpc[l] = "create"
      /\ \A l \in Loops : lpc[l] \notin {"none", "ended"} => gen'[l] = gen[l]
  <2>1. CASE CreateThread(a)
    BY <2>1 DEF CreateThread, Happens, Fails, LoopInv, TypeOK
  <2>2. CASE ~CreateThread(a)
    BY <2>2 DEF AppStep, InitCheck, FreeLibrary, InitSet, CreateOnceMsgLoop, BuildDeviceList,
                SendMessageReturns, ClearWindow, Unmap
  <2> QED BY <2>1, <2>2
<1>2. \A l \in windows : l \in Loops /\ lpc[l] \notin {"none", "ended"}
  BY DEF LoopInv, TypeOK, WindowPlaces
<1> QED BY <1>1, <1>2, Unaccounted

LEMMA DestroyAccounts ==
  ASSUME LoopInv, Accounting, NEW a \in Apps, DestroyMsgLoop(a)
  PROVE  Accounting'
<1> USE DEF DestroyMsgLoop, user, dll, statics, history, Goto
<1>1. CASE hWnd \in windows
  <2>1. ~Contains(inbox, "close")
    <3>1. \A b \in Apps : pc[b] # "sent"
      BY DEF LoopInv, Locked
    <3> QED BY <3>1 DEF LoopInv, Closing
  <2>2. inbox \in Seq(Messages) /\ "close" \in Messages /\ OneClose(inbox)
    BY AccountingIs DEF LoopInv, TypeOK, Messages
  <2>3. OneClose(inbox') /\ Changing(inbox') = Changing(inbox)
    <3>1. Changing(inbox) \in Int
      BY <2>2, ChangingInt
    <3>2. inbox' = Append(inbox, "close")
      BY <1>1
    <3>3. Changing(Append(inbox, "close")) = Changing(inbox) + 0 /\ OneClose(Append(inbox, "close"))
      BY <2>1, <2>2, ChangingAppend
    <3> HIDE DEF DestroyMsgLoop
    <3> QED BY <3>1, <3>2, <3>3
  <2>4. UNCHANGED <<windows, gen, loads, sent, msgCount, class, lpc>>
    BY <1>1
  <2> QED BY <1>1, <2>2, <2>3, <2>4, AccountingIs DEF Accounting, NoneUncounted, Waiting, Changing, OneClose
<1>2. CASE hWnd \notin windows
  BY <1>2, Unaccounted DEF LoopInv, TypeOK
<1> QED BY <1>1, <1>2

LEMMA LoopAccounts ==
  ASSUME LoopInv, Accounting, NEW l \in Loops, LoopStep(l), ~Crash(l)
  PROVE  Accounting'
<1> USE DEF user, dll, statics, history, LGoto
<1>1. CASE Start(l) \/ RegisterWindowClass(l) \/ StoreWindow(l) \/ Quit(l)
  BY <1>1, Unaccounted
     DEF Start, RegisterWindowClass, StoreWindow, Quit, Happens, Fails, LoopInv, TypeOK
<1>2. CASE CreateWindowEx(l)
  <2>1. sent = 0 /\ msgCount = 0 /\ inbox = <<>>
    BY <1>2 DEF CreateWindowEx, Accounting
  <2>2. \A m \in Loops : lpc'[m] # "create"
    BY <1>2 DEF CreateWindowEx, LoopInv, TypeOK, OneBeyond, Beyond
  <2>3. class' = TRUE
    BY <1>2 DEF CreateWindowEx, LoopInv, TypeOK, OneBeyond, Beyond
  <2>4. UNCHANGED <<sent, msgCount, inbox>>
    BY <1>2 DEF CreateWindowEx, Happens, Fails
  <2>5. Len(<<>>) = 0 /\ ~Contains(<<>>, "close")
    BY ContainsNothing
  <2> QED BY <2>1, <2>2, <2>3, <2>4, <2>5 DEF Accounting, NoneUncounted, Waiting
<1>3. CASE DeviceChange(l) \/ CloseUnregister(l)
  <2>1. /\ inbox \in Seq(Messages) /\ inbox # <<>> /\ OneClose(inbox) /\ inbox' = Tail(inbox)
        /\ msgCount \in Nat /\ sent \in Nat
    BY <1>3, AccountingIs DEF DeviceChange, CloseUnregister, Pumps, LoopInv, TypeOK, Messages
  <2>2. /\ OneClose(inbox')
        /\ Changing(inbox') = Changing(inbox) - (IF Head(inbox) = "close" THEN 0 ELSE 1)
        /\ Changing(inbox) \in Int
    BY <2>1, ChangingTail, ChangingInt
  <2>3. msgCount' + Changing(inbox') = msgCount + Changing(inbox)
    BY <1>3, <2>1, <2>2 DEF DeviceChange, CloseUnregister, Pumps, Count
  <2>4. UNCHANGED <<windows, gen, loads, sent, class>> /\ windows # {}
        /\ \A m \in Loops : lpc'[m] = "create" => lpc[m] = "create"
    BY <1>3 DEF DeviceChange, CloseUnregister, Happens, Pumps, LoopInv, TypeOK
  <2> HIDE DEF statics, user, dll, history, LGoto
  <2> QED BY <2>1, <2>2, <2>3, <2>4, AccountingIs DEF Accounting, NoneUncounted, Waiting, Changing, OneClose
<1>4. CASE CloseDestroy(l)
  <2>1. windows' = {} /\ inbox' = <<>> /\ Len(<<>>) = 0
    BY <1>4 DEF CloseDestroy, LoopInv, TypeOK, OneBeyond, Beyond, WindowPlaces
  <2>2. class' /\ \A m \in Loops : lpc'[m] # "create"
    BY <1>4 DEF CloseDestroy, AfterDestroy, LoopInv, TypeOK, OneBeyond, Beyond
  <2> QED BY <2>1, <2>2 DEF Accounting, NoneUncounted
<1>5. CASE End(l)
  <2>1. \A m \in windows : m \in Loops /\ m # l
    BY <1>5 DEF End, LoopInv, TypeOK, WindowPlaces
  <2> QED BY <1>5, <2>1, Unaccounted DEF End, LoopInv, TypeOK
<1> QED BY <1>1, <1>2, <1>3, <1>4, <1>5 DEF LoopStep

LEMMA WindowsAccount ==
  ASSUME LoopInv, Accounting, LoadLibrary \/ Change \/ UNCHANGED vars PROVE Accounting'
<1> USE DEF user, dll, statics, history
<1>1. CASE LoadLibrary
  <2>1. \A l \in windows : gen'[l] # loads'
    BY <1>1 DEF LoadLibrary, LoopInv, TypeOK, WindowPlaces
  <2> QED BY <1>1, <2>1 DEF LoadLibrary, Accounting, NoneUncounted
<1>2. CASE Change
  <2>1. CASE windows = {}
    BY <1>2, <2>1 DEF Change, Accounting, NoneUncounted
  <2>2. CASE windows # {}
    <3>1. PICK e \in {"devnodes", "interface"} : inbox' = Append(inbox, e) /\ sent' = sent + 1
      BY <1>2, <2>2 DEF Change
    <3>2. inbox \in Seq(Messages) /\ e \in Messages /\ OneClose(inbox) /\ e # "close"
      BY AccountingIs DEF LoopInv, TypeOK, Messages
    <3>3. OneClose(inbox') /\ Changing(inbox') = Changing(inbox) + 1 /\ Changing(inbox) \in Int
      BY <3>1, <3>2, ChangingAppend, ChangingInt
    <3>4. UNCHANGED <<windows, gen, loads, msgCount, class, lpc>> /\ msgCount \in Nat /\ sent \in Nat
      BY <1>2, <2>2 DEF Change, LoopInv, TypeOK
    <3> HIDE DEF statics, user, dll, history
    <3> QED BY <2>2, <3>1, <3>3, <3>4, AccountingIs DEF Accounting, NoneUncounted, Waiting, Changing, OneClose
  <2> QED BY <2>1, <2>2
<1>3. CASE UNCHANGED vars
  BY <1>3, Unaccounted DEF vars, LoopInv, TypeOK
<1> QED BY <1>1, <1>2, <1>3

LEMMA OverAccounts ==
  ASSUME NEW how, Over(how) PROVE Accounting'
BY DEF Over, Accounting, NoneUncounted

(* Every change Windows sent to the window is counted exactly once or      *)
(* still waits to be, whichever of the two messages told of it and however *)
(* changes, WM_CLOSE and reloads of the DLL interleave.                    *)
THEOREM NoChangeLost == Spec => []NoneUncounted
<1>1. Init => Accounting
  BY DEF Init, Accounting, NoneUncounted
<1>2. LoopInv /\ Accounting /\ [Next]_vars => Accounting'
  BY AppAccounts, DestroyAccounts, LoopAccounts, OverAccounts, WindowsAccount
     DEF Next, AppStep, LoopStep, Crash, ExitProcess
<1>3. Accounting => NoneUncounted
  BY DEF Accounting
<1> QED BY LoopInductive, <1>1, <1>2, <1>3, PTL DEF Spec
=============================================================================

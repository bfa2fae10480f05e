------------------------- MODULE DevBlkHandles_proofs -------------------------
(* Proofs about DevBlkHandles: who owns which object and which OS handle,  *)
(* for any number of threads, drives, objects and handles, whichever calls *)
(* fail and whatever the threads do to the lists; and how the lists are    *)
(* linked where each has one thread that changes it, and no other uses the *)
(* lists it closes from.                                                   *)
EXTENDS MCDevBlkHandles, NatRecursion, FiniteSetTheorems, SequenceTheorems, TLAPS

Linking == {"linkPrev", "linkHead"}
Unlinking == {"unlinkPrev", "unlinkNext", "free"}

(* A thread that opens has an OS handle; one that inserts or closes an     *)
(* object has it to itself.                                                *)
HasHandle(t) == pc[t] \in {"move", "calloc"} \cup Linking
HasObject(t) == pc[t] \in Linking \/ op[t] = "close"

(* Where a thread is tells which call it is in.                            *)
Shape(t) ==
  /\ HasHandle(t) \/ pc[t] \in {"idle", "undefined"} => op[t] = "open"
  /\ pc[t] = "walk" => op[t] # "open"
  /\ pc[t] \in Unlinking => op[t] = "close"

Places == \A t \in Threads :
  /\ Shape(t)
  /\ HasHandle(t) => hnd[t] \in osOpen \ leaked /\ dev[t] \in Drives
  /\ HasObject(t) => obj[t] \in live \ held
  /\ pc[t] \in Linking => handle[obj[t]] = hnd[t]

Objects == \A o \in live : drive[o] \in Drives /\ handle[o] \in OSHandles

(* No two owners have the same thing.                                      *)
Owners ==
  /\ \A t, u \in Threads : t # u /\ HasObject(t) /\ HasObject(u) => obj[t] # obj[u]
  /\ \A t, u \in Threads : t # u /\ HasHandle(t) /\ HasHandle(u) => hnd[t] # hnd[u]
  /\ \A o \in held : handle[o] \in osOpen \ leaked
  /\ \A o \in held, t \in Threads : HasHandle(t) => hnd[t] # handle[o]
  /\ \A o, p \in held : handle[o] = handle[p] => o = p

(* Everything has an owner, until a thread is lost.                        *)
Owned ==
  /\ \A o \in live : o \in held \/ \E t \in Threads : HasObject(t) /\ obj[t] = o
  /\ \A h \in osOpen :
       \/ h \in leaked
       \/ \E o \in held : handle[o] = h
       \/ \E t \in Threads : HasHandle(t) /\ hnd[t] = h

Lost == \E t \in Threads : pc[t] = "undefined"

Ownership == Places /\ Objects /\ Owners /\ (Lost \/ Owned)

(* The inductive invariant.                                                *)
HandlesInv == TypeOK /\ Ownership

----------------------------------------------------------------------------
LEMMA Names ==
  Null \notin Node /\ Null \notin OSHandles /\ Drives \subseteq Nat /\ Drives # {}
    /\ Objs \cap Drives = {}
BY HandlesAssumption DEF HandlesAssumption

(* A set of device numbers has a first one.                                *)
LEMMA MinIn ==
  ASSUME NEW S \in SUBSET Nat, S # {}
  PROVE  Min(S) \in S /\ \A e \in S : Min(S) <= e
<1>1. \E x \in S : \A y \in S : x <= y
  BY LeastNumber
<1> QED BY <1>1 DEF Min

LEMMA FirstDrives ==
  /\ Min(Drives) \in Drives
  /\ \A d : After(d) # {} => Min(After(d)) \in Drives
<1>1. Min(Drives) \in Drives
  BY MinIn, Names
<1>2. ASSUME NEW d, After(d) # {} PROVE Min(After(d)) \in Drives
  <2>1. After(d) \subseteq Drives
    BY DEF After
  <2>2. Min(After(d)) \in After(d)
    BY <1>2, <2>1, MinIn, Names
  <2> QED BY <2>1, <2>2
<1> QED BY <1>1, <1>2

----------------------------------------------------------------------------
(* A step of t that allocates, frees, opens and closes nothing, and gives  *)
(* up what it has only where it is lost.                                   *)
Others(t) == \A u \in Threads : u # t =>
  pc'[u] = pc[u] /\ op'[u] = op[u] /\ obj'[u] = obj[u] /\ hnd'[u] = hnd[u] /\ dev'[u] = dev[u]

LEMMA LocalKeeps ==
  ASSUME Ownership, NEW t \in Threads, UNCHANGED <<heap, osOpen, held, leaked>>, Others(t),
         pc[t] # "undefined", Shape(t)',
         HasHandle(t)' => HasHandle(t) /\ hnd'[t] = hnd[t] /\ dev'[t] = dev[t],
         HasObject(t)' => HasObject(t) /\ obj'[t] = obj[t],
         pc'[t] \in Linking => pc[t] \in Linking,
         pc'[t] = "undefined" \/ ((HasHandle(t) => HasHandle(t)') /\ (HasObject(t) => HasObject(t)'))
  PROVE  Ownership'
<1>0. \A u \in Threads : /\ HasHandle(u)' => HasHandle(u) /\ hnd'[u] = hnd[u] /\ dev'[u] = dev[u]
                         /\ HasObject(u)' => HasObject(u) /\ obj'[u] = obj[u]
                         /\ pc'[u] \in Linking => pc[u] \in Linking
                         /\ Shape(u)'
  BY DEF Others, HasHandle, HasObject, Shape, Ownership, Places
<1>1. Places'
  <2>1. \A u \in Threads : pc'[u] \in Linking => HasHandle(u)' /\ HasObject(u)'
    BY DEF HasHandle, HasObject
  <2> QED BY <1>0, <2>1 DEF Ownership, Places, heap
<1>2. Objects'
  BY DEF Ownership, Objects, heap
<1>3. Owners'
  BY <1>0 DEF Ownership, Owners, heap
<1>4. Lost' \/ Owned'
  <2>1. CASE Lost
    BY <2>1 DEF Lost, Others
  <2>2. CASE pc'[t] = "undefined"
    BY <2>2 DEF Lost
  <2>3. CASE ~Lost /\ pc'[t] # "undefined"
    <3>1. \A u \in Threads : (HasHandle(u) => HasHandle(u)' /\ hnd'[u] = hnd[u])
                             /\ (HasObject(u) => HasObject(u)' /\ obj'[u] = obj[u])
      BY <1>0, <2>3 DEF Others, HasHandle, HasObject
    <3> QED BY <2>3, <3>1 DEF Ownership, Owned, heap
  <2> QED BY <2>1, <2>2, <2>3
<1> QED BY <1>1, <1>2, <1>3, <1>4 DEF Ownership

(* A call that ends where it had nothing of its own, or is lost.           *)
LEMMA ReturnKeeps ==
  ASSUME HandlesInv, NEW t \in Threads, NEW v, Return(t, v), ~HasHandle(t), ~HasObject(t),
         pc[t] # "undefined", UNCHANGED <<heap, osOpen, held, leaked>>
  PROVE  Ownership'
<1>1. /\ Others(t) /\ pc'[t] = "idle" /\ op'[t] = "open"
  BY DEF Return, Forget, Goto, Others, HandlesInv, TypeOK
<1> QED BY <1>1, LocalKeeps DEF HandlesInv, HasHandle, HasObject, Linking, Unlinking, Shape

LEMMA LostKeeps ==
  ASSUME HandlesInv, NEW t \in Threads, Undescribed(t), pc[t] # "undefined",
         UNCHANGED <<heap, osOpen, held, leaked>>
  PROVE  Ownership'
<1>1. /\ Others(t) /\ pc'[t] = "undefined" /\ op'[t] = "open"
  BY DEF Undescribed, Forget, Goto, Others, HandlesInv, TypeOK
<1> QED BY <1>1, LocalKeeps DEF HandlesInv, HasHandle, HasObject, Linking, Unlinking, Shape

(* The types after a call has ended or is lost.                            *)
LEMMA ForgetTypes ==
  ASSUME TypeOK, NEW t \in Threads, Forget(t)
  PROVE  /\ op' \in [Threads -> Ops]
         /\ obj' \in [Threads -> Objs \cup {Null}]
         /\ hnd' \in [Threads -> OSHandles \cup {Null}]
         /\ dev' \in [Threads -> Drives \cup {Null}]
         /\ entry' \in [Threads -> Node \cup {Null}]
         /\ next' \in [Threads -> Node \cup {Null}] /\ prev' \in [Threads -> Node \cup {Null}]
BY DEF TypeOK, Forget, Ops

LEMMA GotoTypes ==
  ASSUME TypeOK, NEW t \in Threads, NEW l \in Labels, Goto(t, l)
  PROVE  pc' \in [Threads -> Labels]
BY DEF TypeOK, Goto

LEMMA ReturnTypes ==
  ASSUME TypeOK, NEW t \in Threads, NEW v, Return(t, v), UNCHANGED <<heap, links, osOpen, held, leaked>>
  PROVE  TypeOK'
<1>1. pc' \in [Threads -> Labels]
  BY GotoTypes DEF Return, Labels
<1> QED BY <1>1, ForgetTypes DEF Return, TypeOK, heap, links

LEMMA LostTypes ==
  ASSUME TypeOK, NEW t \in Threads, Undescribed(t), UNCHANGED <<heap, links, osOpen, held, leaked>>
  PROVE  TypeOK'
<1>1. pc' \in [Threads -> Labels]
  BY GotoTypes DEF Undescribed, Labels
<1> QED BY <1>1, ForgetTypes DEF Undescribed, TypeOK, heap, links

----------------------------------------------------------------------------
(* The calls and steps that take or give up something.                     *)
LEMMA CreateFileKeeps ==
  ASSUME HandlesInv, NEW t \in Threads, NEW d \in Drives, CreateFile(t, d)
  PROVE  HandlesInv'
<1>0. TypeOK /\ pc[t] = "idle" /\ ~HasHandle(t) /\ ~HasObject(t)
  BY DEF HandlesInv, CreateFile, Ownership, Places, Shape, HasHandle, HasObject, Linking
<1>1. CASE "CreateFile" \in Faults /\ Return(t, Null) /\ UNCHANGED osOpen
  BY <1>0, <1>1, ReturnKeeps, ReturnTypes DEF HandlesInv, CreateFile
<1>2. ASSUME NEW h \in OSHandles \ osOpen,
             osOpen' = osOpen \cup {h}, hnd' = [hnd EXCEPT ![t] = h],
             dev' = [dev EXCEPT ![t] = d], Goto(t, "move"),
             UNCHANGED <<op, obj, entry, next, prev, ret>>
      PROVE  HandlesInv'
  <2>0. UNCHANGED <<heap, links, held, leaked>>
    BY DEF CreateFile
  <2>1. TypeOK'
    BY <1>0, <1>2, <2>0 DEF TypeOK, Goto, Labels, heap, links
  <2>2. /\ \A u \in Threads : u # t => pc'[u] = pc[u] /\ hnd'[u] = hnd[u] /\ dev'[u] = dev[u]
        /\ pc'[t] = "move" /\ hnd'[t] = h /\ dev'[t] = d /\ op[t] = "open"
        /\ leaked \subseteq osOpen
    BY <1>0, <1>2 DEF TypeOK, Goto, HandlesInv, Ownership, Places, Shape
  <2>3. \A u \in Threads : /\ u # t => (HasHandle(u)' <=> HasHandle(u)) /\ (Shape(u)' <=> Shape(u))
                           /\ HasObject(u)' <=> HasObject(u)
                           /\ pc'[u] \in Linking => u # t /\ pc[u] \in Linking
    BY <1>0, <1>2, <2>2 DEF HasHandle, HasObject, Shape, Linking
  <2>4. HasHandle(t)' /\ Shape(t)'
    BY <1>2, <2>2 DEF HasHandle, Shape, Unlinking
  <2>5. Places'
    BY <1>2, <2>0, <2>2, <2>3, <2>4 DEF HandlesInv, Ownership, Places, heap
  <2>6. Objects'
    BY <2>0 DEF HandlesInv, Ownership, Objects, heap
  <2>7. Owners'
    BY <1>2, <2>0, <2>2, <2>3 DEF HandlesInv, Ownership, Places, Owners, heap
  <2>8. Lost' \/ Owned'
    <3>1. Lost => Lost'
      BY <1>0, <2>2 DEF Lost
    <3>2. ASSUME Owned PROVE Owned'
      <4>1. \A g \in osOpen' : g = h \/ g \in osOpen
        BY <1>2
      <4>2. \A u \in Threads : HasHandle(u) => u # t /\ HasHandle(u)' /\ hnd'[u] = hnd[u]
        BY <1>0, <2>2, <2>3
      <4>3. \A u \in Threads : HasObject(u) => HasObject(u)' /\ obj'[u] = obj[u]
        BY <1>2, <2>3
      <4> QED BY <2>0, <2>2, <2>4, <3>2, <4>1, <4>2, <4>3 DEF Owned, heap
    <3> QED BY <3>1, <3>2 DEF HandlesInv, Ownership
  <2> QED BY <2>1, <2>5, <2>6, <2>7, <2>8 DEF HandlesInv, Ownership
<1> QED BY <1>1, <1>2 DEF CreateFile

LEMMA GiveUpKeeps ==
  ASSUME HandlesInv, NEW t \in Threads, pc[t] \in {"move", "calloc"}, GiveUp(t),
         UNCHANGED <<heap, links, osOpen, held>>
  PROVE  HandlesInv'
<1>0. TypeOK /\ HasHandle(t) /\ ~HasObject(t) /\ hnd[t] \in osOpen \ leaked
  BY DEF HandlesInv, Ownership, Places, Shape, HasHandle, HasObject, Linking
<1>1. TypeOK'
  <2>1. pc' \in [Threads -> Labels]
    BY <1>0, GotoTypes DEF GiveUp, Return, Labels
  <2>2. leaked' \subseteq osOpen
    BY <1>0 DEF GiveUp, TypeOK
  <2> QED BY <1>0, <2>1, <2>2, ForgetTypes DEF GiveUp, Return, TypeOK, heap, links
<1>2. /\ \A u \in Threads : u # t => /\ pc'[u] = pc[u] /\ op'[u] = op[u] /\ obj'[u] = obj[u]
                                    /\ hnd'[u] = hnd[u] /\ dev'[u] = dev[u]
      /\ pc'[t] = "idle" /\ op'[t] = "open" /\ leaked' = leaked \cup {hnd[t]}
  BY <1>0 DEF GiveUp, Return, Forget, Goto, TypeOK
<1>3. \A u \in Threads : /\ HasHandle(u)' <=> u # t /\ HasHandle(u)
                         /\ HasObject(u)' <=> HasObject(u)
                         /\ u # t => (Shape(u)' <=> Shape(u)) /\ (pc'[u] \in Linking <=> pc[u] \in Linking)
  BY <1>0, <1>2 DEF HasHandle, HasObject, Shape, Linking
<1>4. Shape(t)' /\ ~HasHandle(t)' /\ ~HasObject(t)' /\ pc'[t] \notin Linking
  BY <1>2 DEF HasHandle, HasObject, Shape, Linking, Unlinking
<1>5. Places'
  BY <1>0, <1>2, <1>3, <1>4 DEF HandlesInv, Ownership, Places, Owners, heap
<1>6. Objects'
  BY DEF HandlesInv, Ownership, Objects, heap
<1>7. Owners'
  BY <1>0, <1>2, <1>3 DEF HandlesInv, Ownership, Owners, heap
<1>8. Lost' \/ Owned'
  <2>1. Lost => Lost'
    BY <1>0, <1>2 DEF Lost, HasHandle, Linking
  <2>2. ~Lost => Owned'
    BY <1>0, <1>2, <1>3 DEF HandlesInv, Ownership, Owned, heap
  <2> QED BY <2>1, <2>2
<1> QED BY <1>1, <1>5, <1>6, <1>7, <1>8 DEF HandlesInv, Ownership

LEMMA CallocKeeps ==
  ASSUME HandlesInv, NEW t \in Threads, Calloc(t)
  PROVE  HandlesInv'
<1>0. /\ TypeOK /\ pc[t] = "calloc" /\ HasHandle(t) /\ ~HasObject(t) /\ op[t] = "open"
      /\ hnd[t] \in osOpen \ leaked /\ dev[t] \in Drives /\ hnd[t] \in OSHandles
  <2>1. TypeOK /\ pc[t] = "calloc" /\ HasHandle(t) /\ Shape(t) /\ pc[t] \notin Linking
    BY DEF HandlesInv, Ownership, Places, HasHandle, Linking, Calloc
  <2> QED BY <2>1 DEF HandlesInv, Ownership, Places, Shape, HasObject, TypeOK
<1>1. CASE GiveUp(t) /\ UNCHANGED <<heap, links>>
  BY <1>0, <1>1, GiveUpKeeps DEF Calloc
<1>2. ASSUME NEW o \in Objs \ live,
             live' = live \cup {o},
             drive' = [drive EXCEPT ![o] = dev[t]],
             handle' = [handle EXCEPT ![o] = hnd[t]],
             flink' = [flink EXCEPT ![o] = dev[t]],
             blink' = [blink EXCEPT ![o] = blink[dev[t]]],
             obj' = [obj EXCEPT ![t] = o],
             prev' = [prev EXCEPT ![t] = blink[dev[t]]],
             Goto(t, "linkPrev"),
             UNCHANGED <<op, hnd, dev, entry, next, ret, leaked>>
      PROVE  HandlesInv'
  <2>0. UNCHANGED <<osOpen, held>>
    BY DEF Calloc
  <2>1. TypeOK'
    <3>1. dev[t] \in Node /\ blink[dev[t]] \in Node \cup {Null} /\ o \in Node
      BY <1>0 DEF TypeOK, Node
    <3> QED BY <1>0, <1>2, <2>0, <3>1 DEF TypeOK, Goto, Labels
  <2>2. /\ \A u \in Threads : u # t => pc'[u] = pc[u] /\ obj'[u] = obj[u]
        /\ pc'[t] = "linkPrev" /\ obj'[t] = o
        /\ \A p \in live : p # o /\ drive'[p] = drive[p] /\ handle'[p] = handle[p]
        /\ drive'[o] = dev[t] /\ handle'[o] = hnd[t] /\ o \notin held /\ held \subseteq live
    BY <1>0, <1>2 DEF TypeOK, Goto
  <2>3. \A u \in Threads : /\ HasHandle(u)' <=> HasHandle(u)
                           /\ u # t => (HasObject(u)' <=> HasObject(u)) /\ (Shape(u)' <=> Shape(u))
                           /\ u # t => (pc'[u] \in Linking <=> pc[u] \in Linking)
    BY <1>0, <1>2, <2>2 DEF HasHandle, HasObject, Shape, Linking
  <2>4. HasObject(t)' /\ Shape(t)'
    BY <1>0, <1>2, <2>2 DEF HasObject, Shape, Linking, Unlinking, HasHandle
  <2>5. Places'
    BY <1>0, <1>2, <2>0, <2>2, <2>3, <2>4 DEF HandlesInv, Ownership, Places, HasObject
  <2>6. Objects'
    BY <1>0, <1>2, <2>2 DEF HandlesInv, Ownership, Objects
  <2>7. Owners'
    <3>1. \A u \in Threads : u # t /\ HasObject(u) => obj[u] # o
      BY <1>2 DEF HandlesInv, Ownership, Places
    <3> QED BY <1>2, <2>0, <2>2, <2>3, <3>1 DEF HandlesInv, Ownership, Owners
  <2>8. Lost' \/ Owned'
    <3>1. Lost => Lost'
      BY <1>0, <2>2 DEF Lost
    <3>2. ASSUME Owned PROVE Owned'
      <4>1. \A u \in Threads : HasObject(u) => HasObject(u)' /\ obj'[u] = obj[u]
        BY <1>0, <2>2, <2>3
      <4> QED BY <1>2, <2>0, <2>2, <2>3, <2>4, <3>2, <4>1 DEF Owned
    <3> QED BY <3>1, <3>2 DEF HandlesInv, Ownership
  <2> QED BY <2>1, <2>5, <2>6, <2>7, <2>8 DEF HandlesInv, Ownership
<1> QED BY <1>1, <1>2 DEF Calloc

LEMMA LinkHeadKeeps ==
  ASSUME HandlesInv, NEW t \in Threads, LinkHead(t)
  PROVE  HandlesInv'
<1>0. /\ TypeOK /\ pc[t] = "linkHead" /\ HasHandle(t) /\ HasObject(t) /\ op[t] = "open"
      /\ hnd[t] \in osOpen \ leaked /\ dev[t] \in Drives /\ handle[obj[t]] = hnd[t]
      /\ obj[t] \in live \ held
  <2>1. TypeOK /\ pc[t] = "linkHead" /\ HasHandle(t) /\ HasObject(t) /\ Shape(t) /\ pc[t] \in Linking
    BY DEF HandlesInv, Ownership, Places, HasHandle, HasObject, Linking, LinkHead
  <2> QED BY <2>1 DEF HandlesInv, Ownership, Places, Shape
<1>1. UNCHANGED <<heap, flink, osOpen, leaked>> /\ held' = held \cup {obj[t]}
  BY DEF LinkHead
<1>2. TypeOK'
  <2>1. pc' \in [Threads -> Labels]
    BY <1>0, GotoTypes DEF LinkHead, Return, Labels
  <2>2. blink' \in [Node -> Node \cup {Null}]
    BY <1>0 DEF LinkHead, TypeOK, Node
  <2> QED BY <1>0, <1>1, <2>1, <2>2, ForgetTypes DEF LinkHead, Return, TypeOK, heap
<1>3. /\ \A u \in Threads : u # t => /\ pc'[u] = pc[u] /\ op'[u] = op[u] /\ obj'[u] = obj[u]
                                    /\ hnd'[u] = hnd[u] /\ dev'[u] = dev[u]
      /\ pc'[t] = "idle" /\ op'[t] = "open"
  BY <1>0 DEF LinkHead, Return, Forget, Goto, TypeOK
<1>4. \A u \in Threads : u # t => /\ HasHandle(u)' <=> HasHandle(u)
                                  /\ HasObject(u)' <=> HasObject(u)
                                  /\ Shape(u)' <=> Shape(u)
                                  /\ pc'[u] \in Linking <=> pc[u] \in Linking
  BY <1>3 DEF HasHandle, HasObject, Shape, Linking
<1>5. Shape(t)' /\ ~HasHandle(t)' /\ ~HasObject(t)' /\ pc'[t] \notin Linking
  BY <1>3 DEF HasHandle, HasObject, Shape, Linking, Unlinking
<1>6. Places'
  BY <1>0, <1>1, <1>3, <1>4, <1>5 DEF HandlesInv, Ownership, Places, Owners, heap
<1>7. Objects'
  BY <1>1 DEF HandlesInv, Ownership, Objects, heap
<1>8. Owners'
  BY <1>0, <1>1, <1>3, <1>4, <1>5 DEF HandlesInv, Ownership, Owners, heap
<1>9. Lost' \/ Owned'
  <2>1. Lost => Lost'
    BY <1>0, <1>3 DEF Lost
  <2>2. ASSUME Owned PROVE Owned'
    <3>1. \A o \in live' : o \in held' \/ \E u \in Threads : HasObject(u)' /\ obj'[u] = o
      BY <1>1, <1>3, <1>4, <2>2 DEF Owned, heap
    <3>2. \A h \in osOpen' : \/ h \in leaked'
                            \/ \E o \in held' : handle'[o] = h
                            \/ \E u \in Threads : HasHandle(u)' /\ hnd'[u] = h
      BY <1>0, <1>1, <1>3, <1>4, <2>2 DEF Owned, heap
    <3> QED BY <3>1, <3>2 DEF Owned
  <2> QED BY <2>1, <2>2 DEF HandlesInv, Ownership
<1> QED BY <1>2, <1>6, <1>7, <1>8, <1>9 DEF HandlesInv, Ownership

LEMMA FreeKeeps ==
  ASSUME HandlesInv, NEW t \in Threads, Free(t)
  PROVE  HandlesInv'
<1>0. /\ TypeOK /\ pc[t] = "free" /\ ~HasHandle(t) /\ HasObject(t) /\ obj[t] \in live \ held
  <2>1. TypeOK /\ pc[t] = "free" /\ ~HasHandle(t) /\ Shape(t)
    BY DEF HandlesInv, Ownership, Places, HasHandle, Linking, Free
  <2>2. HasObject(t)
    BY <2>1 DEF Shape, HasObject, Unlinking
  <2> QED BY <2>1, <2>2 DEF HandlesInv, Ownership, Places
<1>1. UNCHANGED <<drive, handle, links, osOpen, held, leaked>> /\ live' = live \ {obj[t]}
  BY DEF Free
<1>2. TypeOK'
  <2>1. pc' \in [Threads -> Labels]
    BY <1>0, GotoTypes DEF Free, Return, Labels
  <2> QED BY <1>0, <1>1, <2>1, ForgetTypes DEF Free, Return, TypeOK, links
<1>3. /\ \A u \in Threads : u # t => /\ pc'[u] = pc[u] /\ op'[u] = op[u] /\ obj'[u] = obj[u]
                                    /\ hnd'[u] = hnd[u] /\ dev'[u] = dev[u]
      /\ pc'[t] = "idle" /\ op'[t] = "open"
  BY <1>0 DEF Free, Return, Forget, Goto, TypeOK
<1>4. \A u \in Threads : u # t => /\ HasHandle(u)' <=> HasHandle(u)
                                  /\ HasObject(u)' <=> HasObject(u)
                                  /\ Shape(u)' <=> Shape(u)
                                  /\ pc'[u] \in Linking <=> pc[u] \in Linking
  BY <1>3 DEF HasHandle, HasObject, Shape, Linking
<1>5. Shape(t)' /\ ~HasHandle(t)' /\ ~HasObject(t)' /\ pc'[t] \notin Linking
  BY <1>3 DEF HasHandle, HasObject, Shape, Linking, Unlinking
<1>6. Places'
  BY <1>0, <1>1, <1>3, <1>4, <1>5 DEF HandlesInv, Ownership, Places, Owners
<1>7. Objects'
  BY <1>1 DEF HandlesInv, Ownership, Objects
<1>8. Owners'
  BY <1>0, <1>1, <1>3, <1>4, <1>5 DEF HandlesInv, Ownership, Owners
<1>9. Lost' \/ Owned'
  <2>1. Lost => Lost'
    BY <1>0, <1>3 DEF Lost
  <2>2. ASSUME Owned PROVE Owned'
    BY <1>0, <1>1, <1>3, <1>4, <2>2 DEF Owned
  <2> QED BY <2>1, <2>2 DEF HandlesInv, Ownership
<1> QED BY <1>2, <1>6, <1>7, <1>8, <1>9 DEF HandlesInv, Ownership

LEMMA StartWalkTypes ==
  ASSUME TypeOK, NEW t \in Threads, NEW what \in Ops, NEW o \in Objs \cup {Null},
         NEW h \in OSHandles \cup {Null}, NEW d \in Drives, StartWalk(t, what, o, h, d),
         UNCHANGED <<heap, links, leaked>>,
         held' \subseteq live, osOpen' \subseteq OSHandles, leaked \subseteq osOpen'
  PROVE  TypeOK'
<1>1. d \in Node
  BY DEF Node
<1> QED BY <1>1 DEF TypeOK, StartWalk, Goto, Labels, heap, links

LEMMA CloseKeeps ==
  ASSUME HandlesInv, NEW t \in Threads, NEW o \in held, Close(t, o)
  PROVE  HandlesInv'
<1>0. TypeOK /\ pc[t] = "idle" /\ ~HasHandle(t) /\ ~HasObject(t)
  BY DEF HandlesInv, Close, Ownership, Places, Shape, HasHandle, HasObject, Linking
<1>1. CASE Return(t, "FALSE") /\ UNCHANGED <<osOpen, held>>
  BY <1>0, <1>1, ReturnKeeps, ReturnTypes DEF HandlesInv, Close
<1>2. CASE /\ osOpen' = osOpen \ {handle[o]} /\ held' = held \ {o}
           /\ StartWalk(t, "close", o, Null, drive[o])
  <2>0. /\ UNCHANGED <<heap, links, leaked>> /\ o \in live /\ o \in Objs /\ drive[o] \in Drives
        /\ handle[o] \in osOpen \ leaked
    BY <1>0 DEF Close, TypeOK, HandlesInv, Ownership, Objects, Owners
  <2>1. TypeOK'
    <3>1. held' \subseteq live /\ osOpen' \subseteq OSHandles /\ leaked \subseteq osOpen' /\ "close" \in Ops
      BY <1>0, <1>2, <2>0 DEF TypeOK, Ops
    <3> QED BY <1>0, <1>2, <2>0, <3>1, StartWalkTypes
  <2>2. /\ \A u \in Threads : u # t => /\ pc'[u] = pc[u] /\ op'[u] = op[u] /\ obj'[u] = obj[u]
                                      /\ hnd'[u] = hnd[u] /\ dev'[u] = dev[u]
        /\ pc'[t] = "walk" /\ op'[t] = "close" /\ obj'[t] = o
    BY <1>0, <1>2 DEF StartWalk, Goto, TypeOK
  <2>3. \A u \in Threads : u # t => /\ HasHandle(u)' <=> HasHandle(u)
                                    /\ HasObject(u)' <=> HasObject(u)
                                    /\ Shape(u)' <=> Shape(u)
                                    /\ pc'[u] \in Linking <=> pc[u] \in Linking
    BY <2>2 DEF HasHandle, HasObject, Shape, Linking
  <2>4. Shape(t)' /\ ~HasHandle(t)' /\ HasObject(t)' /\ pc'[t] \notin Linking
    BY <2>2 DEF HasHandle, HasObject, Shape, Linking, Unlinking
  <2>5. Places'
    <3>1. \A u \in Threads : HasHandle(u) => hnd[u] # handle[o]
      BY DEF HandlesInv, Ownership, Owners
    <3> QED BY <1>2, <2>0, <2>2, <2>3, <2>4, <3>1 DEF HandlesInv, Ownership, Places, heap
  <2>6. Objects'
    BY <2>0 DEF HandlesInv, Ownership, Objects, heap
  <2>7. Owners'
    <3>1. \A u \in Threads : HasObject(u) => obj[u] # o
      BY DEF HandlesInv, Ownership, Places
    <3> QED BY <1>2, <2>0, <2>2, <2>3, <2>4, <3>1 DEF HandlesInv, Ownership, Owners, heap
  <2>8. Lost' \/ Owned'
    <3>1. Lost => Lost'
      BY <1>0, <2>2 DEF Lost
    <3>2. ASSUME Owned PROVE Owned'
      BY <1>0, <1>2, <2>0, <2>2, <2>3, <2>4, <3>2 DEF Owned, heap
    <3> QED BY <3>1, <3>2 DEF HandlesInv, Ownership
  <2> QED BY <2>1, <2>5, <2>6, <2>7, <2>8 DEF HandlesInv, Ownership
<1> QED BY <1>1, <1>2 DEF Close

----------------------------------------------------------------------------
(* The steps that leave the heap and the OS handles alone.                 *)
LEMMA QueriesKeep ==
  ASSUME HandlesInv, NEW t \in Threads,
         \/ \E o \in Objs : IsValidHandle(t, o)
         \/ \E h \in OSHandles : FromDiskHandle(t, h)
         \/ \E o \in held : GetDiskHandle(t, o)
  PROVE  HandlesInv'
<1>0. /\ TypeOK /\ pc[t] = "idle" /\ ~HasHandle(t) /\ ~HasObject(t)
      /\ UNCHANGED <<heap, links, osOpen, held, leaked>> /\ op[t] = "open"
  <2>1. pc[t] = "idle" /\ UNCHANGED <<heap, links, osOpen, held, leaked>>
    BY DEF IsValidHandle, FromDiskHandle, GetDiskHandle
  <2> QED BY <2>1 DEF HandlesInv, Ownership, Places, Shape, HasHandle, HasObject, Linking
<1>1. ASSUME NEW v, Return(t, v) PROVE HandlesInv'
  BY <1>0, <1>1, ReturnKeeps, ReturnTypes DEF HandlesInv
<1>2. ASSUME NEW what \in {"valid", "find"}, NEW o \in Objs \cup {Null},
             NEW h \in OSHandles \cup {Null}, NEW d \in Drives, StartWalk(t, what, o, h, d)
      PROVE  HandlesInv'
  <2>1. TypeOK'
    <3>1. held' \subseteq live /\ osOpen' \subseteq OSHandles /\ leaked \subseteq osOpen' /\ what \in Ops
      BY <1>0 DEF TypeOK, Ops
    <3> QED BY <1>0, <1>2, <3>1, StartWalkTypes
  <2>2. Others(t) /\ pc'[t] = "walk" /\ op'[t] \in {"valid", "find"}
    BY <1>0, <1>2 DEF StartWalk, Goto, TypeOK, Others
  <2>3. Shape(t)' /\ ~HasHandle(t)' /\ ~HasObject(t)' /\ pc'[t] \notin Linking
    BY <2>2 DEF HasHandle, HasObject, Shape, Linking, Unlinking
  <2>4. Ownership'
    BY <1>0, <2>2, <2>3, LocalKeeps DEF HandlesInv
  <2> QED BY <2>1, <2>4 DEF HandlesInv
<1>3. ASSUME NEW o \in Objs, IsValidHandle(t, o) PROVE HandlesInv'
  BY <1>1, <1>2, <1>3, Names DEF IsValidHandle
<1>4. ASSUME NEW h \in OSHandles, FromDiskHandle(t, h) PROVE HandlesInv'
  BY <1>2, <1>4, FirstDrives DEF FromDiskHandle
<1>5. ASSUME NEW o \in held, GetDiskHandle(t, o) PROVE HandlesInv'
  BY <1>1, <1>5 DEF GetDiskHandle
<1> QED BY <1>3, <1>4, <1>5

LEMMA MoveToStartKeeps ==
  ASSUME HandlesInv, NEW t \in Threads, MoveToStart(t)
  PROVE  HandlesInv'
<1>1. CASE GiveUp(t)
  BY <1>1, GiveUpKeeps DEF MoveToStart
<1>2. CASE Goto(t, "calloc") /\ UNCHANGED <<locals, ret, leaked>>
  <2>0. pc[t] = "move" /\ TypeOK /\ UNCHANGED <<heap, links, osOpen, held, leaked, locals>>
    BY <1>2 DEF MoveToStart, HandlesInv
  <2>1. TypeOK'
    BY <1>2, <2>0 DEF TypeOK, Goto, Labels, heap, links, locals
  <2>2. Others(t) /\ pc'[t] = "calloc" /\ UNCHANGED <<op, obj, hnd, dev>>
    BY <1>2, <2>0 DEF Goto, TypeOK, Others, locals
  <2>3. /\ Shape(t)' /\ HasHandle(t) /\ (HasObject(t)' => HasObject(t))
        /\ (HasObject(t) => HasObject(t)') /\ HasHandle(t)' /\ pc'[t] \notin Linking
    BY <2>0, <2>2 DEF HandlesInv, Ownership, Places, HasHandle, HasObject, Shape, Linking, Unlinking
  <2>4. Ownership'
    BY <2>0, <2>2, <2>3, LocalKeeps DEF HandlesInv
  <2> QED BY <2>1, <2>4 DEF HandlesInv
<1> QED BY <1>1, <1>2 DEF MoveToStart

(* A store to a link: the next place, and no object or handle changes      *)
(* hands.                                                                  *)
LEMMA StoresKeep ==
  ASSUME HandlesInv, NEW t \in Threads, LinkPrev(t) \/ UnlinkPrev(t) \/ UnlinkNext(t)
  PROVE  HandlesInv'
<1>0. /\ TypeOK /\ UNCHANGED <<heap, osOpen, held, leaked>>
      /\ pc[t] \in {"linkPrev", "unlinkPrev", "unlinkNext"}
      /\ obj[t] \in Objs
  <2>1. HasObject(t)
    BY DEF LinkPrev, UnlinkPrev, UnlinkNext, HandlesInv, Ownership, Places, HasObject, Shape,
           Linking, Unlinking
  <2> QED BY <2>1 DEF LinkPrev, UnlinkPrev, UnlinkNext, HandlesInv, TypeOK, Ownership, Places
<1>1. CASE Undescribed(t)
  <2>1. UNCHANGED links
    BY <1>0, <1>1 DEF LinkPrev, UnlinkPrev, UnlinkNext, Undescribed, Goto, TypeOK, links
  <2> QED BY <1>0, <1>1, <2>1, LostKeeps, LostTypes DEF HandlesInv
<1>2. CASE ~Undescribed(t) /\ LinkPrev(t)
  <2>0. /\ Goto(t, "linkHead") /\ UNCHANGED <<locals, blink>> /\ pc[t] = "linkPrev"
        /\ prev[t] \in Node /\ flink' = [flink EXCEPT ![prev[t]] = obj[t]]
    BY <1>0, <1>2 DEF LinkPrev, Readable, Node, TypeOK
  <2>1. TypeOK'
    <3>1. flink' \in [Node -> Node \cup {Null}]
      BY <1>0, <2>0 DEF TypeOK, Node
    <3> QED BY <1>0, <2>0, <3>1 DEF TypeOK, Goto, Labels, heap, locals
  <2>2. Others(t) /\ pc'[t] = "linkHead" /\ UNCHANGED <<op, obj, hnd, dev>>
    BY <1>0, <2>0 DEF Goto, TypeOK, Others, locals
  <2>3. /\ Shape(t)' /\ HasHandle(t) /\ HasObject(t) /\ HasObject(t)' /\ HasHandle(t)'
        /\ pc[t] \in Linking
    BY <2>0, <2>2 DEF HandlesInv, Ownership, Places, HasHandle, HasObject, Shape, Linking, Unlinking
  <2>4. Ownership'
    BY <1>0, <2>0, <2>2, <2>3, LocalKeeps DEF HandlesInv
  <2> QED BY <2>1, <2>4 DEF HandlesInv
<1>3. CASE ~Undescribed(t) /\ (UnlinkPrev(t) \/ UnlinkNext(t))
  <2>0. /\ pc[t] \in Unlinking /\ UNCHANGED <<op, obj, hnd, dev, next, prev>> /\ op[t] = "close"
        /\ Goto(t, "unlinkNext") \/ Goto(t, "walk")
    BY <1>0, <1>3 DEF UnlinkPrev, UnlinkNext, Unlinking, locals, HandlesInv, Ownership, Places, Shape
  <2>1. TypeOK'
    <3>1. CASE UnlinkPrev(t)
      <4>1. flink' \in [Node -> Node \cup {Null}] /\ UNCHANGED <<blink, entry>>
        BY <1>0, <1>3, <3>1 DEF UnlinkPrev, TypeOK, locals
      <4> QED BY <1>0, <1>3, <2>0, <3>1, <4>1 DEF UnlinkPrev, TypeOK, Goto, Labels, heap
    <3>2. CASE UnlinkNext(t)
      <4>1. /\ blink' \in [Node -> Node \cup {Null}] /\ UNCHANGED flink
            /\ entry' \in [Threads -> Node \cup {Null}]
        BY <1>0, <1>3, <3>2 DEF UnlinkNext, TypeOK, Node
      <4> QED BY <1>0, <1>3, <2>0, <3>2, <4>1 DEF UnlinkNext, TypeOK, Goto, Labels, heap
    <3> QED BY <1>3, <3>1, <3>2
  <2>2. Others(t) /\ pc'[t] \in {"unlinkNext", "walk"} /\ op'[t] = "close"
    BY <1>0, <2>0 DEF Goto, TypeOK, Others
  <2>3. /\ Shape(t)' /\ ~HasHandle(t) /\ HasObject(t) /\ HasObject(t)' /\ ~HasHandle(t)'
        /\ pc'[t] \notin Linking
    BY <2>0, <2>2 DEF HasHandle, HasObject, Shape, Linking, Unlinking
  <2>4. Ownership'
    BY <1>0, <2>0, <2>2, <2>3, LocalKeeps DEF HandlesInv
  <2> QED BY <2>1, <2>4 DEF HandlesInv
<1> QED BY <1>1, <1>2, <1>3

LEMMA WalkKeeps ==
  ASSUME HandlesInv, NEW t \in Threads, WalkStep(t)
  PROVE  HandlesInv'
<1>0. /\ TypeOK /\ UNCHANGED <<heap, links, osOpen, held, leaked>> /\ pc[t] = "walk"
      /\ ~HasHandle(t) /\ (HasObject(t) <=> op[t] = "close") /\ op[t] # "open"
  <2>1. UNCHANGED <<heap, links, osOpen, held, leaked>> /\ pc[t] = "walk"
    BY DEF WalkStep, WalkOn, WalkFinds, WalkEnds, AtEnd
  <2> QED BY <2>1 DEF HandlesInv, Ownership, Places, Shape, HasHandle, HasObject, Linking
<1>1. ASSUME NEW v, Return(t, v), op[t] # "close" PROVE HandlesInv'
  BY <1>0, <1>1, ReturnKeeps, ReturnTypes DEF HandlesInv
<1>2. CASE Undescribed(t)
  BY <1>0, <1>2, LostKeeps, LostTypes DEF HandlesInv
<1>3. ASSUME NEW l \in {"walk", "unlinkPrev", "free"}, Others(t), pc'[t] = l,
             UNCHANGED <<op, obj>>, l # "walk" => op[t] = "close"
      PROVE  Ownership'
  <2>1. /\ Shape(t)' /\ ~HasHandle(t)' /\ (HasObject(t)' <=> HasObject(t)) /\ pc'[t] \notin Linking
    BY <1>0, <1>3 DEF HasHandle, HasObject, Shape, Linking, Unlinking
  <2> QED BY <1>0, <1>3, <2>1, LocalKeeps DEF HandlesInv
<1>4. CASE WalkOn(t) /\ ~Undescribed(t)
  <2>1. StepTo(t, flink[entry[t]]) /\ UNCHANGED dev /\ flink[entry[t]] \in Node \cup {Null}
    BY <1>0, <1>4 DEF WalkOn, Readable, TypeOK, Node
  <2>2. TypeOK'
    BY <1>0, <2>1 DEF StepTo, TypeOK, heap, links
  <2>3. Ownership'
    BY <1>0, <1>3, <2>1 DEF StepTo, Others
  <2> QED BY <2>2, <2>3 DEF HandlesInv
<1>5. CASE WalkFinds(t)
  <2>1. CASE op[t] = "close" /\ Goto(t, "unlinkPrev")
    <3>0. /\ obj[t] \in Objs /\ next' = [next EXCEPT ![t] = flink[obj[t]]]
          /\ prev' = [prev EXCEPT ![t] = blink[obj[t]]] /\ UNCHANGED <<op, obj, hnd, dev, entry>>
      BY <1>0, <1>5, <2>1 DEF WalkFinds, HandlesInv, TypeOK, Ownership, Places
    <3>1. flink[obj[t]] \in Node \cup {Null} /\ blink[obj[t]] \in Node \cup {Null}
      BY <1>0, <3>0 DEF TypeOK, Node
    <3>2. TypeOK'
      BY <1>0, <2>1, <3>0, <3>1 DEF TypeOK, Goto, Labels, heap, links
    <3>3. Others(t) /\ pc'[t] = "unlinkPrev"
      BY <1>0, <2>1, <3>0 DEF TypeOK, Goto, Others
    <3> QED BY <1>3, <2>1, <3>0, <3>2, <3>3 DEF HandlesInv
  <2>2. CASE op[t] # "close"
    BY <1>1, <1>5, <2>2 DEF WalkFinds
  <2> QED BY <1>5, <2>1, <2>2 DEF WalkFinds
<1>6. CASE WalkEnds(t)
  <2>1. CASE op[t] = "close" /\ Goto(t, "free") /\ UNCHANGED locals
    <3>1. TypeOK'
      BY <1>0, <2>1 DEF TypeOK, Goto, Labels, heap, links, locals
    <3>2. Others(t) /\ pc'[t] = "free" /\ UNCHANGED <<op, obj>>
      BY <1>0, <2>1 DEF TypeOK, Goto, Others, locals
    <3> QED BY <1>3, <2>1, <3>1, <3>2 DEF HandlesInv
  <2>2. CASE /\ op[t] = "find" /\ After(dev[t]) # {}
             /\ dev' = [dev EXCEPT ![t] = Min(After(dev[t]))]
             /\ StepTo(t, flink[Min(After(dev[t]))])
    <3>1. Min(After(dev[t])) \in Drives
      BY <2>2, FirstDrives
    <3>2. flink[Min(After(dev[t]))] \in Node \cup {Null}
      BY <1>0, <3>1 DEF TypeOK, Node
    <3>3. TypeOK'
      BY <1>0, <2>2, <3>1, <3>2 DEF StepTo, TypeOK, heap, links
    <3>4. Others(t) /\ pc'[t] = "walk" /\ UNCHANGED <<op, obj>>
      BY <1>0, <2>2 DEF StepTo, Others, TypeOK
    <3> QED BY <1>3, <3>3, <3>4 DEF HandlesInv
  <2>3. CASE op[t] # "close" /\ \E v : Return(t, v)
    BY <1>1, <2>3
  <2> QED BY <1>6, <2>1, <2>2, <2>3 DEF WalkEnds
<1> QED BY <1>2, <1>4, <1>5, <1>6 DEF WalkStep

----------------------------------------------------------------------------
LEMMA HandlesStep == HandlesInv /\ [Next]_vars => HandlesInv'
<1> SUFFICES ASSUME HandlesInv, [Next]_vars PROVE HandlesInv'
  OBVIOUS
<1>1. CASE UNCHANGED vars
  BY <1>1 DEF vars, heap, links, locals, HandlesInv, TypeOK, Ownership, Places, Objects, Owners,
     Owned, Lost, Shape, HasHandle, HasObject
<1>2. ASSUME NEW t \in Threads, Call(t) PROVE HandlesInv'
  <2>1. ASSUME NEW d \in MayOpen[t], CreateFile(t, d) PROVE HandlesInv'
    <3>1. d \in Drives
      BY <2>1, HandlesAssumption DEF HandlesAssumption
    <3> QED BY <2>1, <3>1, CreateFileKeeps
  <2> QED BY <1>2, <2>1, CloseKeeps, QueriesKeep DEF Call
<1>3. ASSUME NEW t \in Threads, Continue(t) PROVE HandlesInv'
  BY <1>3, MoveToStartKeeps, CallocKeeps, LinkHeadKeeps, FreeKeeps, StoresKeep, WalkKeeps
     DEF Continue, OpenStep, CloseStep
<1> QED BY <1>1, <1>2, <1>3 DEF Next

LEMMA HandlesStart == Init => HandlesInv
<1> SUFFICES ASSUME Init PROVE HandlesInv
  OBVIOUS
<1>1. TypeOK
  BY DEF Init, TypeOK, Labels, Ops, Node
<1>2. \A t \in Threads : Shape(t) /\ ~HasHandle(t) /\ ~HasObject(t) /\ pc[t] \notin Linking
  BY DEF Init, Shape, HasHandle, HasObject, Linking, Unlinking
<1>3. Ownership
  BY <1>2 DEF Init, Ownership, Places, Objects, Owners, Owned
<1> QED BY <1>1, <1>3 DEF HandlesInv

(* Every object and every OS handle has one owner: the caller, or the      *)
(* thread of the call that is making or closing it.                        *)
THEOREM HandlesInductive == Spec => []HandlesInv
BY HandlesStart, HandlesStep, PTL DEF Spec

(* Links lead to nodes, no caller is left with a freed object, and an OS   *)
(* handle that a failed DevBlkOpen dropped stays open (windevblk.c:168-    *)
(* 199), however many threads call and whatever they do to the lists.      *)
THEOREM RegistryTypeCorrect == Spec => []TypeOK
<1>1. HandlesInv => TypeOK
  BY DEF HandlesInv
<1> QED BY <1>1, HandlesInductive, PTL

(* Between calls the open OS handles are those of the objects, each for    *)
(* one object, and the dropped ones (windevblk.c:144-207 and 510-544),     *)
(* even when two threads open on one drive and an entry is lost from its   *)
(* list.                                                                   *)
THEOREM EveryHandleAccounted == Spec => []HandlesAccounted
<1>1. HandlesInv => HandlesAccounted
  <2> SUFFICES ASSUME HandlesInv, Quiet PROVE HandlesAccounted
    BY DEF HandlesAccounted
  <2>1. \A t \in Threads : ~HasHandle(t) /\ ~HasObject(t)
    BY DEF Quiet, HandlesInv, Ownership, Places, Shape, HasHandle, HasObject, Linking
  <2>2. Owned
    BY DEF Quiet, HandlesInv, Ownership, Lost
  <2>3. live = held
    BY <2>1, <2>2 DEF Owned, HandlesInv, TypeOK
  <2>4. osOpen = {handle[o] : o \in live} \cup leaked
    BY <2>1, <2>2, <2>3 DEF Owned, HandlesInv, TypeOK, Ownership, Owners
  <2> QED BY <2>3, <2>4 DEF HandlesAccounted, HandlesInv, Ownership, Owners
<1> QED BY <1>1, HandlesInductive, PTL

----------------------------------------------------------------------------
(* What handles_concurrent allows its two threads, for any number.         *)
Apart == \A t, u \in Threads : t # u =>
  /\ MayOpen[t] \cap MayOpen[u] = {}
  /\ MayClose[t] \cap (MayOpen[u] \cup MayClose[u] \cup MayAsk[u]) = {}

----------------------------------------------------------------------------
(* DevBlkClose before and after it has taken its object off the list.      *)
Seeking(t) == pc[t] = "walk" /\ op[t] = "close" /\ next[t] = Null
Gone(t) == pc[t] = "free" \/ (pc[t] = "walk" /\ op[t] = "close" /\ next[t] # Null)

(* The objects a traversal may come across, and those that are linked      *)
(* backwards: all but the one a thread is inserting or removing.           *)
AwayF(t) == pc[t] \in {"linkPrev", "unlinkNext"} \/ Gone(t)
AwayB(t) == pc[t] \in Linking \/ Gone(t)
Fwd == {o \in live : \A t \in Threads : AwayF(t) => obj[t] # o}
Back == {o \in live : \A t \in Threads : AwayB(t) => obj[t] # o}

(* The drive whose list a node is of.                                      *)
On(n) == IF n \in Drives THEN n ELSE drive[n]

(* By the order in which objects were opened, m is the next after n in its *)
(* list, or the head; and the last before n.                               *)
Follows(rank, n, m) ==
  /\ m = On(n) \/ (m \in Fwd /\ drive[m] = On(n) /\ (n \in Drives \/ rank[n] < rank[m]))
  /\ \A p \in Fwd : drive[p] = On(n) /\ (n \in Drives \/ rank[n] < rank[p]) =>
       m \in Fwd /\ rank[m] <= rank[p]
Precedes(rank, n, m) ==
  /\ m = On(n) \/ (m \in Back /\ drive[m] = On(n) /\ (n \in Drives \/ rank[m] < rank[n]))
  /\ \A p \in Back : drive[p] = On(n) /\ (n \in Drives \/ rank[p] < rank[n]) =>
       m \in Back /\ rank[p] <= rank[m]

(* A thread works where it may.                                            *)
Writer(t) ==
  /\ HasHandle(t) => dev[t] \in MayOpen[t]
  /\ pc[t] \in Linking => drive[obj[t]] = dev[t]
  /\ op[t] = "close" => drive[obj[t]] \in MayClose[t]
  /\ op[t] = "find" => MayAsk[t] = Drives
  /\ op[t] # "close" => next[t] = Null

(* What a thread's locals say of the links.                                *)
Place(t) ==
  /\ pc[t] = "linkPrev" => flink[obj[t]] = dev[t] /\ prev[t] = blink[dev[t]]
  /\ pc[t] \in Linking => blink[obj[t]] = blink[dev[t]]
  /\ pc[t] \in {"unlinkPrev", "unlinkNext"} => next[t] = flink[obj[t]] /\ prev[t] = blink[obj[t]]
  /\ pc[t] = "walk" /\ op[t] # "close" =>
       entry[t] \in Fwd \cup Drives /\ On(entry[t]) = dev[t] /\ dev[t] \in MayAsk[t]
  /\ pc[t] = "walk" /\ Gone(t) =>
       entry[t] \in Fwd \cup Drives /\ On(entry[t]) = drive[obj[t]]

(* And of the order: a new object is the last, and the one DevBlkClose     *)
(* looks for is still to come.                                             *)
RankedAt(rank, t) ==
  /\ pc[t] \in Linking => \A p \in live : p # obj[t] /\ drive[p] = dev[t] => rank[p] < rank[obj[t]]
  /\ pc[t] = "unlinkNext" => Follows(rank, obj[t], flink[obj[t]])
  /\ Seeking(t) => entry[t] \in Fwd /\ drive[entry[t]] = drive[obj[t]] /\ rank[entry[t]] <= rank[obj[t]]

Ranked(rank) ==
  /\ \E top \in Nat : \A o \in Objs : rank[o] < top
  /\ \A o, p \in live : rank[o] = rank[p] => o = p
  /\ \A n \in Fwd \cup Drives : Follows(rank, n, flink[n])
  /\ \A n \in Back \cup Drives : Precedes(rank, n, blink[n])
  /\ \A t \in Threads : RankedAt(rank, t)

(* The inductive invariant.                                                *)
ListInv ==
  /\ HandlesInv /\ NoUndefined
  /\ \A t \in Threads : Writer(t) /\ Place(t)
  /\ \E rank \in [Objs -> Nat] : Ranked(rank)

----------------------------------------------------------------------------
(* A thread that has taken an object off a list, or is putting it there,   *)
(* has it to itself.                                                       *)
LEMMA AwayHas ==
  ASSUME HandlesInv, NEW t \in Threads
  PROVE  /\ AwayF(t) \/ AwayB(t) \/ Seeking(t) \/ pc[t] \in Unlinking => HasObject(t)
         /\ HasObject(t) => obj[t] \in live \ held /\ obj[t] \in Objs /\ drive[obj[t]] \in Drives
         /\ pc[t] \in Linking => HasHandle(t)
<1>1. Shape(t) /\ (HasObject(t) => obj[t] \in live \ held)
  BY DEF HandlesInv, Ownership, Places
<1>2. AwayF(t) \/ AwayB(t) \/ Seeking(t) \/ pc[t] \in Unlinking => HasObject(t)
  BY <1>1 DEF AwayF, AwayB, Gone, Seeking, HasObject, Shape, Linking, Unlinking
<1>3. obj[t] \in live => obj[t] \in Objs /\ drive[obj[t]] \in Drives
  BY DEF HandlesInv, TypeOK, Ownership, Objects
<1> QED BY <1>1, <1>2, <1>3 DEF HasHandle

LEMMA Alone ==
  ASSUME Apart, HandlesInv, \A t \in Threads : Writer(t),
         NEW t \in Threads, NEW u \in Threads, t # u, HasObject(t), HasObject(u)
  PROVE  drive[obj[t]] # drive[obj[u]] /\ obj[t] # obj[u]
<1>1. \A v \in {t, u} : \/ op[v] = "close" /\ drive[obj[v]] \in MayClose[v]
                        \/ drive[obj[v]] \in MayOpen[v]
  BY DEF HasObject, HasHandle, Writer
<1>2. obj[t] # obj[u]
  BY DEF HandlesInv, Ownership, Owners
<1> QED BY <1>1, <1>2 DEF Apart

(* The rest of the list a thread changes is linked both ways.              *)
LEMMA Whole ==
  ASSUME Apart, HandlesInv, \A t \in Threads : Writer(t), NEW t \in Threads, HasObject(t)
  PROVE  /\ \A p \in live : p # obj[t] /\ drive[p] = drive[obj[t]] => p \in Fwd /\ p \in Back
         /\ obj[t] \in Fwd <=> ~AwayF(t)
         /\ obj[t] \in Back <=> ~AwayB(t)
<1>1. \A u \in Threads : AwayF(u) \/ AwayB(u) => HasObject(u)
  BY AwayHas
<1>2. obj[t] \in live
  BY AwayHas
<1>3. \A u \in Threads : u # t /\ HasObject(u) => drive[obj[t]] # drive[obj[u]] /\ obj[t] # obj[u]
  BY Alone
<1> QED BY <1>1, <1>2, <1>3 DEF Fwd, Back

LEMMA HeldLinked ==
  ASSUME HandlesInv
  PROVE  held \subseteq Fwd /\ held \subseteq Back /\ Fwd \subseteq live /\ Back \subseteq live
<1>1. \A u \in Threads : AwayF(u) \/ AwayB(u) => obj[u] \notin held
  BY AwayHas
<1> QED BY <1>1 DEF Fwd, Back, HandlesInv, TypeOK

LEMMA Live ==
  ASSUME HandlesInv
  PROVE  /\ live \subseteq Objs /\ \A o \in live : o \notin Drives /\ o # Null /\ On(o) = drive[o] /\ drive[o] \in Drives
         /\ \A d \in Drives : On(d) = d /\ d # Null /\ d \notin live
         /\ \A n \in live \cup Drives : Readable(n) /\ n \in Node
BY Names DEF HandlesInv, TypeOK, Ownership, Objects, On, Node, Readable

----------------------------------------------------------------------------
(* A step of t that changes neither links nor objects, nor which are away. *)
Same(t) == \A u \in Threads : u # t =>
  /\ pc'[u] = pc[u] /\ op'[u] = op[u] /\ obj'[u] = obj[u] /\ dev'[u] = dev[u]
  /\ entry'[u] = entry[u] /\ next'[u] = next[u] /\ prev'[u] = prev[u]

LEMMA SameThreads ==
  ASSUME NEW t \in Threads, Same(t)
  PROVE  \A u \in Threads : u # t =>
           /\ AwayF(u)' <=> AwayF(u)
           /\ AwayB(u)' <=> AwayB(u)
           /\ Gone(u)' <=> Gone(u)
           /\ Seeking(u)' <=> Seeking(u)
           /\ HasHandle(u)' <=> HasHandle(u)
           /\ HasObject(u)' <=> HasObject(u)
BY DEF Same, AwayF, AwayB, Gone, Seeking, HasHandle, HasObject

LEMMA StillKeeps ==
  ASSUME ListInv, NEW t \in Threads, UNCHANGED <<live, drive, flink, blink>>, Same(t), HandlesInv',
         AwayF(t)' <=> AwayF(t), AwayB(t)' <=> AwayB(t), AwayF(t) \/ AwayB(t) => obj'[t] = obj[t],
         pc'[t] # "undefined", Writer(t)', Fwd' = Fwd => Place(t)',
         \A rank \in [Objs -> Nat] : Ranked(rank) /\ Fwd' = Fwd => RankedAt(rank, t)'
  PROVE  ListInv'
<1>1. Fwd' = Fwd /\ Back' = Back
  BY SameThreads DEF Fwd, Back, Same
<1>2. NoUndefined'
  BY DEF ListInv, NoUndefined, Same
<1>3. \A n : On(n)' = On(n)
  BY DEF On
<1>4. ASSUME NEW u \in Threads PROVE Writer(u)' /\ Place(u)'
  <2>1. CASE u = t
    BY <1>1, <2>1
  <2>2. CASE u # t
    BY <1>1, <1>3, <2>2, SameThreads DEF Same, Writer, Place, ListInv
  <2> QED BY <2>1, <2>2
<1>5. PICK rank \in [Objs -> Nat] : Ranked(rank)
  BY DEF ListInv
<1>6. \A n, m : /\ Follows(rank, n, m)' <=> Follows(rank, n, m)
                /\ Precedes(rank, n, m)' <=> Precedes(rank, n, m)
  BY <1>1, <1>3 DEF Follows, Precedes
<1>7. ASSUME NEW u \in Threads PROVE RankedAt(rank, u)'
  <2>1. CASE u = t
    BY <1>1, <1>5, <2>1
  <2>2. CASE u # t
    BY <1>1, <1>5, <1>6, <2>2, SameThreads DEF Same, RankedAt, Ranked
  <2> QED BY <2>1, <2>2
<1>8. Ranked(rank)'
  BY <1>1, <1>5, <1>6, <1>7 DEF Ranked
<1> QED BY <1>2, <1>4, <1>8 DEF ListInv

(* ... and that leaves it with no list to work on.                         *)
LEMMA OffKeeps ==
  ASSUME ListInv, NEW t \in Threads, UNCHANGED <<live, drive, flink, blink>>, Same(t), HandlesInv',
         ~AwayF(t), ~AwayB(t), pc'[t] \in {"idle", "move", "calloc"}, op'[t] = "open",
         next'[t] = Null, HasHandle(t)' => dev'[t] \in MayOpen[t]
  PROVE  ListInv'
<1>1. /\ ~AwayF(t)' /\ ~AwayB(t)' /\ ~Seeking(t)' /\ ~Gone(t)'
      /\ pc'[t] \notin Linking \cup {"walk", "linkPrev", "unlinkPrev", "unlinkNext", "undefined"}
  BY DEF AwayF, AwayB, Gone, Seeking, Linking
<1>2. Writer(t)'
  BY <1>1 DEF Writer
<1>3. Place(t)'
  BY <1>1 DEF Place, Linking
<1>4. ASSUME NEW rank PROVE RankedAt(rank, t)'
  BY <1>1 DEF RankedAt
<1> QED BY <1>1, <1>2, <1>3, <1>4, StillKeeps

LEMMA ReturnOff ==
  ASSUME TypeOK, NEW t \in Threads, NEW v, Return(t, v)
  PROVE  Same(t) /\ pc'[t] = "idle" /\ op'[t] = "open" /\ next'[t] = Null
BY DEF TypeOK, Return, Forget, Goto, Same

LEMMA ReturnKeepsLists ==
  ASSUME ListInv, NEW t \in Threads, NEW v, Return(t, v), UNCHANGED <<heap, links>>, HandlesInv',
         ~AwayF(t), ~AwayB(t)
  PROVE  ListInv'
<1>1. TypeOK
  BY DEF ListInv, HandlesInv
<1>2. ~HasHandle(t)'
  BY <1>1, ReturnOff DEF HasHandle, Linking
<1> QED BY <1>1, <1>2, ReturnOff, OffKeeps DEF heap, links

LEMMA IdleOff ==
  ASSUME ListInv, NEW t \in Threads, pc[t] \in {"idle", "move", "calloc"}
  PROVE  ~AwayF(t) /\ ~AwayB(t) /\ op[t] = "open" /\ next[t] = Null
<1>1. op[t] = "open"
  BY DEF ListInv, HandlesInv, Ownership, Places, Shape, HasHandle
<1> QED BY <1>1 DEF ListInv, Writer, AwayF, AwayB, Gone, Linking

----------------------------------------------------------------------------
(* The calls.                                                              *)
LEMMA OpenKeepsLists ==
  ASSUME ListInv, HandlesInv', NEW t \in Threads,
         (\E d \in MayOpen[t] : CreateFile(t, d)) \/ MoveToStart(t)
  PROVE  ListInv'
<1>0. TypeOK /\ pc[t] \in {"idle", "move"} /\ UNCHANGED <<heap, links>>
  BY DEF ListInv, HandlesInv, CreateFile, MoveToStart
<1>1. ~AwayF(t) /\ ~AwayB(t) /\ op[t] = "open" /\ next[t] = Null
  BY <1>0, IdleOff
<1>2. CASE Return(t, Null)
  BY <1>0, <1>1, <1>2, ReturnKeepsLists
<1>3. ASSUME NEW d \in MayOpen[t], CreateFile(t, d), ~Return(t, Null) PROVE ListInv'
  <2>1. /\ Same(t) /\ pc'[t] = "move" /\ op'[t] = "open" /\ next'[t] = Null /\ dev'[t] = d
    BY <1>0, <1>1, <1>3 DEF CreateFile, Goto, Same, TypeOK
  <2> QED BY <1>0, <1>1, <2>1, OffKeeps DEF heap, links
<1>4. CASE MoveToStart(t) /\ ~Return(t, Null)
  <2>1. /\ Same(t) /\ pc'[t] = "calloc" /\ op'[t] = "open" /\ next'[t] = Null /\ dev'[t] = dev[t]
    BY <1>0, <1>1, <1>4 DEF MoveToStart, GiveUp, Goto, Same, TypeOK, locals
  <2>2. dev[t] \in MayOpen[t]
    BY <1>4 DEF MoveToStart, ListInv, Writer, HasHandle
  <2> QED BY <1>0, <1>1, <2>1, <2>2, OffKeeps DEF heap, links
<1> QED BY <1>2, <1>3, <1>4

(* Where the link of a node leads.                                         *)
LEMMA NextIn ==
  ASSUME HandlesInv, NEW rank, Ranked(rank), NEW n \in Fwd \cup Drives
  PROVE  flink[n] \in Fwd \cup Drives /\ On(flink[n]) = On(n) /\ flink[n] # Null
<1>1. Follows(rank, n, flink[n])
  BY DEF Ranked
<1>2. On(n) \in Drives
  BY Live, HeldLinked DEF On
<1>3. \A m \in Fwd : On(m) = drive[m] /\ m # Null
  BY Live, HeldLinked
<1> QED BY <1>1, <1>2, <1>3, Live DEF Follows

LEMMA PrevIn ==
  ASSUME HandlesInv, NEW rank, Ranked(rank), NEW n \in Back \cup Drives
  PROVE  blink[n] \in Back \cup Drives /\ On(blink[n]) = On(n) /\ blink[n] # Null
<1>1. Precedes(rank, n, blink[n])
  BY DEF Ranked
<1>2. On(n) \in Drives
  BY Live, HeldLinked DEF On
<1>3. \A m \in Back : On(m) = drive[m] /\ m # Null
  BY Live, HeldLinked
<1> QED BY <1>1, <1>2, <1>3, Live DEF Precedes

LEMMA CloseKeepsLists ==
  ASSUME ListInv, HandlesInv', NEW t \in Threads, NEW o \in held, drive[o] \in MayClose[t], Close(t, o)
  PROVE  ListInv'
<1>0. TypeOK /\ pc[t] = "idle" /\ UNCHANGED <<heap, links>>
  BY DEF ListInv, HandlesInv, Close
<1>1. ~AwayF(t) /\ ~AwayB(t) /\ op[t] = "open" /\ next[t] = Null
  BY <1>0, IdleOff
<1>2. CASE Return(t, "FALSE")
  BY <1>0, <1>1, <1>2, ReturnKeepsLists
<1>3. CASE StartWalk(t, "close", o, Null, drive[o])
  <2>1. /\ Same(t) /\ pc'[t] = "walk" /\ op'[t] = "close" /\ next'[t] = Null /\ obj'[t] = o
        /\ entry'[t] = flink[drive[o]] /\ drive' = drive /\ flink' = flink /\ live' = live
    BY <1>0, <1>1, <1>3 DEF StartWalk, Goto, Same, TypeOK, heap, links
  <2>2. ~AwayF(t)' /\ ~AwayB(t)' /\ ~Gone(t)' /\ pc'[t] \notin Linking \cup Unlinking \cup {"undefined"}
    BY <2>1 DEF AwayF, AwayB, Gone, Linking, Unlinking
  <2>3. Writer(t)'
    BY <2>1, <2>2 DEF Writer, HasHandle, Linking
  <2>4. Place(t)'
    BY <2>1, <2>2 DEF Place, Linking, Unlinking
  <2>5. ASSUME NEW rank \in [Objs -> Nat], Ranked(rank), Fwd' = Fwd PROVE RankedAt(rank, t)'
    <3>1. drive[o] \in Drives /\ o \in Fwd
      BY HeldLinked, Live DEF ListInv
    <3>2. Follows(rank, drive[o], flink[drive[o]]) /\ On(drive[o]) = drive[o]
      BY <2>5, <3>1 DEF Ranked, On
    <3>3. flink[drive[o]] \in Fwd /\ rank[flink[drive[o]]] <= rank[o]
      BY <3>1, <3>2 DEF Follows
    <3>4. drive[flink[drive[o]]] = drive[o]
      BY <3>1, <3>2, <3>3, HeldLinked, Live DEF Follows, ListInv
    <3> QED BY <2>1, <2>2, <2>5, <3>3, <3>4 DEF RankedAt, Unlinking
  <2> QED BY <1>0, <1>1, <2>1, <2>2, <2>3, <2>4, <2>5, StillKeeps DEF heap, links
<1> QED BY <1>2, <1>3 DEF Close

LEMMA AskKeepsLists ==
  ASSUME ListInv, HandlesInv', NEW t \in Threads,
         \/ \E o \in Objs : drive[o] \in MayAsk[t] \cup {Null} /\ IsValidHandle(t, o)
         \/ MayAsk[t] = Drives /\ \E h \in OSHandles : FromDiskHandle(t, h)
         \/ \E o \in held : GetDiskHandle(t, o)
  PROVE  ListInv'
<1>0. TypeOK /\ pc[t] = "idle" /\ UNCHANGED <<heap, links>> /\ HandlesInv
  BY DEF ListInv, HandlesInv, IsValidHandle, FromDiskHandle, GetDiskHandle
<1>1. ~AwayF(t) /\ ~AwayB(t) /\ op[t] = "open" /\ next[t] = Null
  BY <1>0, IdleOff
<1>2. ASSUME NEW v, Return(t, v) PROVE ListInv'
  BY <1>0, <1>1, <1>2, ReturnKeepsLists
<1>3. ASSUME NEW what \in {"valid", "find"}, NEW o, NEW h, NEW d \in MayAsk[t], d \in Drives,
             StartWalk(t, what, o, h, d), what = "find" => MayAsk[t] = Drives
      PROVE  ListInv'
  <2>1. /\ Same(t) /\ pc'[t] = "walk" /\ op'[t] = what /\ next'[t] = Null /\ dev'[t] = d
        /\ entry'[t] = flink[d] /\ drive' = drive /\ flink' = flink /\ live' = live
    BY <1>0, <1>1, <1>3 DEF StartWalk, Goto, Same, TypeOK, heap, links
  <2>2. /\ ~AwayF(t)' /\ ~AwayB(t)' /\ ~Gone(t)' /\ ~Seeking(t)' /\ what # "close"
        /\ pc'[t] \notin Linking \cup Unlinking \cup {"undefined"}
    BY <1>3, <2>1 DEF AwayF, AwayB, Gone, Seeking, Linking, Unlinking
  <2>3. Writer(t)'
    BY <1>3, <2>1, <2>2 DEF Writer, HasHandle, Linking
  <2>4. Fwd' = Fwd => Place(t)'
    <3>1. PICK rank : Ranked(rank)
      BY DEF ListInv
    <3>2. flink[d] \in Fwd \cup Drives /\ On(flink[d]) = d
      BY <1>0, <1>3, <3>1, NextIn, Live
    <3> QED BY <1>3, <2>1, <2>2, <3>2 DEF Place, On, Linking, Unlinking
  <2>5. ASSUME NEW rank PROVE RankedAt(rank, t)'
    BY <2>2 DEF RankedAt, Unlinking
  <2> QED BY <1>0, <1>1, <2>1, <2>2, <2>3, <2>4, <2>5, StillKeeps DEF heap, links
<1>4. ASSUME NEW o \in Objs, drive[o] \in MayAsk[t] \cup {Null}, IsValidHandle(t, o) PROVE ListInv'
  <2>1. drive[o] \in Drives => drive[o] # Null
    BY Names DEF Node
  <2> QED BY <1>2, <1>3, <1>4, <2>1 DEF IsValidHandle
<1>5. ASSUME MayAsk[t] = Drives, NEW h \in OSHandles, FromDiskHandle(t, h) PROVE ListInv'
  BY <1>3, <1>5, FirstDrives DEF FromDiskHandle
<1>6. ASSUME NEW o \in held, GetDiskHandle(t, o) PROVE ListInv'
  BY <1>2, <1>6 DEF GetDiskHandle
<1> QED BY <1>4, <1>5, <1>6

----------------------------------------------------------------------------
(* The traversals.                                                         *)
LEMMA WalkFacts ==
  ASSUME ListInv, NEW t \in Threads, pc[t] = "walk"
  PROVE  /\ HandlesInv /\ TypeOK /\ op[t] # "open" /\ ~HasHandle(t)
         /\ op[t] = "close" => /\ HasObject(t) /\ obj[t] \in Objs /\ drive[obj[t]] \in Drives
                               /\ Seeking(t) \/ Gone(t)
         /\ op[t] = "close" => (obj[t] \in Fwd <=> Seeking(t))
         /\ (AwayF(t) <=> Gone(t)) /\ (AwayB(t) <=> Gone(t)) /\ (Gone(t) => op[t] = "close" /\ ~Seeking(t))
         /\ entry[t] \in Fwd \cup Drives /\ Readable(entry[t])
<1>1. HandlesInv /\ TypeOK /\ op[t] # "open" /\ ~HasHandle(t)
  BY DEF ListInv, HandlesInv, Ownership, Places, Shape, HasHandle, Linking
<1>2. op[t] = "close" => /\ HasObject(t) /\ obj[t] \in Objs /\ drive[obj[t]] \in Drives
                         /\ Seeking(t) \/ Gone(t)
  BY <1>1, AwayHas DEF HasObject, Seeking, Gone
<1>3. (AwayF(t) <=> Gone(t)) /\ (AwayB(t) <=> Gone(t)) /\ (Gone(t) => op[t] = "close" /\ ~Seeking(t))
  BY DEF AwayF, AwayB, Gone, Seeking, Linking
<1>4. entry[t] \in Fwd \cup Drives
  <2>1. CASE op[t] # "close"
    BY <2>1 DEF ListInv, Place
  <2>2. CASE Gone(t)
    BY <2>2 DEF ListInv, Place
  <2>3. CASE Seeking(t)
    BY <2>3 DEF ListInv, Ranked, RankedAt
  <2> QED BY <1>2, <2>1, <2>2, <2>3
<1>5. Readable(entry[t])
  BY <1>1, <1>4, HeldLinked, Live
<1>6. op[t] = "close" => (obj[t] \in Fwd <=> Seeking(t))
  <2>1. ASSUME op[t] = "close" PROVE obj[t] \in Fwd <=> ~AwayF(t)
    <3>1. \A u \in Threads : AwayF(u) => HasObject(u)
      BY <1>1, AwayHas
    <3>2. obj[t] \in live
      BY <1>1, <1>2, <2>1, AwayHas
    <3>3. \A u \in Threads : u # t /\ HasObject(u) => obj[t] # obj[u]
      BY <1>1, <1>2, <2>1 DEF HandlesInv, Ownership, Owners
    <3> QED BY <3>1, <3>2, <3>3 DEF Fwd
  <2> QED BY <1>2, <1>3, <2>1
<1> QED BY <1>1, <1>2, <1>3, <1>4, <1>5, <1>6

LEMMA WalkOnKeepsLists ==
  ASSUME ListInv, HandlesInv', NEW t \in Threads, WalkOn(t)
  PROVE  ListInv'
<1>0. /\ pc[t] = "walk" /\ ~AtEnd(t) /\ ~Sought(t) /\ UNCHANGED <<heap, links>>
      /\ HandlesInv /\ TypeOK /\ ~HasHandle(t) /\ op[t] # "open"
  BY WalkFacts DEF WalkOn
<1>1. StepTo(t, flink[entry[t]]) /\ UNCHANGED dev
  BY <1>0, WalkFacts DEF WalkOn
<1>2. /\ Same(t) /\ entry'[t] = flink[entry[t]] /\ UNCHANGED <<pc, op, obj, dev, next, prev>>
      /\ UNCHANGED <<live, drive, flink, blink>>
  BY <1>0, <1>1 DEF StepTo, Same, TypeOK, heap, links
<1>3. /\ AwayF(t)' <=> AwayF(t)
      /\ AwayB(t)' <=> AwayB(t)
      /\ Gone(t)' <=> Gone(t)
      /\ Seeking(t)' <=> Seeking(t)
      /\ HasHandle(t)' <=> HasHandle(t)
  BY <1>2 DEF AwayF, AwayB, Gone, Seeking, HasHandle
<1>4. Writer(t)'
  BY <1>2, <1>3 DEF Writer, ListInv
<1>5. PICK rank0 : Ranked(rank0)
  BY DEF ListInv
<1>6. flink[entry[t]] \in Fwd \cup Drives /\ On(flink[entry[t]]) = On(entry[t])
  BY <1>0, <1>5, NextIn, WalkFacts
<1>7. ASSUME Fwd' = Fwd PROVE Place(t)'
  BY <1>0, <1>2, <1>3, <1>6, <1>7 DEF Place, ListInv, On, Linking
<1>8. ASSUME NEW rank \in [Objs -> Nat], Ranked(rank), Fwd' = Fwd PROVE RankedAt(rank, t)'
  <2>1. ASSUME Seeking(t)
        PROVE  flink[entry[t]] \in Fwd /\ drive[flink[entry[t]]] = drive[obj[t]]
                 /\ rank[flink[entry[t]]] <= rank[obj[t]]
    <3>1. /\ entry[t] \in Fwd /\ drive[entry[t]] = drive[obj[t]] /\ rank[entry[t]] <= rank[obj[t]]
          /\ obj[t] \in Fwd /\ op[t] = "close"
      BY <1>0, <1>8, <2>1, WalkFacts DEF Ranked, RankedAt, Seeking
    <3>2. entry[t] # obj[t]
      BY <1>0, <3>1 DEF Sought
    <3>3. rank[entry[t]] < rank[obj[t]]
      <4>1. rank[entry[t]] # rank[obj[t]]
        BY <1>0, <1>8, <3>1, <3>2, HeldLinked DEF Ranked
      <4>2. rank[entry[t]] \in Nat /\ rank[obj[t]] \in Nat
        BY <1>0, <3>1, HeldLinked, Live
      <4> QED BY <3>1, <4>1, <4>2
    <3>4. Follows(rank, entry[t], flink[entry[t]]) /\ On(entry[t]) = drive[entry[t]]
      BY <1>0, <1>8, <3>1, HeldLinked, Live DEF Ranked
    <3>5. flink[entry[t]] \in Fwd /\ rank[flink[entry[t]]] <= rank[obj[t]]
      BY <3>1, <3>3, <3>4 DEF Follows
    <3>6. drive[flink[entry[t]]] = On(flink[entry[t]])
      BY <1>0, <3>5, HeldLinked, Live
    <3> QED BY <1>6, <3>1, <3>4, <3>5, <3>6
  <2> QED BY <1>0, <1>2, <1>3, <1>8, <2>1 DEF RankedAt, Linking
<1> QED BY <1>0, <1>2, <1>3, <1>4, <1>7, <1>8, StillKeeps

LEMMA WalkFindsKeepsLists ==
  ASSUME ListInv, HandlesInv', NEW t \in Threads, WalkFinds(t)
  PROVE  ListInv'
<1>0. /\ pc[t] = "walk" /\ Sought(t) /\ UNCHANGED <<heap, links>> /\ HandlesInv /\ TypeOK
  BY WalkFacts DEF WalkFinds
<1>1. CASE op[t] # "close"
  <2>1. ~AwayF(t) /\ ~AwayB(t) /\ \E v : Return(t, v)
    BY <1>0, <1>1, WalkFacts DEF WalkFinds
  <2> QED BY <1>0, <2>1, ReturnKeepsLists
<1>2. CASE op[t] = "close"
  <2>1. Seeking(t)
    <3>1. entry[t] = obj[t] /\ obj[t] \notin Drives
      BY <1>0, <1>2, WalkFacts, Names DEF Sought
    <3> QED BY <1>0, <1>2, <3>1, WalkFacts
  <2>2. /\ Same(t) /\ pc'[t] = "unlinkPrev" /\ op'[t] = "close" /\ obj'[t] = obj[t] /\ dev'[t] = dev[t]
        /\ next'[t] = flink[obj[t]] /\ prev'[t] = blink[obj[t]] /\ UNCHANGED <<live, drive, flink, blink>>
    BY <1>0, <1>2 DEF WalkFinds, Goto, Same, TypeOK, heap, links
  <2>3. /\ ~AwayF(t)' /\ ~AwayB(t)' /\ ~Seeking(t)' /\ ~Gone(t)' /\ ~HasHandle(t)'
        /\ ~AwayF(t) /\ ~AwayB(t) /\ pc'[t] \notin Linking
    BY <1>0, <2>1, <2>2, WalkFacts DEF AwayF, AwayB, Seeking, Gone, HasHandle, Linking
  <2>4. Writer(t)'
    BY <1>2, <2>2, <2>3 DEF Writer, ListInv
  <2>5. Place(t)'
    BY <2>2, <2>3 DEF Place
  <2>6. ASSUME NEW rank PROVE RankedAt(rank, t)'
    BY <2>2, <2>3 DEF RankedAt
  <2> QED BY <1>0, <2>2, <2>3, <2>4, <2>5, <2>6, StillKeeps
<1> QED BY <1>1, <1>2

LEMMA WalkEndsKeepsLists ==
  ASSUME ListInv, HandlesInv', NEW t \in Threads, WalkEnds(t)
  PROVE  ListInv'
<1>0. /\ pc[t] = "walk" /\ AtEnd(t) /\ UNCHANGED <<heap, links>> /\ HandlesInv /\ TypeOK
  BY WalkFacts DEF WalkEnds, AtEnd
<1>1. ASSUME NEW v, Return(t, v), op[t] # "close" PROVE ListInv'
  <2>1. ~AwayF(t) /\ ~AwayB(t)
    BY <1>0, <1>1, WalkFacts
  <2> QED BY <1>0, <1>1, <2>1, ReturnKeepsLists
<1>2. CASE op[t] = "close" /\ Goto(t, "free") /\ UNCHANGED locals
  <2>1. Gone(t)
    <3>1. entry[t] \in Drives
      BY <1>0, <1>2, WalkFacts DEF AtEnd, ListOf
    <3>2. entry[t] \notin Fwd
      BY <1>0, <3>1, HeldLinked, Live
    <3>3. ~Seeking(t)
      BY <3>2 DEF ListInv, Ranked, RankedAt
    <3> QED BY <1>0, <1>2, <3>3, WalkFacts
  <2>2. /\ Same(t) /\ pc'[t] = "free" /\ UNCHANGED <<op, obj, dev, next, prev, entry>>
        /\ UNCHANGED <<live, drive, flink, blink>>
    BY <1>0, <1>2 DEF Goto, Same, TypeOK, heap, links, locals
  <2>3. /\ AwayF(t)' /\ AwayB(t)' /\ ~Seeking(t)' /\ ~HasHandle(t)' /\ pc'[t] \notin Linking
        /\ AwayF(t) /\ AwayB(t)
    BY <1>0, <2>1, <2>2, WalkFacts DEF AwayF, AwayB, Seeking, Gone, HasHandle, Linking
  <2>4. Writer(t)'
    BY <1>2, <2>2, <2>3 DEF Writer, ListInv
  <2>5. Place(t)'
    BY <2>2, <2>3 DEF Place
  <2>6. ASSUME NEW rank PROVE RankedAt(rank, t)'
    BY <2>2, <2>3 DEF RankedAt
  <2> QED BY <1>0, <2>2, <2>3, <2>4, <2>5, <2>6, StillKeeps
<1>3. CASE /\ op[t] = "find" /\ After(dev[t]) # {}
           /\ dev' = [dev EXCEPT ![t] = Min(After(dev[t]))]
           /\ StepTo(t, flink[Min(After(dev[t]))])
  <2> DEFINE d == Min(After(dev[t]))
  <2>0. d \in Drives /\ MayAsk[t] = Drives
    BY <1>3, FirstDrives DEF ListInv, Writer
  <2>1. /\ Same(t) /\ UNCHANGED <<pc, op, obj, next, prev>> /\ dev'[t] = d /\ entry'[t] = flink[d]
        /\ UNCHANGED <<live, drive, flink, blink>>
    BY <1>0, <1>3 DEF StepTo, Same, TypeOK, heap, links
  <2> HIDE DEF d
  <2>2. /\ ~AwayF(t)' /\ ~AwayB(t)' /\ ~Seeking(t)' /\ ~Gone(t)' /\ ~HasHandle(t)'
        /\ ~AwayF(t) /\ ~AwayB(t) /\ pc'[t] \notin Linking
    BY <1>0, <1>3, <2>1, WalkFacts DEF AwayF, AwayB, Seeking, Gone, HasHandle, Linking
  <2>3. Writer(t)'
    BY <1>3, <2>1, <2>2 DEF Writer, ListInv
  <2>4. Fwd' = Fwd => Place(t)'
    <3>1. PICK rank : Ranked(rank)
      BY DEF ListInv
    <3>2. flink[d] \in Fwd \cup Drives /\ On(flink[d]) = d
      BY <1>0, <2>0, <3>1, NextIn, Live
    <3> QED BY <1>0, <2>0, <2>1, <2>2, <3>2 DEF Place, On
  <2>5. ASSUME NEW rank PROVE RankedAt(rank, t)'
    BY <1>0, <2>1, <2>2 DEF RankedAt
  <2> QED BY <1>0, <2>1, <2>2, <2>3, <2>4, <2>5, StillKeeps
<1> QED BY <1>1, <1>2, <1>3 DEF WalkEnds

----------------------------------------------------------------------------
(* A step of t on the list it changes: which objects are linked after it.  *)
LEMMA AwayChanges ==
  ASSUME Apart, ListInv, NEW t \in Threads, HasObject(t), Same(t),
         live' = live \/ live' = live \ {obj[t]},
         AwayF(t)' \/ AwayB(t)' => obj'[t] = obj[t]
  PROVE  /\ \A p \in live : p # obj[t] => (p \in Fwd' <=> p \in Fwd) /\ (p \in Back' <=> p \in Back)
         /\ obj[t] \in live' => (obj[t] \in Fwd' <=> ~AwayF(t)') /\ (obj[t] \in Back' <=> ~AwayB(t)')
         /\ Fwd' \subseteq live' /\ Back' \subseteq live' /\ live' \subseteq live
<1>1. \A u \in Threads : u # t =>
        (AwayF(u)' <=> AwayF(u)) /\ (AwayB(u)' <=> AwayB(u)) /\ obj'[u] = obj[u]
  BY SameThreads DEF Same
<1>2. \A u \in Threads : u # t /\ (AwayF(u) \/ AwayB(u)) => obj[u] # obj[t]
  BY AwayHas, Alone DEF ListInv
<1>3. \A p \in live : p # obj[t] => (p \in Fwd' <=> p \in Fwd) /\ (p \in Back' <=> p \in Back)
  BY <1>1 DEF Fwd, Back
<1>4. obj[t] \in live' => (obj[t] \in Fwd' <=> ~AwayF(t)') /\ (obj[t] \in Back' <=> ~AwayB(t)')
  BY <1>1, <1>2 DEF Fwd, Back
<1>5. Fwd' \subseteq live' /\ Back' \subseteq live'
  BY DEF Fwd, Back
<1> QED BY <1>3, <1>4, <1>5

(* ... and what it leaves as it was: the other lists, and the threads at   *)
(* work on them.                                                           *)
LEMMA ElsewhereKept ==
  ASSUME Apart, ListInv, HandlesInv', NEW t \in Threads, HasObject(t), Same(t), UNCHANGED drive,
         live' = live \/ live' = live \ {obj[t]},
         AwayF(t)' \/ AwayB(t)' => obj'[t] = obj[t],
         obj[t] \in Fwd => obj[t] \in Fwd' \/ drive[obj[t]] \in MayClose[t],
         \A n \in live \cup Drives : On(n) # drive[obj[t]] => flink'[n] = flink[n] /\ blink'[n] = blink[n],
         pc'[t] # "undefined", Writer(t)', Place(t)',
         NEW rank \in [Objs -> Nat], Ranked(rank), RankedAt(rank, t)',
         \A n \in Fwd' \cup Drives : On(n) = drive[obj[t]] => Follows(rank, n, flink[n])',
         \A n \in Back' \cup Drives : On(n) = drive[obj[t]] => Precedes(rank, n, blink[n])'
  PROVE  ListInv'
<1> DEFINE D == drive[obj[t]]
<1>0. HandlesInv /\ D \in Drives /\ \A n : On(n)' = On(n)
  BY AwayHas DEF ListInv, On
<1>1. /\ \A p \in live : p # obj[t] => (p \in Fwd' <=> p \in Fwd) /\ (p \in Back' <=> p \in Back)
      /\ Fwd' \subseteq live /\ Back' \subseteq live /\ live' \subseteq live
      /\ Fwd \subseteq live /\ Back \subseteq live
  BY <1>0, AwayChanges, HeldLinked
<1>2. \A p \in live : /\ drive[p] # D => (p \in Fwd' <=> p \in Fwd) /\ (p \in Back' <=> p \in Back)
                      /\ On(p) = drive[p]
  BY <1>0, <1>1, Live
<1>3. ASSUME NEW n \in live \cup Drives, NEW m, On(n) # D PROVE
        /\ Follows(rank, n, m) => Follows(rank, n, m)'
        /\ Precedes(rank, n, m) => Precedes(rank, n, m)'
  <2>1. On(n) \in Drives /\ On(n) \notin live
    BY <1>0, <1>3, Live
  <2>2. Follows(rank, n, m) => Follows(rank, n, m)'
    BY <1>0, <1>1, <1>2, <1>3, <2>1 DEF Follows
  <2>3. Precedes(rank, n, m) => Precedes(rank, n, m)'
    BY <1>0, <1>1, <1>2, <1>3, <2>1 DEF Precedes
  <2> QED BY <2>2, <2>3
<1>5. ASSUME NEW u \in Threads, u # t, HasObject(u)
      PROVE  /\ drive[obj[u]] # D /\ obj[u] \in live /\ On(obj[u]) = drive[obj[u]] /\ drive[obj[u]] \in Drives
             /\ flink'[obj[u]] = flink[obj[u]] /\ blink'[obj[u]] = blink[obj[u]]
             /\ blink'[drive[obj[u]]] = blink[drive[obj[u]]]
  <2>1. drive[obj[u]] # D /\ obj[u] \in live /\ drive[obj[u]] \in Drives
    BY <1>0, <1>5, Alone, AwayHas DEF ListInv
  <2> QED BY <1>0, <2>1, Live
<1>6. ASSUME NEW u \in Threads, u # t PROVE Writer(u)'
  BY <1>6, SameThreads DEF Same, Writer, ListInv
<1>7. ASSUME NEW u \in Threads, u # t PROVE Place(u)'
  <2>0. Place(u) /\ Writer(u)
    BY DEF ListInv
  <2>1. pc'[u] \in Linking => HasObject(u) /\ dev[u] = drive[obj[u]]
    BY <1>7, <2>0 DEF Same, HasObject, Writer
  <2>2. ASSUME pc'[u] \in Linking
        PROVE  blink'[obj'[u]] = blink'[dev'[u]]
                 /\ (pc'[u] = "linkPrev" => flink'[obj'[u]] = dev'[u] /\ prev'[u] = blink'[dev'[u]])
    BY <1>5, <1>7, <2>0, <2>1, <2>2 DEF Same, Place
  <2>3. ASSUME pc'[u] \in {"unlinkPrev", "unlinkNext"}
        PROVE  next'[u] = flink'[obj'[u]] /\ prev'[u] = blink'[obj'[u]]
    <3>1. HasObject(u)
      BY <1>0, <1>7, <2>3, AwayHas DEF Same, Unlinking
    <3> QED BY <1>5, <1>7, <2>0, <2>3, <3>1 DEF Same, Place
  <2>4. ASSUME pc'[u] = "walk", op'[u] # "close"
        PROVE  entry'[u] \in Fwd' \cup Drives /\ On(entry'[u]) = dev'[u] /\ dev'[u] \in MayAsk[u]
    <3>1. entry[u] \in Fwd \cup Drives /\ On(entry[u]) = dev[u] /\ dev[u] \in MayAsk[u]
      BY <1>7, <2>0, <2>4 DEF Same, Place
    <3>2. CASE entry[u] = obj[t] /\ entry[u] \in Fwd
      <4>1. On(entry[u]) = D
        BY <1>1, <1>2, <3>2
      <4>2. D \notin MayClose[t]
        BY <1>7, <3>1, <4>1 DEF Apart
      <4> QED BY <1>7, <3>1, <3>2, <4>2 DEF Same
    <3>3. CASE ~(entry[u] = obj[t] /\ entry[u] \in Fwd)
      BY <1>1, <1>7, <3>1, <3>3 DEF Same
    <3> QED BY <3>2, <3>3
  <2>5. ASSUME pc'[u] = "walk", Gone(u)'
        PROVE  entry'[u] \in Fwd' \cup Drives /\ On(entry'[u]) = drive'[obj'[u]]
    <3>1. /\ Gone(u) /\ HasObject(u) /\ entry[u] \in Fwd \cup Drives /\ On(entry[u]) = drive[obj[u]]
          /\ entry'[u] = entry[u] /\ obj'[u] = obj[u]
      BY <1>0, <1>7, <2>0, <2>5, AwayHas, SameThreads DEF Same, Place, AwayF
    <3>2. On(entry[u]) # D
      BY <1>5, <1>7, <3>1
    <3> QED BY <1>1, <1>2, <3>1, <3>2
  <2> QED BY <1>0, <2>2, <2>3, <2>4, <2>5 DEF Place, Linking, On
<1>8. ASSUME NEW u \in Threads, u # t PROVE RankedAt(rank, u)'
  <2>0. RankedAt(rank, u) /\ Writer(u)
    BY DEF Ranked, ListInv
  <2>1. ASSUME pc'[u] \in Linking
        PROVE  \A p \in live' : p # obj'[u] /\ drive'[p] = dev'[u] => rank[p] < rank[obj'[u]]
    BY <1>1, <1>8, <2>0, <2>1 DEF Same, RankedAt
  <2>2. ASSUME pc'[u] = "unlinkNext" PROVE Follows(rank, obj[u], flink[obj[u]])'
    <3>1. HasObject(u) /\ Follows(rank, obj[u], flink[obj[u]]) /\ obj'[u] = obj[u]
      BY <1>0, <1>8, <2>0, <2>2, AwayHas DEF Same, RankedAt, Unlinking
    <3>2. On(obj[u]) # D /\ flink'[obj[u]] = flink[obj[u]] /\ obj[u] \in live
      BY <1>5, <1>8, <3>1
    <3>3. PICK n \in live \cup Drives : n = obj[u] /\ n = obj'[u] /\ On(n) # D
      BY <3>1, <3>2
    <3>4. PICK m : m = flink[n] /\ m = flink'[n]
      BY <3>2, <3>3
    <3>5. Follows(rank, n, m) => Follows(rank, n, m)'
      BY <1>3, <3>3
    <3> QED BY <3>1, <3>3, <3>4, <3>5 DEF Follows, On
  <2>3. ASSUME Seeking(u)'
        PROVE  entry'[u] \in Fwd' /\ drive'[entry'[u]] = drive'[obj'[u]] /\ rank[entry'[u]] <= rank[obj'[u]]
    <3>1. /\ Seeking(u) /\ HasObject(u) /\ entry'[u] = entry[u] /\ obj'[u] = obj[u]
          /\ entry[u] \in Fwd /\ drive[entry[u]] = drive[obj[u]] /\ rank[entry[u]] <= rank[obj[u]]
      BY <1>0, <1>8, <2>0, <2>3, AwayHas, SameThreads DEF Same, RankedAt
    <3> QED BY <1>1, <1>2, <1>5, <1>8, <3>1
  <2> QED BY <2>1, <2>2, <2>3 DEF RankedAt
<1>9. \A n \in (Fwd' \cup Drives) : On(n) # D => Follows(rank, n, flink[n])'
  <2>1. ASSUME NEW n \in Fwd' \cup Drives, On(n) # D PROVE Follows(rank, n, flink[n])'
    <3>1. n \in Fwd \cup Drives /\ n \in live \cup Drives
      BY <1>1, <1>2, <2>1
    <3>2. Follows(rank, n, flink[n]) /\ flink'[n] = flink[n]
      BY <2>1, <3>1 DEF Ranked
    <3>3. Follows(rank, n, flink[n]) => Follows(rank, n, flink[n])'
      BY <1>3, <2>1, <3>1, <3>2 DEF Follows, On
    <3> QED BY <3>2, <3>3
  <2> QED BY <2>1
<1>10. \A n \in (Back' \cup Drives) : On(n) # D => Precedes(rank, n, blink[n])'
  <2>1. ASSUME NEW n \in Back' \cup Drives, On(n) # D PROVE Precedes(rank, n, blink[n])'
    <3>1. n \in Back \cup Drives /\ n \in live \cup Drives
      BY <1>1, <1>2, <2>1
    <3>2. Precedes(rank, n, blink[n]) /\ blink'[n] = blink[n]
      BY <2>1, <3>1 DEF Ranked
    <3>3. Precedes(rank, n, blink[n]) => Precedes(rank, n, blink[n])'
      BY <1>3, <2>1, <3>1, <3>2 DEF Precedes, On
    <3> QED BY <3>2, <3>3
  <2> QED BY <2>1
<1>11. Ranked(rank)'
  <2>1. \A u \in Threads : RankedAt(rank, u)'
    BY <1>8
  <2>2. \A o, p \in live' : rank[o] = rank[p] => o = p
    BY <1>1 DEF Ranked
  <2>3. \E top \in Nat : \A o \in Objs : rank[o] < top
    BY DEF Ranked
  <2> QED BY <1>9, <1>10, <2>1, <2>2, <2>3 DEF Ranked
<1>12. NoUndefined'
  BY DEF NoUndefined, Same, ListInv
<1> QED BY <1>6, <1>7, <1>11, <1>12 DEF ListInv

----------------------------------------------------------------------------
(* The stores.  What the thread that changes a list knows of it.           *)
LEMMA OwnList ==
  ASSUME Apart, ListInv, NEW t \in Threads, HasObject(t), NEW rank \in [Objs -> Nat], Ranked(rank)
  PROVE  /\ HandlesInv /\ TypeOK /\ Writer(t) /\ Place(t) /\ RankedAt(rank, t)
         /\ obj[t] \in live /\ obj[t] \notin Drives /\ drive[obj[t]] \in Drives
         /\ obj[t] \in Fwd <=> ~AwayF(t)
         /\ obj[t] \in Back <=> ~AwayB(t)
         /\ \A p \in live : p # obj[t] /\ drive[p] = drive[obj[t]] => p \in Fwd /\ p \in Back
         /\ Fwd \subseteq live /\ Back \subseteq live
         /\ \A p \in live : rank[p] \in Nat /\ p \notin Drives /\ On(p) = drive[p]
         /\ \A d \in Drives : On(d) = d
         /\ \A p, q \in live : rank[p] = rank[q] => p = q
         /\ live \subseteq Node /\ Drives \subseteq Node
<1>1. HandlesInv /\ TypeOK /\ \A u \in Threads : Writer(u) /\ Place(u)
  BY DEF ListInv, HandlesInv
<1>2. \A p \in live : rank[p] \in Nat /\ p \notin Drives /\ On(p) = drive[p]
  BY <1>1, Live
<1>3. \A p, q \in live : rank[p] = rank[q] => p = q
  BY DEF Ranked
<1>4. RankedAt(rank, t)
  BY DEF Ranked
<1>5. obj[t] \in live /\ drive[obj[t]] \in Drives
  BY <1>1, AwayHas
<1>6. /\ obj[t] \in Fwd <=> ~AwayF(t)
      /\ obj[t] \in Back <=> ~AwayB(t)
      /\ \A p \in live : p # obj[t] /\ drive[p] = drive[obj[t]] => p \in Fwd /\ p \in Back
  BY <1>1, Whole
<1>7. Fwd \subseteq live /\ Back \subseteq live
  BY DEF Fwd, Back
<1>8. /\ \A d \in Drives : On(d) = d
      /\ live \subseteq Node /\ Drives \subseteq Node
  BY <1>1, Live
<1> QED BY <1>1, <1>2, <1>3, <1>4, <1>5, <1>6, <1>7, <1>8

LEMMA FwdKept ==
  ASSUME NEW rank, NEW n, NEW m, UNCHANGED drive, Fwd' = Fwd, Follows(rank, n, m)
  PROVE  Follows(rank, n, m)'
BY DEF Follows, On

LEMMA BackKept ==
  ASSUME NEW rank, NEW n, NEW m, UNCHANGED drive, Back' = Back, Precedes(rank, n, m)
  PROVE  Precedes(rank, n, m)'
BY DEF Precedes, On

(* ... and so of the order when a list's links stay as they are.           *)
LEMMA LinksKept ==
  ASSUME NEW rank, Ranked(rank), UNCHANGED drive
  PROVE  /\ Fwd' = Fwd /\ flink' = flink => \A n \in Fwd' \cup Drives : Follows(rank, n, flink[n])'
         /\ Back' = Back /\ blink' = blink => \A n \in Back' \cup Drives : Precedes(rank, n, blink[n])'
<1>1. ASSUME Fwd' = Fwd, flink' = flink, NEW n \in Fwd' \cup Drives PROVE Follows(rank, n, flink[n])'
  <2>1. Follows(rank, n, flink[n])
    BY <1>1 DEF Ranked
  <2> QED BY <1>1, <2>1 DEF Follows, On
<1>2. ASSUME Back' = Back, blink' = blink, NEW n \in Back' \cup Drives PROVE Precedes(rank, n, blink[n])'
  <2>1. Precedes(rank, n, blink[n])
    BY <1>2 DEF Ranked
  <2> QED BY <1>2, <2>1 DEF Precedes, On
<1> QED BY <1>1, <1>2

LEMMA FreeKeepsLists ==
  ASSUME Apart, ListInv, HandlesInv', NEW t \in Threads, Free(t)
  PROVE  ListInv'
<1>1. HasObject(t) /\ AwayF(t) /\ AwayB(t) /\ HandlesInv /\ TypeOK /\ pc[t] = "free"
  BY AwayHas DEF Free, AwayF, AwayB, Gone, ListInv, HandlesInv
<1>2. PICK rank \in [Objs -> Nat] : Ranked(rank)
  BY DEF ListInv
<1>3. /\ live' = live \ {obj[t]} /\ UNCHANGED <<drive, flink, blink>>
      /\ \E v : Return(t, v)
  BY DEF Free, links
<1>4. Same(t) /\ pc'[t] = "idle" /\ op'[t] = "open" /\ next'[t] = Null
  BY <1>1, <1>3, ReturnOff
<1>5. /\ ~AwayF(t)' /\ ~AwayB(t)' /\ Writer(t)' /\ Place(t)' /\ RankedAt(rank, t)'
  BY <1>4 DEF AwayF, AwayB, Gone, Seeking, Linking, HasHandle, Writer, Place, RankedAt
<1>6. obj[t] \notin Fwd /\ obj[t] \notin Back /\ Fwd \subseteq live /\ Back \subseteq live
  BY <1>1, <1>2, OwnList
<1>7. /\ \A p \in live : p # obj[t] => (p \in Fwd' <=> p \in Fwd) /\ (p \in Back' <=> p \in Back)
      /\ Fwd' \subseteq live' /\ Back' \subseteq live' /\ live' \subseteq live
  BY <1>1, <1>3, <1>4, <1>5, AwayChanges
<1>8. Fwd' = Fwd /\ Back' = Back
  BY <1>3, <1>6, <1>7
<1>9. /\ \A n \in Fwd' \cup Drives : Follows(rank, n, flink[n])'
      /\ \A n \in Back' \cup Drives : Precedes(rank, n, blink[n])'
  BY <1>2, <1>3, <1>8, LinksKept
<1>10. \A n \in live \cup Drives : flink'[n] = flink[n] /\ blink'[n] = blink[n]
  BY <1>3
<1> QED BY <1>1, <1>2, <1>3, <1>4, <1>5, <1>6, <1>9, <1>10, ElsewhereKept

(* Blink->Flink = Entry: the last of the list, in the order of opening.    *)
LEMMA LinkPrevKeepsLists ==
  ASSUME Apart, ListInv, HandlesInv', NEW t \in Threads, LinkPrev(t)
  PROVE  ListInv'
<1> DEFINE o == obj[t]
           D == drive[o]
           q == blink[D]
<1>1. /\ HasObject(t) /\ HasHandle(t) /\ AwayF(t) /\ AwayB(t) /\ pc[t] = "linkPrev"
      /\ pc[t] \in Linking /\ HandlesInv /\ TypeOK
  BY DEF LinkPrev, HasObject, HasHandle, Linking, AwayF, AwayB, ListInv, HandlesInv
<1>2. PICK rank \in [Objs -> Nat] : Ranked(rank)
  BY DEF ListInv
<1>3. /\ Writer(t) /\ Place(t) /\ RankedAt(rank, t)
      /\ o \in live /\ o \notin Drives /\ D \in Drives
      /\ o \notin Fwd /\ o \notin Back
      /\ \A p \in live : p # o /\ drive[p] = D => p \in Fwd /\ p \in Back
      /\ Fwd \subseteq live /\ Back \subseteq live
      /\ \A p \in live : rank[p] \in Nat /\ p \notin Drives /\ On(p) = drive[p]
      /\ \A d \in Drives : On(d) = d
      /\ \A p, r \in live : rank[p] = rank[r] => p = r
      /\ live \subseteq Node /\ Drives \subseteq Node
  BY <1>1, <1>2, OwnList
<1>4. dev[t] = D /\ flink[o] = D /\ prev[t] = q
  BY <1>1, <1>3 DEF Writer, Place
<1>5. q \in Back \cup Drives /\ On(q) = D /\ q # o
  BY <1>1, <1>2, <1>3, PrevIn
<1>6. Readable(prev[t])
  BY <1>3, <1>4, <1>5 DEF Readable
<1>7. /\ flink' = [flink EXCEPT ![q] = o] /\ Goto(t, "linkHead")
      /\ UNCHANGED <<live, drive, blink, op, obj, dev, entry, next, prev>>
  BY <1>4, <1>6 DEF LinkPrev, heap, locals
<1>8. flink'[q] = o /\ \A n \in live \cup Drives : n # q => flink'[n] = flink[n]
  BY <1>1, <1>3, <1>5, <1>7 DEF TypeOK
<1>9. Same(t) /\ pc'[t] = "linkHead" /\ obj'[t] = o /\ dev'[t] = D /\ op'[t] = op[t] /\ next'[t] = next[t]
  BY <1>1, <1>4, <1>7 DEF Goto, Same, TypeOK
<1>10. ~AwayF(t)' /\ AwayB(t)' /\ ~Seeking(t)' /\ pc'[t] \in Linking
  BY <1>9 DEF AwayF, AwayB, Gone, Seeking, Linking
<1>11. Fwd' = Fwd \cup {o} /\ Back' = Back
  <2>1. /\ \A p \in live : p # o => (p \in Fwd' <=> p \in Fwd) /\ (p \in Back' <=> p \in Back)
        /\ o \in live' => (o \in Fwd' <=> ~AwayF(t)') /\ (o \in Back' <=> ~AwayB(t)')
        /\ Fwd' \subseteq live' /\ Back' \subseteq live'
    BY <1>1, <1>7, <1>9, AwayChanges
  <2>2. o \in Fwd' /\ o \notin Back'
    BY <1>3, <1>7, <1>10, <2>1
  <2>3. \A p : p \in Fwd' <=> p \in Fwd \/ p = o
    BY <1>3, <1>7, <2>1, <2>2
  <2>4. \A p : p \in Back' <=> p \in Back
    BY <1>3, <1>7, <2>1, <2>2
  <2> QED BY <2>3, <2>4
<1>12. HasHandle(t)' /\ Writer(t)'
  BY <1>1, <1>3, <1>4, <1>7, <1>9, <1>10 DEF Writer, HasHandle
<1>13. Place(t)'
  BY <1>1, <1>3, <1>4, <1>7, <1>9, <1>10 DEF Place, Gone, Linking
<1>14. RankedAt(rank, t)'
  BY <1>1, <1>4, <1>7, <1>9, <1>10, <1>3 DEF RankedAt
<1>15. \A p \in live : p # o /\ drive[p] = D => rank[p] < rank[o]
  BY <1>1, <1>3, <1>4 DEF RankedAt
<1>16. Precedes(rank, D, q)
  BY <1>2, <1>3 DEF Ranked
<1>17. \A p \in Back : drive[p] = D => q \in Back /\ rank[p] <= rank[q]
  BY <1>3, <1>16 DEF Precedes
<1> HIDE DEF o, D, q
<1>20. ASSUME NEW n \in Fwd' \cup Drives, On(n) = D PROVE Follows(rank, n, flink[n])'
  <2>1. CASE n = q
    <3>1. q \in Drives \/ rank[q] < rank[o]
      BY <1>3, <1>5, <1>15
    <3>2. ASSUME NEW p \in Fwd', drive[p] = D, q \in Drives \/ rank[q] < rank[p] PROVE p = o
      <4>1. CASE p # o
        <5>1. p \in live /\ p \in Back
          BY <1>3, <1>11, <3>2, <4>1
        <5>2. q \in Back /\ rank[p] <= rank[q]
          BY <1>17, <3>2, <5>1
        <5> QED BY <1>3, <3>2, <5>1, <5>2
      <4> QED BY <4>1
    <3>3. rank[o] <= rank[o] /\ o \in Fwd' /\ drive[o] = D
      BY <1>3, <1>11 DEF D
    <3> QED BY <1>5, <1>7, <1>8, <2>1, <3>1, <3>2, <3>3 DEF Follows, On
  <2>2. CASE n = o
    <3>1. flink'[o] = D
      BY <1>3, <1>4, <1>5, <1>8
    <3>2. \A p \in Fwd' : drive[p] = D => ~(rank[o] < rank[p])
      <4>1. ASSUME NEW p \in Fwd', drive[p] = D PROVE ~(rank[o] < rank[p])
        <5>1. p \in live /\ rank[p] \in Nat /\ rank[o] \in Nat
          BY <1>3, <1>11
        <5>2. p = o \/ rank[p] < rank[o]
          BY <1>15, <4>1, <5>1
        <5> QED BY <5>1, <5>2
      <4> QED BY <4>1
    <3> QED BY <1>3, <1>7, <1>20, <2>2, <3>1, <3>2 DEF Follows, On
  <2>3. CASE n # q /\ n # o
    <3>1. n \in Fwd \cup Drives /\ flink'[n] = flink[n]
      BY <1>3, <1>8, <1>11, <2>3
    <3>2. Follows(rank, n, flink[n])
      BY <1>2, <3>1 DEF Ranked
    <3>3. q \in Fwd /\ drive[q] = D /\ (n \in Drives \/ rank[n] < rank[q])
      <4>1. CASE n \in Drives
        <5>1. n = D
          BY <1>3, <1>20, <4>1
        <5>2. q \in Back /\ drive[q] = D
          BY <1>3, <1>5, <2>3, <5>1
        <5> QED BY <1>3, <1>5, <4>1, <5>2
      <4>2. CASE n \notin Drives
        <5>1. n \in live /\ n \in Back /\ drive[n] = D
          BY <1>3, <1>20, <2>3, <3>1, <4>2
        <5>2. q \in Back /\ rank[n] <= rank[q] /\ rank[n] # rank[q]
          BY <1>3, <1>17, <2>3, <5>1
        <5>3. q \in live /\ drive[q] = D /\ q \in Fwd
          BY <1>3, <1>5, <5>2
        <5> QED BY <1>3, <5>1, <5>2, <5>3
      <4> QED BY <4>1, <4>2
    <3>4. flink[n] \in Fwd /\ drive[flink[n]] = D
      BY <1>3, <1>20, <3>2, <3>3 DEF Follows
    <3>5. rank[flink[n]] < rank[o]
      BY <1>3, <1>15, <3>4
    <3>6. rank[flink[n]] <= rank[o]
      BY <1>3, <3>4, <3>5
    <3>7. n \in Drives \/ rank[n] < rank[flink[n]]
      BY <1>3, <1>20, <3>2, <3>4 DEF Follows
    <3>8. \A p \in Fwd' : drive[p] = D /\ (n \in Drives \/ rank[n] < rank[p]) => rank[flink[n]] <= rank[p]
      BY <1>11, <1>20, <3>2, <3>6 DEF Follows
    <3> QED BY <1>7, <1>11, <1>20, <3>1, <3>4, <3>7, <3>8 DEF Follows, On
  <2> QED BY <2>1, <2>2, <2>3
<1>21. \A n \in Back' \cup Drives : Precedes(rank, n, blink[n])'
  BY <1>2, <1>7, <1>11, LinksKept
<1>22. \A n \in live \cup Drives : On(n) # D => flink'[n] = flink[n] /\ blink'[n] = blink[n]
  BY <1>5, <1>7, <1>8
<1> QED BY <1>1, <1>2, <1>3, <1>7, <1>9, <1>11, <1>12, <1>13, <1>14, <1>20, <1>21, <1>22, ElsewhereKept DEF o, D

(* ListHead->Blink = Entry: no object of the list was opened later.        *)
LEMMA LinkHeadKeepsLists ==
  ASSUME Apart, ListInv, HandlesInv', NEW t \in Threads, LinkHead(t)
  PROVE  ListInv'
<1> DEFINE o == obj[t]
           D == drive[o]
           q == blink[D]
<1>1. /\ HasObject(t) /\ HasHandle(t) /\ ~AwayF(t) /\ AwayB(t) /\ pc[t] = "linkHead"
      /\ pc[t] \in Linking /\ HandlesInv /\ TypeOK
  BY DEF LinkHead, HasObject, HasHandle, Linking, AwayF, AwayB, Gone, ListInv, HandlesInv
<1>2. PICK rank \in [Objs -> Nat] : Ranked(rank)
  BY DEF ListInv
<1>3. /\ Writer(t) /\ Place(t) /\ RankedAt(rank, t)
      /\ o \in live /\ o \notin Drives /\ D \in Drives
      /\ o \in Fwd /\ o \notin Back
      /\ \A p \in live : p # o /\ drive[p] = D => p \in Fwd /\ p \in Back
      /\ Fwd \subseteq live /\ Back \subseteq live
      /\ \A p \in live : rank[p] \in Nat /\ p \notin Drives /\ On(p) = drive[p]
      /\ \A d \in Drives : On(d) = d
      /\ \A p, r \in live : rank[p] = rank[r] => p = r
      /\ live \subseteq Node /\ Drives \subseteq Node
  BY <1>1, <1>2, OwnList
<1>4. dev[t] = D /\ blink[o] = q
  BY <1>1, <1>3 DEF Writer, Place
<1>5. Precedes(rank, D, q) /\ (q = D \/ (q \in Back /\ drive[q] = D))
  <2>1. Precedes(rank, D, q)
    BY <1>2, <1>3 DEF Ranked
  <2> QED BY <1>3, <2>1 DEF Precedes
<1>7. /\ blink' = [blink EXCEPT ![D] = o] /\ Return(t, o) /\ UNCHANGED <<live, drive, flink>>
  BY <1>4 DEF LinkHead, heap
<1>8. blink'[D] = o /\ \A n \in live \cup Drives : n # D => blink'[n] = blink[n]
  BY <1>1, <1>3, <1>7 DEF TypeOK
<1>9. Same(t) /\ pc'[t] = "idle" /\ op'[t] = "open" /\ next'[t] = Null
  BY <1>1, <1>7, ReturnOff
<1>10. ~AwayF(t)' /\ ~AwayB(t)'
  BY <1>9 DEF AwayF, AwayB, Gone, Linking
<1>11. Fwd' = Fwd /\ Back' = Back \cup {o}
  <2>1. /\ \A p \in live : p # o => (p \in Fwd' <=> p \in Fwd) /\ (p \in Back' <=> p \in Back)
        /\ o \in live' => (o \in Fwd' <=> ~AwayF(t)') /\ (o \in Back' <=> ~AwayB(t)')
        /\ Fwd' \subseteq live' /\ Back' \subseteq live'
    BY <1>1, <1>7, <1>9, <1>10, AwayChanges
  <2>2. o \in Fwd' /\ o \in Back'
    BY <1>3, <1>7, <1>10, <2>1
  <2>3. \A p : p \in Fwd' <=> p \in Fwd
    BY <1>3, <1>7, <2>1, <2>2
  <2>4. \A p : p \in Back' <=> p \in Back \/ p = o
    BY <1>3, <1>7, <2>1, <2>2
  <2> QED BY <2>3, <2>4
<1>12. Writer(t)' /\ Place(t)' /\ RankedAt(rank, t)'
  BY <1>9 DEF Gone, Seeking, Linking, HasHandle, Writer, Place, RankedAt
<1>15. \A p \in live : p # o /\ drive[p] = D => rank[p] < rank[o]
  BY <1>1, <1>3, <1>4 DEF RankedAt
<1> HIDE DEF o, D, q
<1>20. ASSUME NEW n \in Back' \cup Drives, On(n) = D PROVE Precedes(rank, n, blink[n])'
  <2>1. CASE n = D
    <3>1. \A p \in Back' : drive[p] = D => rank[p] <= rank[o]
      <4>1. ASSUME NEW p \in Back', drive[p] = D PROVE rank[p] <= rank[o]
        <5>1. p \in live /\ rank[p] \in Nat /\ rank[o] \in Nat
          BY <1>3, <1>11
        <5> QED BY <1>15, <4>1, <5>1
      <4> QED BY <4>1
    <3>2. o \in Back' /\ drive[o] = D
      BY <1>11 DEF D
    <3> QED BY <1>3, <1>7, <1>8, <1>20, <2>1, <3>1, <3>2 DEF Precedes, On
  <2>2. CASE n = o
    <3>1. blink'[n] = q /\ On(o) = D /\ o \notin Drives
      BY <1>3, <1>4, <1>8, <1>20, <2>2
    <3>2. q = D \/ (q \in Back' /\ drive[q] = D /\ rank[q] < rank[o])
      BY <1>3, <1>5, <1>11, <1>15
    <3>3. ASSUME NEW p \in Back', drive[p] = D, rank[p] < rank[o] PROVE q \in Back' /\ rank[p] <= rank[q]
      <4>1. p \in Back
        BY <1>3, <1>11, <3>3
      <4> QED BY <1>3, <1>5, <1>11, <3>3, <4>1 DEF Precedes
    <3> QED BY <1>7, <2>2, <3>1, <3>2, <3>3 DEF Precedes, On
  <2>3. CASE n # D /\ n # o
    <3>1. n \in Back /\ n \notin Drives /\ blink'[n] = blink[n] /\ drive[n] = D
      BY <1>3, <1>8, <1>11, <1>20, <2>3
    <3>2. Precedes(rank, n, blink[n])
      BY <1>2, <3>1 DEF Ranked
    <3>3. rank[n] < rank[o] /\ rank[n] \in Nat /\ rank[o] \in Nat
      BY <1>3, <1>15, <2>3, <3>1
    <3>4. ~(rank[o] < rank[n])
      BY <3>3
    <3> QED BY <1>7, <1>11, <1>20, <3>1, <3>2, <3>4 DEF Precedes, On
  <2> QED BY <2>1, <2>2, <2>3
<1>21. \A n \in Fwd' \cup Drives : Follows(rank, n, flink[n])'
  BY <1>2, <1>7, <1>11, LinksKept
<1>22. \A n \in live \cup Drives : On(n) # D => flink'[n] = flink[n] /\ blink'[n] = blink[n]
  BY <1>3, <1>7, <1>8
<1>23. pc'[t] # "undefined"
  BY <1>9
<1> QED BY <1>1, <1>2, <1>3, <1>7, <1>9, <1>10, <1>11, <1>12, <1>20, <1>21, <1>22, <1>23, ElsewhereKept DEF o, D

(* Blink->Flink = Flink: traversals pass over the entry from here on.      *)
LEMMA UnlinkPrevKeepsLists ==
  ASSUME Apart, ListInv, HandlesInv', NEW t \in Threads, UnlinkPrev(t)
  PROVE  ListInv'
<1> DEFINE o == obj[t]
           D == drive[o]
           a == flink[o]
           b == blink[o]
<1>1. /\ HasObject(t) /\ ~AwayF(t) /\ ~AwayB(t) /\ pc[t] = "unlinkPrev" /\ op[t] = "close"
      /\ HandlesInv /\ TypeOK
  <2>1. HandlesInv /\ TypeOK /\ pc[t] = "unlinkPrev"
    BY DEF UnlinkPrev, ListInv, HandlesInv
  <2>2. HasObject(t)
    BY <2>1, AwayHas DEF Unlinking
  <2> QED BY <2>1, <2>2 DEF HasObject, Linking, AwayF, AwayB, Gone
<1>2. PICK rank \in [Objs -> Nat] : Ranked(rank)
  BY DEF ListInv
<1>3. /\ Writer(t) /\ Place(t) /\ RankedAt(rank, t)
      /\ o \in live /\ o \notin Drives /\ D \in Drives
      /\ o \in Fwd /\ o \in Back
      /\ \A p \in live : p # o /\ drive[p] = D => p \in Fwd /\ p \in Back
      /\ Fwd \subseteq live /\ Back \subseteq live
      /\ \A p \in live : rank[p] \in Nat /\ p \notin Drives /\ On(p) = drive[p]
      /\ \A d \in Drives : On(d) = d
      /\ \A p, r \in live : rank[p] = rank[r] => p = r
      /\ live \subseteq Node /\ Drives \subseteq Node
  BY <1>1, <1>2, OwnList
<1>4. next[t] = a /\ prev[t] = b
  BY <1>1 DEF Place, ListInv
<1>5. /\ Precedes(rank, o, b) /\ Follows(rank, o, a) /\ b \in Back \cup Drives /\ On(b) = D
      /\ a \in Fwd \cup Drives /\ On(a) = D
  BY <1>1, <1>2, <1>3, PrevIn, NextIn DEF Ranked
<1>6. /\ b = D \/ (b \in Back /\ drive[b] = D /\ rank[b] < rank[o])
      /\ \A p \in Back : drive[p] = D /\ rank[p] < rank[o] => b \in Back /\ rank[p] <= rank[b]
      /\ a = D \/ (a \in Fwd /\ drive[a] = D /\ rank[o] < rank[a])
      /\ \A p \in Fwd : drive[p] = D /\ rank[o] < rank[p] => a \in Fwd /\ rank[a] <= rank[p]
  BY <1>3, <1>5 DEF Precedes, Follows
<1>7. /\ flink' = [flink EXCEPT ![b] = a] /\ Goto(t, "unlinkNext")
      /\ UNCHANGED <<live, drive, blink, op, obj, dev, entry, next, prev>>
  <2>1. Readable(prev[t])
    BY <1>3, <1>4, <1>5 DEF Readable
  <2> QED BY <1>4, <2>1 DEF UnlinkPrev, heap, locals
<1>8. flink'[b] = a /\ \A n \in live \cup Drives : n # b => flink'[n] = flink[n]
  BY <1>1, <1>3, <1>5, <1>7 DEF TypeOK
<1>9. /\ Same(t) /\ pc'[t] = "unlinkNext" /\ obj'[t] = o /\ op'[t] = "close"
      /\ next'[t] = a /\ prev'[t] = b
  BY <1>1, <1>4, <1>7 DEF Goto, Same, TypeOK
<1>10. AwayF(t)' /\ ~AwayB(t)' /\ ~HasHandle(t)' /\ pc'[t] \notin Linking
  BY <1>9 DEF AwayF, AwayB, Gone, HasHandle, Linking
<1>11. Fwd' = Fwd \ {o} /\ Back' = Back
  <2>1. /\ \A p \in live : p # o => (p \in Fwd' <=> p \in Fwd) /\ (p \in Back' <=> p \in Back)
        /\ o \in live' => (o \in Fwd' <=> ~AwayF(t)') /\ (o \in Back' <=> ~AwayB(t)')
        /\ Fwd' \subseteq live' /\ Back' \subseteq live'
    BY <1>1, <1>7, <1>9, <1>10, AwayChanges
  <2>2. o \notin Fwd' /\ o \in Back'
    BY <1>3, <1>7, <1>10, <2>1
  <2>3. \A p : p \in Fwd' <=> p \in Fwd /\ p # o
    BY <1>3, <1>7, <2>1, <2>2
  <2>4. \A p : p \in Back' <=> p \in Back
    BY <1>3, <1>7, <2>1, <2>2
  <2> QED BY <2>3, <2>4
<1>12. Writer(t)' /\ D \in MayClose[t]
  BY <1>1, <1>3, <1>7, <1>9, <1>10 DEF Writer
<1>13. b # o /\ a # o
  BY <1>3, <1>6
<1>14. Place(t)'
  BY <1>3, <1>7, <1>8, <1>9, <1>10, <1>13 DEF Place, Gone
<1> HIDE DEF o, D, a, b
<1>15. RankedAt(rank, t)'
  <2>0. PICK x, y : x = o /\ y = a
    OBVIOUS
  <2>1. Follows(rank, x, y)'
    BY <1>3, <1>5, <1>6, <1>7, <1>11, <1>13, <2>0 DEF Follows, On
  <2>2. obj'[t] = x /\ flink'[obj'[t]] = y
    BY <1>3, <1>8, <1>9, <1>13, <2>0 DEF a
  <2>3. Follows(rank, obj[t], flink[obj[t]])'
    BY <2>1, <2>2 DEF Follows, On
  <2> QED BY <1>9, <1>10, <2>3 DEF RankedAt, Seeking
<1>16. /\ \A p \in live : p # o /\ drive[p] = D => rank[p] < rank[o] \/ rank[o] < rank[p]
       /\ rank[o] \in Nat
  BY <1>3
<1>20. ASSUME NEW n \in Fwd' \cup Drives, On(n) = D PROVE Follows(rank, n, flink[n])'
  <2>1. CASE n = b
    <3>1. a = D \/ (a \in Fwd' /\ drive[a] = D /\ (b \in Drives \/ rank[b] < rank[a]))
      <4>1. CASE a = D
        BY <4>1
      <4>2. CASE a # D
        <5>1. a \in Fwd' /\ drive[a] = D /\ rank[o] < rank[a] /\ rank[a] \in Nat
          BY <1>3, <1>6, <1>11, <1>13, <4>2
        <5>2. b \in Drives \/ (rank[b] < rank[o] /\ rank[b] \in Nat)
          BY <1>3, <1>6
        <5> QED BY <1>16, <5>1, <5>2
      <4> QED BY <4>1, <4>2
    <3>2. ASSUME NEW p \in Fwd', drive[p] = D, b \in Drives \/ rank[b] < rank[p]
          PROVE  a \in Fwd' /\ rank[a] <= rank[p]
      <4>1. p \in Fwd /\ p # o /\ p \in live /\ p \in Back /\ rank[p] \in Nat
        BY <1>3, <1>11, <3>2
      <4>2. CASE rank[p] < rank[o]
        <5>1. b \in Back /\ rank[p] <= rank[b]
          BY <1>6, <3>2, <4>1, <4>2
        <5>2. b \notin Drives /\ rank[b] \in Nat
          BY <1>3, <5>1
        <5> QED BY <3>2, <4>1, <5>1, <5>2
      <4>3. CASE rank[o] < rank[p]
        BY <1>6, <1>11, <1>13, <3>2, <4>1, <4>3
      <4> QED BY <1>16, <3>2, <4>1, <4>2, <4>3
    <3> QED BY <1>7, <1>8, <1>20, <2>1, <3>1, <3>2 DEF Follows, On
  <2>2. CASE n # b
    <3>1. n \in Fwd \cup Drives /\ flink'[n] = flink[n] /\ n # o
      BY <1>3, <1>8, <1>11, <2>2
    <3>2. Follows(rank, n, flink[n])
      BY <1>2, <3>1 DEF Ranked
    <3>3. ASSUME flink[n] = o PROVE FALSE
      <4>1. n \in Drives \/ rank[n] < rank[o]
        BY <1>3, <1>20, <3>2, <3>3 DEF Follows
      <4>2. \A p \in Fwd : drive[p] = D /\ (n \in Drives \/ rank[n] < rank[p]) => rank[o] <= rank[p]
        BY <1>20, <3>2, <3>3 DEF Follows
      <4>3. b \in Back /\ (n \in Drives \/ rank[n] < rank[b])
        <5>1. CASE n \in Drives
          <6>1. n = D
            BY <1>3, <1>20, <5>1
          <6> QED BY <1>6, <2>2, <5>1, <6>1
        <5>2. CASE n \notin Drives
          <6>1. n \in live /\ drive[n] = D /\ n \in Back
            BY <1>3, <1>20, <3>1, <5>2
          <6>2. b \in Back /\ rank[n] <= rank[b]
            BY <1>6, <4>1, <5>2, <6>1
          <6>3. rank[n] # rank[b] /\ rank[n] \in Nat /\ rank[b] \in Nat
            BY <1>3, <2>2, <6>1, <6>2
          <6> QED BY <6>2, <6>3
        <5> QED BY <5>1, <5>2
      <4>4. b \in live /\ drive[b] = D /\ b \in Fwd /\ rank[b] < rank[o]
        BY <1>3, <1>5, <1>6, <1>13, <4>3
      <4> QED BY <1>3, <1>16, <4>2, <4>3, <4>4
    <3>4. flink[n] = D \/ (flink[n] \in Fwd' /\ drive[flink[n]] = D /\ (n \in Drives \/ rank[n] < rank[flink[n]]))
      BY <1>11, <1>20, <3>2, <3>3 DEF Follows
    <3>5. \A p \in Fwd' : drive[p] = D /\ (n \in Drives \/ rank[n] < rank[p]) =>
             flink[n] \in Fwd' /\ rank[flink[n]] <= rank[p]
      BY <1>11, <1>20, <3>2, <3>3 DEF Follows
    <3> QED BY <1>7, <1>20, <3>1, <3>4, <3>5 DEF Follows, On
  <2> QED BY <2>1, <2>2
<1>21. \A n \in Back' \cup Drives : Precedes(rank, n, blink[n])'
  BY <1>2, <1>7, <1>11, LinksKept
<1>22. \A n \in live \cup Drives : On(n) # D => flink'[n] = flink[n] /\ blink'[n] = blink[n]
  BY <1>5, <1>7, <1>8
<1>23. pc'[t] # "undefined"
  BY <1>9
<1> QED BY <1>1, <1>2, <1>3, <1>7, <1>9, <1>10, <1>12, <1>14, <1>15, <1>20, <1>21, <1>22, <1>23, ElsewhereKept DEF o, D

(* Flink->Blink = Blink: the entry is in no list any more.                 *)
LEMMA UnlinkNextKeepsLists ==
  ASSUME Apart, ListInv, HandlesInv', NEW t \in Threads, UnlinkNext(t)
  PROVE  ListInv'
<1> DEFINE o == obj[t]
           D == drive[o]
           a == flink[o]
           b == blink[o]
<1>1. /\ HasObject(t) /\ AwayF(t) /\ ~AwayB(t) /\ pc[t] = "unlinkNext" /\ op[t] = "close"
      /\ HandlesInv /\ TypeOK
  <2>1. HandlesInv /\ TypeOK /\ pc[t] = "unlinkNext"
    BY DEF UnlinkNext, ListInv, HandlesInv
  <2>2. HasObject(t)
    BY <2>1, AwayHas DEF Unlinking
  <2> QED BY <2>1, <2>2 DEF HasObject, Linking, AwayF, AwayB, Gone
<1>2. PICK rank \in [Objs -> Nat] : Ranked(rank)
  BY DEF ListInv
<1>3. /\ Writer(t) /\ Place(t) /\ RankedAt(rank, t)
      /\ o \in live /\ o \notin Drives /\ D \in Drives
      /\ o \notin Fwd /\ o \in Back
      /\ \A p \in live : p # o /\ drive[p] = D => p \in Fwd /\ p \in Back
      /\ Fwd \subseteq live /\ Back \subseteq live
      /\ \A p \in live : rank[p] \in Nat /\ p \notin Drives /\ On(p) = drive[p]
      /\ \A d \in Drives : On(d) = d
      /\ \A p, r \in live : rank[p] = rank[r] => p = r
      /\ live \subseteq Node /\ Drives \subseteq Node
  BY <1>1, <1>2, OwnList
<1>4. next[t] = a /\ prev[t] = b
  BY <1>1 DEF Place, ListInv
<1>5. Precedes(rank, o, b) /\ Follows(rank, o, a) /\ b \in Back \cup Drives /\ On(b) = D
  BY <1>1, <1>2, <1>3, PrevIn DEF Ranked, RankedAt
<1>6. /\ b = D \/ (b \in Back /\ drive[b] = D /\ rank[b] < rank[o])
      /\ \A p \in Back : drive[p] = D /\ rank[p] < rank[o] => b \in Back /\ rank[p] <= rank[b]
      /\ a = D \/ (a \in Fwd /\ drive[a] = D /\ rank[o] < rank[a])
      /\ \A p \in Fwd : drive[p] = D /\ rank[o] < rank[p] => a \in Fwd /\ rank[a] <= rank[p]
      /\ a \in live \cup Drives /\ On(a) = D
  BY <1>3, <1>5 DEF Precedes, Follows
<1>7. /\ blink' = [blink EXCEPT ![a] = b] /\ Goto(t, "walk") /\ entry' = [entry EXCEPT ![t] = a]
      /\ UNCHANGED <<live, drive, flink, op, obj, dev, next, prev>>
  <2>1. Readable(next[t])
    BY <1>3, <1>4, <1>6 DEF Readable
  <2> QED BY <1>4, <2>1 DEF UnlinkNext, heap
<1>8. blink'[a] = b /\ \A n \in live \cup Drives : n # a => blink'[n] = blink[n]
  BY <1>1, <1>3, <1>6, <1>7 DEF TypeOK
<1>9. /\ Same(t) /\ pc'[t] = "walk" /\ obj'[t] = o /\ op'[t] = "close" /\ next'[t] = a /\ entry'[t] = a
      /\ a # Null
  BY <1>1, <1>3, <1>4, <1>6, <1>7, Names DEF Goto, Same, TypeOK
<1>10. Gone(t)' /\ AwayF(t)' /\ AwayB(t)' /\ ~HasHandle(t)' /\ ~Seeking(t)' /\ pc'[t] \notin Linking
  BY <1>9 DEF AwayF, AwayB, Gone, Seeking, HasHandle, Linking
<1>11. Fwd' = Fwd /\ Back' = Back \ {o}
  <2>1. /\ \A p \in live : p # o => (p \in Fwd' <=> p \in Fwd) /\ (p \in Back' <=> p \in Back)
        /\ o \in live' => (o \in Fwd' <=> ~AwayF(t)') /\ (o \in Back' <=> ~AwayB(t)')
        /\ Fwd' \subseteq live' /\ Back' \subseteq live'
    BY <1>1, <1>7, <1>9, <1>10, AwayChanges
  <2>2. o \notin Fwd' /\ o \notin Back'
    BY <1>3, <1>7, <1>10, <2>1
  <2>3. \A p : p \in Fwd' <=> p \in Fwd
    BY <1>3, <1>7, <2>1, <2>2
  <2>4. \A p : p \in Back' <=> p \in Back /\ p # o
    BY <1>3, <1>7, <2>1, <2>2
  <2> QED BY <2>3, <2>4
<1>12. Writer(t)'
  BY <1>1, <1>3, <1>7, <1>9, <1>10 DEF Writer
<1>13. b # o /\ a # o
  BY <1>3, <1>6
<1>14. Place(t)'
  BY <1>3, <1>6, <1>7, <1>9, <1>10, <1>11 DEF Place, On
<1>15. RankedAt(rank, t)'
  BY <1>9, <1>10 DEF RankedAt
<1> HIDE DEF o, D, a, b
<1>16. /\ \A p \in live : p # o /\ drive[p] = D => rank[p] < rank[o] \/ rank[o] < rank[p]
       /\ rank[o] \in Nat
  BY <1>3
<1>20. ASSUME NEW n \in Back' \cup Drives, On(n) = D PROVE Precedes(rank, n, blink[n])'
  <2>1. CASE n = a
    <3>1. b = D \/ (b \in Back' /\ drive[b] = D /\ (a \in Drives \/ rank[b] < rank[a]))
      <4>1. CASE b = D
        BY <4>1
      <4>2. CASE b # D
        <5>1. b \in Back' /\ drive[b] = D /\ rank[b] < rank[o] /\ rank[b] \in Nat
          BY <1>3, <1>6, <1>11, <1>13, <4>2
        <5>2. a \in Drives \/ (rank[o] < rank[a] /\ rank[a] \in Nat)
          BY <1>3, <1>6
        <5> QED BY <1>16, <5>1, <5>2
      <4> QED BY <4>1, <4>2
    <3>2. ASSUME NEW p \in Back', drive[p] = D, a \in Drives \/ rank[p] < rank[a]
          PROVE  b \in Back' /\ rank[p] <= rank[b]
      <4>1. p \in Back /\ p # o /\ p \in live /\ p \in Fwd /\ rank[p] \in Nat
        BY <1>3, <1>11, <3>2
      <4>2. CASE rank[o] < rank[p]
        <5>1. a \in Fwd /\ rank[a] <= rank[p]
          BY <1>6, <3>2, <4>1, <4>2
        <5>2. a \notin Drives /\ rank[a] \in Nat
          BY <1>3, <5>1
        <5> QED BY <3>2, <4>1, <5>1, <5>2
      <4>3. CASE rank[p] < rank[o]
        BY <1>6, <1>11, <1>13, <3>2, <4>1, <4>3
      <4> QED BY <1>16, <3>2, <4>1, <4>2, <4>3
    <3> QED BY <1>7, <1>8, <1>20, <2>1, <3>1, <3>2 DEF Precedes, On
  <2>2. CASE n # a
    <3>1. n \in Back \cup Drives /\ blink'[n] = blink[n] /\ n # o
      BY <1>3, <1>8, <1>11, <2>2
    <3>2. Precedes(rank, n, blink[n])
      BY <1>2, <3>1 DEF Ranked
    <3>3. ASSUME blink[n] = o PROVE FALSE
      <4>1. n \in Drives \/ rank[o] < rank[n]
        BY <1>3, <1>20, <3>2, <3>3 DEF Precedes
      <4>2. \A p \in Back : drive[p] = D /\ (n \in Drives \/ rank[p] < rank[n]) => rank[p] <= rank[o]
        BY <1>20, <3>2, <3>3 DEF Precedes
      <4>3. a \in Fwd /\ (n \in Drives \/ rank[a] < rank[n])
        <5>1. CASE n \in Drives
          <6>1. n = D
            BY <1>3, <1>20, <5>1
          <6> QED BY <1>6, <2>2, <5>1, <6>1
        <5>2. CASE n \notin Drives
          <6>1. n \in live /\ drive[n] = D /\ n \in Fwd
            BY <1>3, <1>20, <3>1, <5>2
          <6>2. a \in Fwd /\ rank[a] <= rank[n]
            BY <1>6, <4>1, <5>2, <6>1
          <6>3. rank[n] # rank[a] /\ rank[n] \in Nat /\ rank[a] \in Nat
            BY <1>3, <2>2, <6>1, <6>2
          <6> QED BY <6>2, <6>3
        <5> QED BY <5>1, <5>2
      <4>4. a \in live /\ drive[a] = D /\ a \in Back /\ rank[o] < rank[a]
        BY <1>3, <1>6, <1>13, <4>3
      <4> QED BY <1>3, <1>16, <4>2, <4>3, <4>4
    <3>4. blink[n] = D \/ (blink[n] \in Back' /\ drive[blink[n]] = D /\ (n \in Drives \/ rank[blink[n]] < rank[n]))
      BY <1>11, <1>20, <3>2, <3>3 DEF Precedes
    <3>5. \A p \in Back' : drive[p] = D /\ (n \in Drives \/ rank[p] < rank[n]) =>
             blink[n] \in Back' /\ rank[p] <= rank[blink[n]]
      BY <1>11, <1>20, <3>2, <3>3 DEF Precedes
    <3> QED BY <1>7, <1>20, <3>1, <3>4, <3>5 DEF Precedes, On
  <2> QED BY <2>1, <2>2
<1>21. \A n \in Fwd' \cup Drives : Follows(rank, n, flink[n])'
  BY <1>2, <1>7, <1>11, LinksKept
<1>22. \A n \in live \cup Drives : On(n) # D => flink'[n] = flink[n] /\ blink'[n] = blink[n]
  BY <1>6, <1>7, <1>8
<1>23. pc'[t] # "undefined"
  BY <1>9
<1> QED BY <1>1, <1>2, <1>3, <1>7, <1>9, <1>10, <1>12, <1>14, <1>15, <1>20, <1>21, <1>22, <1>23, ElsewhereKept DEF o, D

(* A new object is put after all others in the order, and in no list yet.  *)
LEMMA AllocateKeepsLists ==
  ASSUME Apart, ListInv, HandlesInv', NEW t \in Threads, pc[t] = "calloc", NEW o \in Objs \ live,
         live' = live \cup {o}, drive' = [drive EXCEPT ![o] = dev[t]],
         flink' = [flink EXCEPT ![o] = dev[t]], blink' = [blink EXCEPT ![o] = blink[dev[t]]],
         obj' = [obj EXCEPT ![t] = o], prev' = [prev EXCEPT ![t] = blink[dev[t]]],
         Goto(t, "linkPrev"), UNCHANGED <<op, dev, entry, next>>
  PROVE  ListInv'
<1> DEFINE D == dev[t]
<1>0. HandlesInv /\ TypeOK /\ HasHandle(t) /\ D \in MayOpen[t] /\ D \in Drives
  BY DEF ListInv, HandlesInv, Ownership, Places, HasHandle, Writer
<1>1. ~AwayF(t) /\ ~AwayB(t) /\ op[t] = "open" /\ next[t] = Null
  BY IdleOff
<1>2. /\ Same(t) /\ pc'[t] = "linkPrev" /\ op'[t] = "open" /\ next'[t] = Null
      /\ obj'[t] = o /\ dev'[t] = D /\ prev'[t] = blink[D]
  BY <1>0, <1>1 DEF Goto, Same, TypeOK
<1>3. /\ o \notin Drives /\ o \in Node /\ D \in Node /\ D # o /\ live \subseteq Objs
      /\ \A p \in live : p # o /\ p \notin Drives /\ p \in Node /\ On(p) = drive[p] /\ drive[p] \in Drives
      /\ \A d \in Drives : d # o /\ On(d) = d /\ d \in Node
  BY <1>0, Live, Names DEF Node
<1>4. /\ drive'[o] = D /\ flink'[o] = D /\ blink'[o] = blink[D]
      /\ \A p \in live : drive'[p] = drive[p]
      /\ \A n \in live \cup Drives : flink'[n] = flink[n] /\ blink'[n] = blink[n]
  BY <1>0, <1>3 DEF TypeOK
<1>5. \A n \in live \cup Drives : On(n)' = On(n)
  BY <1>3, <1>4 DEF On
<1>6. /\ AwayF(t)' /\ AwayB(t)' /\ ~Seeking(t)' /\ ~Gone(t)' /\ HasHandle(t)'
      /\ pc'[t] \in Linking
  BY <1>2 DEF AwayF, AwayB, Gone, Seeking, HasHandle, Linking
<1>7. \A u \in Threads : u # t =>
        (AwayF(u)' <=> AwayF(u)) /\ (AwayB(u)' <=> AwayB(u)) /\ obj'[u] = obj[u]
  BY <1>2, SameThreads DEF Same
<1>8. Fwd' = Fwd /\ Back' = Back
  <2>1. \A u \in Threads : AwayF(u) \/ AwayB(u) => obj[u] \in live
    BY <1>0, AwayHas
  <2>2. \A p : p \in Fwd' <=> p \in Fwd
    BY <1>1, <1>2, <1>3, <1>6, <1>7 DEF Fwd
  <2>3. \A p : p \in Back' <=> p \in Back
    BY <1>1, <1>2, <1>3, <1>6, <1>7 DEF Back
  <2> QED BY <2>2, <2>3
<1>9. Fwd \subseteq live /\ Back \subseteq live
  BY DEF Fwd, Back
<1>10. PICK old \in [Objs -> Nat] : Ranked(old)
  BY DEF ListInv
<1>11. PICK top \in Nat : \A p \in Objs : old[p] < top
  BY <1>10 DEF Ranked
<1> DEFINE rank == [old EXCEPT ![o] = top]
<1>12. /\ rank \in [Objs -> Nat] /\ rank[o] = top /\ \A p \in live : rank[p] = old[p] /\ rank[p] < top
       /\ \A p \in Objs : rank[p] < top + 1
  BY <1>3, <1>10, <1>11
<1> HIDE DEF D, rank
<1>13. ASSUME NEW n \in live \cup Drives, NEW m PROVE
         /\ Follows(old, n, m) => Follows(rank, n, m)'
         /\ Precedes(old, n, m) => Precedes(rank, n, m)'
  <2>1. On(n)' = On(n) /\ (n \in Drives \/ rank[n] = old[n])
    BY <1>5, <1>12
  <2>2. \A p \in Fwd \cup Back : rank[p] = old[p] /\ drive'[p] = drive[p]
    BY <1>4, <1>9, <1>12
  <2>3. Follows(old, n, m) => Follows(rank, n, m)'
    BY <1>8, <2>1, <2>2 DEF Follows
  <2>4. Precedes(old, n, m) => Precedes(rank, n, m)'
    BY <1>8, <2>1, <2>2 DEF Precedes
  <2> QED BY <2>3, <2>4
<1>14. \A u \in Threads : u # t /\ HasHandle(u) => dev[u] # D /\ dev[u] \in Drives
  BY <1>0 DEF Apart, ListInv, Writer, HandlesInv, Ownership, Places
<1>15. ASSUME NEW u \in Threads, u # t, HasObject(u)
       PROVE  /\ obj[u] \in live /\ drive'[obj[u]] = drive[obj[u]] /\ On(obj[u])' = On(obj[u])
              /\ flink'[obj[u]] = flink[obj[u]] /\ blink'[obj[u]] = blink[obj[u]]
              /\ rank[obj[u]] = old[obj[u]]
  BY <1>0, <1>4, <1>5, <1>12, <1>15, AwayHas
<1>16. ASSUME NEW u \in Threads PROVE Writer(u)'
  <2>1. CASE u = t
    BY <1>0, <1>2, <1>4, <1>6, <2>1 DEF Writer
  <2>2. CASE u # t
    BY <1>2, <1>15, <2>2, SameThreads DEF Same, Writer, HasObject, ListInv
  <2> QED BY <2>1, <2>2
<1>17. ASSUME NEW u \in Threads PROVE Place(u)'
  <2>1. CASE u = t
    BY <1>0, <1>2, <1>4, <1>6, <2>1 DEF Place
  <2>2. CASE u # t
    <3>0. Place(u)
      BY DEF ListInv
    <3>1. pc'[u] \in Linking \cup {"linkPrev", "unlinkPrev", "unlinkNext"} \/ Gone(u)' => HasObject(u)
      BY <1>0, <1>2, <2>2, AwayHas, SameThreads DEF Same, HasObject, Linking, Unlinking, Gone
    <3>2. pc'[u] \in Linking \cup {"linkPrev"} => blink'[dev'[u]] = blink[dev[u]]
      BY <1>2, <1>4, <1>14, <2>2 DEF Same, HasHandle, Linking
    <3>3. pc'[u] = "linkPrev" => flink'[obj'[u]] = dev'[u] /\ prev'[u] = blink'[dev'[u]]
      BY <1>2, <1>15, <2>2, <3>0, <3>1, <3>2 DEF Same, Place
    <3>4. pc'[u] \in Linking => blink'[obj'[u]] = blink'[dev'[u]]
      BY <1>2, <1>15, <2>2, <3>0, <3>1, <3>2 DEF Same, Place
    <3>5. pc'[u] \in {"unlinkPrev", "unlinkNext"} => next'[u] = flink'[obj'[u]] /\ prev'[u] = blink'[obj'[u]]
      BY <1>2, <1>15, <2>2, <3>0, <3>1 DEF Same, Place
    <3>6. pc'[u] = "walk" /\ op'[u] # "close" =>
            entry'[u] \in Fwd' \cup Drives /\ On(entry[u])' = dev'[u] /\ dev'[u] \in MayAsk[u]
      <4>1. ASSUME pc'[u] = "walk", op'[u] # "close"
            PROVE  entry'[u] \in Fwd' \cup Drives /\ On(entry[u])' = dev'[u] /\ dev'[u] \in MayAsk[u]
        <5>1. entry[u] \in Fwd \cup Drives /\ On(entry[u]) = dev[u] /\ dev[u] \in MayAsk[u]
          BY <1>2, <2>2, <3>0, <4>1 DEF Same, Place
        <5>2. entry'[u] = entry[u] /\ dev'[u] = dev[u]
          BY <1>2, <2>2 DEF Same
        <5>3. PICK n \in live \cup Drives : n = entry[u]
          BY <1>9, <5>1
        <5>4. On(n)' = On(n)
          BY <1>5
        <5> QED BY <1>8, <5>1, <5>2, <5>3, <5>4 DEF On
      <4> QED BY <4>1
    <3>7. pc'[u] = "walk" /\ Gone(u)' =>
            entry'[u] \in Fwd' \cup Drives /\ On(entry[u])' = drive'[obj'[u]]
      <4>1. ASSUME pc'[u] = "walk", Gone(u)'
            PROVE  entry'[u] \in Fwd' \cup Drives /\ On(entry[u])' = drive'[obj'[u]]
        <5>0. Gone(u)
          BY <1>2, <2>2, <4>1, SameThreads
        <5>1. entry[u] \in Fwd \cup Drives /\ On(entry[u]) = drive[obj[u]]
          BY <1>2, <2>2, <3>0, <4>1, <5>0 DEF Same, Place
        <5>2. entry'[u] = entry[u] /\ drive'[obj'[u]] = drive[obj[u]]
          BY <1>2, <1>15, <2>2, <3>1, <4>1 DEF Same
        <5>3. PICK n \in live \cup Drives : n = entry[u]
          BY <1>9, <5>1
        <5>4. On(n)' = On(n)
          BY <1>5
        <5> QED BY <1>8, <5>1, <5>2, <5>3, <5>4 DEF On
      <4> QED BY <4>1
    <3> QED BY <3>3, <3>4, <3>5, <3>6, <3>7 DEF Place
  <2> QED BY <2>1, <2>2
<1>18. ASSUME NEW u \in Threads PROVE RankedAt(rank, u)'
  <2>1. CASE u = t
    BY <1>2, <1>3, <1>4, <1>6, <1>12, <2>1 DEF RankedAt
  <2>2. CASE u # t
    <3>0. RankedAt(old, u)
      BY <1>10 DEF Ranked
    <3>1. pc'[u] \in Linking => \A p \in live' : p # obj'[u] /\ drive'[p] = dev'[u] => rank[p] < rank[obj'[u]]
      <4>1. ASSUME pc'[u] \in Linking, NEW p \in live', p # obj'[u], drive'[p] = dev'[u]
            PROVE  rank[p] < rank[obj'[u]]
        <5>1. /\ pc[u] \in Linking /\ HasObject(u) /\ HasHandle(u) /\ obj'[u] = obj[u] /\ dev'[u] = dev[u]
          BY <1>2, <2>2, <4>1 DEF Same, HasObject, HasHandle
        <5>2. p \in live /\ drive'[p] = drive[p] /\ rank[p] = old[p]
          BY <1>4, <1>12, <1>14, <2>2, <4>1, <5>1
        <5> QED BY <1>15, <2>2, <3>0, <4>1, <5>1, <5>2 DEF RankedAt
      <4> QED BY <4>1
    <3>2. pc'[u] = "unlinkNext" => Follows(rank, obj[u], flink[obj[u]])'
      <4>1. ASSUME pc'[u] = "unlinkNext" PROVE Follows(rank, obj[u], flink[obj[u]])'
        <5>1. HasObject(u) /\ Follows(old, obj[u], flink[obj[u]]) /\ obj'[u] = obj[u]
          BY <1>0, <1>2, <2>2, <3>0, <4>1, AwayHas DEF Same, RankedAt, Unlinking
        <5>2. PICK n \in live \cup Drives : n = obj[u] /\ n = obj'[u]
          BY <1>15, <2>2, <5>1
        <5>3. PICK m : m = flink[n] /\ m = flink'[n]
          BY <1>4, <5>2
        <5>4. Follows(rank, n, m)'
          BY <1>13, <5>1, <5>2, <5>3
        <5> QED BY <5>2, <5>3, <5>4 DEF Follows, On
      <4> QED BY <4>1
    <3>3. Seeking(u)' =>
            entry'[u] \in Fwd' /\ drive'[entry'[u]] = drive'[obj'[u]] /\ rank[entry'[u]] <= rank[obj'[u]]
      <4>1. ASSUME Seeking(u)'
            PROVE  entry'[u] \in Fwd' /\ drive'[entry'[u]] = drive'[obj'[u]] /\ rank[entry'[u]] <= rank[obj'[u]]
        <5>1. /\ Seeking(u) /\ HasObject(u) /\ entry'[u] = entry[u] /\ obj'[u] = obj[u]
              /\ entry[u] \in Fwd /\ drive[entry[u]] = drive[obj[u]] /\ old[entry[u]] <= old[obj[u]]
          BY <1>0, <1>2, <2>2, <3>0, <4>1, AwayHas, SameThreads DEF Same, RankedAt
        <5> QED BY <1>4, <1>8, <1>9, <1>12, <1>15, <2>2, <5>1
      <4> QED BY <4>1
    <3> QED BY <3>1, <3>2, <3>3 DEF RankedAt
  <2> QED BY <2>1, <2>2
<1>19. ASSUME NEW n \in Fwd' \cup Drives PROVE Follows(rank, n, flink[n])'
  <2>1. PICK m : m = flink[n] /\ m = flink'[n]
    BY <1>4, <1>8, <1>9
  <2>2. Follows(rank, n, m)'
    BY <1>8, <1>9, <1>10, <1>13, <2>1 DEF Ranked
  <2> QED BY <2>1, <2>2 DEF Follows, On
<1>20. ASSUME NEW n \in Back' \cup Drives PROVE Precedes(rank, n, blink[n])'
  <2>1. PICK m : m = blink[n] /\ m = blink'[n]
    BY <1>4, <1>8, <1>9
  <2>2. Precedes(rank, n, m)'
    BY <1>8, <1>9, <1>10, <1>13, <2>1 DEF Ranked
  <2> QED BY <2>1, <2>2 DEF Precedes, On
<1>21. \A p, r \in live' : rank[p] = rank[r] => p = r
  <2>1. \A p, r \in live : old[p] = old[r] => p = r
    BY <1>10 DEF Ranked
  <2>2. \A p \in live : rank[p] \in Nat
    BY <1>3, <1>12
  <2> QED BY <1>12, <2>1, <2>2
<1>22. Ranked(rank)'
  <2>1. \E max \in Nat : \A p \in Objs : rank[p] < max
    <3>1. top + 1 \in Nat
      BY <1>11
    <3> QED BY <1>12, <3>1
  <2> QED BY <1>18, <1>19, <1>20, <1>21, <2>1 DEF Ranked
<1>23. NoUndefined'
  BY <1>2 DEF NoUndefined, Same, ListInv
<1> QED BY <1>12, <1>16, <1>17, <1>22, <1>23 DEF ListInv

LEMMA CallocKeepsLists ==
  ASSUME Apart, ListInv, HandlesInv', NEW t \in Threads, Calloc(t)
  PROVE  ListInv'
<1>1. CASE Return(t, Null) /\ UNCHANGED <<heap, links>>
  <2>1. ~AwayF(t) /\ ~AwayB(t)
    BY IdleOff DEF Calloc
  <2> QED BY <1>1, <2>1, ReturnKeepsLists
<1>2. CASE ~(Return(t, Null) /\ UNCHANGED <<heap, links>>)
  BY <1>2, AllocateKeepsLists DEF Calloc, GiveUp
<1> QED BY <1>1, <1>2

----------------------------------------------------------------------------
LEMMA ListStep == Apart /\ ListInv /\ [Next]_vars => ListInv'
<1> SUFFICES ASSUME Apart, ListInv, [Next]_vars PROVE ListInv'
  OBVIOUS
<1>1. HandlesInv'
  BY HandlesStep DEF ListInv
<1>2. CASE UNCHANGED vars
  <2>1. UNCHANGED <<live, drive, handle, flink, blink, pc, op, obj, hnd, dev, entry, next, prev>>
    BY <1>2 DEF vars, heap, links, locals
  <2>2. Fwd' = Fwd /\ Back' = Back
    BY <2>1 DEF Fwd, Back, AwayF, AwayB, Gone
  <2>3. NoUndefined' /\ \A t \in Threads : Writer(t)' /\ Place(t)'
    BY <2>1, <2>2 DEF ListInv, NoUndefined, Writer, Place, HasHandle, Gone, On
  <2>4. PICK rank \in [Objs -> Nat] : Ranked(rank)
    BY DEF ListInv
  <2>5. ASSUME NEW t \in Threads PROVE RankedAt(rank, t)'
    BY <2>1, <2>2, <2>4 DEF Ranked, RankedAt, Seeking, Follows, On
  <2>6. Ranked(rank)'
    BY <2>1, <2>2, <2>4, <2>5, LinksKept DEF Ranked
  <2> QED BY <1>1, <2>3, <2>4, <2>6 DEF ListInv
<1>3. ASSUME NEW t \in Threads, Call(t) PROVE ListInv'
  BY <1>1, <1>3, OpenKeepsLists, CloseKeepsLists, AskKeepsLists DEF Call
<1>4. ASSUME NEW t \in Threads, Continue(t) PROVE ListInv'
  BY <1>1, <1>4, OpenKeepsLists, CallocKeepsLists, LinkPrevKeepsLists, LinkHeadKeepsLists,
     WalkOnKeepsLists, WalkFindsKeepsLists, WalkEndsKeepsLists, UnlinkPrevKeepsLists,
     UnlinkNextKeepsLists, FreeKeepsLists DEF Continue, OpenStep, WalkStep, CloseStep
<1> QED BY <1>2, <1>3, <1>4 DEF Next

(* Where each list has one thread that opens on it and closes from it, and *)
(* no other searches it, the objects of a list are linked in the order     *)
(* they were opened, at every step of every call.                          *)
THEOREM ListsInductive == ASSUME Apart PROVE Spec => []ListInv
<1>1. Init => ListInv
  <2> SUFFICES ASSUME Init PROVE ListInv
    OBVIOUS
  <2>1. HandlesInv
    BY HandlesStart
  <2>2. /\ live = {} /\ Fwd = {} /\ Back = {}
        /\ \A d \in Drives : flink[d] = d /\ blink[d] = d /\ On(d) = d
    BY DEF Init, Fwd, Back, Node, On
  <2>3. ASSUME NEW t \in Threads
        PROVE  pc[t] = "idle" /\ op[t] = "open" /\ next[t] = Null /\ ~HasHandle(t)
    BY DEF Init, HasHandle, Linking
  <2>4. NoUndefined /\ \A t \in Threads : Writer(t) /\ Place(t)
    BY <2>3 DEF NoUndefined, Writer, Place, Linking
  <2> DEFINE rank == [o \in Objs |-> 0]
  <2>5. rank \in [Objs -> Nat] /\ \A o \in Objs : rank[o] < 1
    OBVIOUS
  <2>6. \A t \in Threads : RankedAt(rank, t)
    BY <2>3 DEF RankedAt, Seeking, Linking
  <2>7. \A d \in Drives : Follows(rank, d, flink[d]) /\ Precedes(rank, d, blink[d])
    BY <2>2 DEF Follows, Precedes
  <2> HIDE DEF rank
  <2>8. Ranked(rank)
    <3>1. \E top \in Nat : \A o \in Objs : rank[o] < top
      BY <2>5
    <3> QED BY <2>2, <2>6, <2>7, <3>1 DEF Ranked
  <2> QED BY <2>1, <2>4, <2>5, <2>8 DEF ListInv
<1>2. ListInv /\ [Next]_vars => ListInv'
  BY ListStep
<1> QED BY <1>1, <1>2, PTL DEF Spec

(* And so no traversal and no link store of DevBlkOpen, DevBlkClose or a   *)
(* query touches freed memory (windevblk.c:188, 510-544, list.h), though   *)
(* nothing is ever locked.                                                 *)
THEOREM NothingFreedTouched == ASSUME Apart PROVE Spec => []NoUndefined
<1>1. ListInv => NoUndefined
  BY DEF ListInv
<1> QED BY <1>1, ListsInductive, PTL

----------------------------------------------------------------------------
(* What a traversal from the head of a list meets.                         *)
OnList(d) == {o \in Fwd : drive[o] = d}

(* The objects s[1] .. s[n] and then the head again.                       *)
Chain(d, s, n) ==
  /\ n \in Nat /\ s \in [1 .. n -> Objs]
  /\ flink[d] = IF n = 0 THEN d ELSE s[1]
  /\ \A k \in 1 .. n : flink[s[k]] = IF k = n THEN d ELSE s[k + 1]

(* All those on the list, in the order of their ranks.                     *)
Sorted(rank, d, s, n) ==
  /\ Chain(d, s, n)
  /\ \A k \in 1 .. n : s[k] \in OnList(d)
  /\ \A o \in OnList(d) : \E k \in 1 .. n : s[k] = o
  /\ \A j, k \in 1 .. n : j < k => rank[s[j]] < rank[s[k]]

LEMMA NoMoreThanObjects ==
  ASSUME NEW n \in Nat, NEW s \in [1 .. n -> Objs], \A j, k \in 1 .. n : s[j] = s[k] => j = k
  PROVE  n <= Cardinality(Objs)
<1>1. s \in Injection(1 .. n, Objs)
  BY DEF Injection, IsInjective
<1>2. Cardinality(1 .. n) <= Cardinality(Objs)
  BY <1>1, FS_Injection, HandlesAssumption DEF HandlesAssumption
<1>3. Cardinality(1 .. n) = n
  BY FS_Interval
<1> QED BY <1>2, <1>3

(* A list has an end: no rank comes twice.                                 *)
LEMMA ListEnds ==
  ASSUME HandlesInv, NEW rank \in [Objs -> Nat], Ranked(rank), NEW d \in Drives
  PROVE  \E n \in Nat : \E s : Sorted(rank, d, s, n)
<1> DEFINE C == Cardinality(Objs) + 1
           S == OnList(d) \cup {d}
           step == [kx \in (1 .. C) \X S |-> IF kx[2] = d THEN d ELSE flink[kx[2]]]
<1>1. C \in Nat
  BY FS_CardinalityType, HandlesAssumption DEF HandlesAssumption
<1>2. /\ OnList(d) \subseteq Objs /\ OnList(d) \subseteq Fwd /\ d \notin OnList(d) /\ On(d) = d
      /\ \A o \in OnList(d) : On(o) = d /\ o \notin Drives /\ rank[o] \in Nat
  BY HeldLinked, Live DEF OnList
<1>3. ASSUME NEW o \in S PROVE flink[o] \in S /\ Follows(rank, o, flink[o])
  <2>1. o \in Fwd \cup Drives /\ On(o) = d
    BY <1>2
  <2>2. flink[o] \in Fwd \cup Drives /\ On(flink[o]) = d
    BY <2>1, NextIn
  <2>3. Follows(rank, o, flink[o])
    BY <2>1 DEF Ranked
  <2> QED BY <2>1, <2>2, <2>3 DEF OnList, Follows
<1>4. step \in [(1 .. C) \X S -> S]
  BY <1>3
<1>5. \A k \in 1 .. C, x \in S : step[<<k, x>>] = IF x = d THEN d ELSE flink[x]
  OBVIOUS
<1>6. flink[d] \in S
  BY <1>3
<1> HIDE DEF step, S, C
<1>7. PICK f : Iterates(f, C, S, flink[d], step)
  BY <1>1, <1>4, <1>6, Iteration
<1>8. /\ f \in [0 .. C -> S] /\ f[0] = flink[d]
      /\ \A k \in 1 .. C : f[k] = IF f[k - 1] = d THEN d ELSE flink[f[k - 1]]
  <2>1. \A k \in 1 .. C : k - 1 \in 0 .. C
    BY <1>1
  <2> QED BY <1>5, <1>7, <2>1 DEF Iterates
(* Up to the head, ranks rise.                                             *)
<1>9. PICK top \in Nat : \A o \in Objs : rank[o] < top
  BY DEF Ranked
<1> DEFINE g == [k \in 0 .. C |-> IF f[k] = d THEN top ELSE rank[f[k]]]
<1>10. \A k \in 0 .. C : f[k] \in S
  BY <1>8
<1>11. \A k \in 0 .. C :
          /\ f[k] = d => g[k] = top
          /\ f[k] # d => f[k] \in OnList(d) /\ g[k] = rank[f[k]] /\ g[k] < top
          /\ g[k] \in Nat
  BY <1>2, <1>9, <1>10 DEF S
<1> HIDE DEF g
<1>12. ASSUME NEW k \in 1 .. C PROVE g[k - 1] <= g[k] /\ (f[k - 1] # d => g[k - 1] < g[k])
  <2>1. k - 1 \in 0 .. C /\ k \in 0 .. C
    BY <1>1
  <2>2. CASE f[k - 1] = d
    <3>1. f[k] = d
      BY <1>8, <2>2
    <3>2. g[k - 1] = top /\ g[k] = top
      BY <1>11, <2>1, <2>2, <3>1
    <3> QED BY <2>2, <3>2
  <2>3. CASE f[k - 1] # d
    <3>1. f[k] = flink[f[k - 1]] /\ f[k - 1] \in OnList(d)
      BY <1>8, <1>11, <2>1, <2>3
    <3>2. Follows(rank, f[k - 1], f[k])
      BY <1>3, <3>1 DEF S
    <3>3. f[k] # d => rank[f[k - 1]] < rank[f[k]]
      BY <1>2, <3>1, <3>2 DEF Follows
    <3>4. g[k - 1] = rank[f[k - 1]] /\ g[k - 1] < top /\ g[k - 1] \in Nat
      BY <1>11, <2>1, <2>3
    <3>5. (f[k] = d /\ g[k] = top) \/ (f[k] # d /\ g[k] = rank[f[k]] /\ g[k] \in Nat)
      BY <1>11, <2>1
    <3> QED BY <3>3, <3>4, <3>5
  <2> QED BY <2>2, <2>3
<1>13. \A j, k \in 0 .. C : j <= k => g[j] <= g[k]
  BY <1>1, <1>11, <1>12, Growing
<1>14. ASSUME NEW j \in 0 .. C, NEW k \in 0 .. C, j < k, f[j] # d PROVE g[j] < g[k]
  <2>1. j + 1 \in 1 .. C /\ j + 1 \in 0 .. C /\ (j + 1) - 1 = j /\ j + 1 <= k
    BY <1>1, <1>14
  <2>2. g[j] < g[j + 1]
    BY <1>12, <1>14, <2>1
  <2>3. g[j + 1] <= g[k]
    BY <1>13, <2>1
  <2>4. g[j] \in Nat /\ g[j + 1] \in Nat /\ g[k] \in Nat
    BY <1>11, <2>1
  <2> QED BY <2>2, <2>3, <2>4
<1>15. \E k \in 0 .. C : f[k] = d
  <2> SUFFICES ASSUME \A k \in 0 .. C : f[k] # d PROVE FALSE
    OBVIOUS
  <2> DEFINE s == [k \in 1 .. C |-> f[k]]
  <2>1. \A k \in 1 .. C : k \in 0 .. C /\ f[k] \in Objs
    BY <1>1, <1>2, <1>11
  <2>2. ASSUME NEW j \in 1 .. C, NEW k \in 1 .. C, f[j] = f[k] PROVE j = k
    <3>1. g[j] = g[k] /\ g[j] \in Nat
      BY <1>11, <2>1, <2>2
    <3>2. ~(j < k) /\ ~(k < j)
      BY <1>14, <2>1, <3>1
    <3> QED BY <3>2
  <2>3. s \in [1 .. C -> Objs] /\ \A j, k \in 1 .. C : s[j] = s[k] => j = k
    BY <2>1, <2>2
  <2>4. C <= Cardinality(Objs)
    <3> HIDE DEF s, C
    <3> QED BY <1>1, <2>3, NoMoreThanObjects
  <2> QED BY <1>1, <2>4, FS_CardinalityType, HandlesAssumption DEF HandlesAssumption, C
<1>16. PICK n \in 0 .. C : f[n] = d /\ \A k \in 0 .. C : f[k] = d => n <= k
  <2> DEFINE At == {k \in 0 .. C : f[k] = d}
  <2>1. At \subseteq Nat /\ At # {}
    BY <1>15
  <2>2. \E k \in At : \A j \in At : k <= j
    <3> HIDE DEF At
    <3> QED BY <2>1, LeastNumber
  <2> QED BY <2>2
<1>17. n \in Nat /\ \A k \in 1 .. n : k - 1 \in 0 .. C /\ k \in 0 .. C /\ k \in 1 .. C /\ k - 1 < n
  BY <1>1
<1>18. \A k \in 1 .. n : f[k - 1] \in OnList(d) /\ f[k - 1] # d
  BY <1>11, <1>16, <1>17
<1> DEFINE s == [k \in 1 .. n |-> f[k - 1]]
<1>19. s \in [1 .. n -> Objs] /\ \A k \in 1 .. n : s[k] = f[k - 1]
  BY <1>2, <1>18
<1> HIDE DEF s
<1>20. Chain(d, s, n)
  <2>1. flink[d] = IF n = 0 THEN d ELSE s[1]
    <3>1. n # 0 => 1 \in 1 .. n /\ s[1] = f[0]
      BY <1>17, <1>19
    <3> QED BY <1>8, <1>16, <3>1
  <2>2. ASSUME NEW k \in 1 .. n PROVE flink[s[k]] = IF k = n THEN d ELSE s[k + 1]
    <3>1. f[k] = flink[s[k]]
      BY <1>8, <1>17, <1>18, <1>19
    <3>2. k # n => k + 1 \in 1 .. n /\ (k + 1) - 1 = k
      BY <1>17
    <3>3. k # n => s[k + 1] = f[k]
      BY <1>19, <3>2
    <3> QED BY <1>16, <3>1, <3>3
  <2> QED BY <1>17, <1>19, <2>1, <2>2 DEF Chain
<1>21. ASSUME NEW j \in 1 .. n, NEW k \in 1 .. n, j < k PROVE rank[s[j]] < rank[s[k]]
  <2>1. g[j - 1] < g[k - 1]
    BY <1>14, <1>17, <1>18, <1>21
  <2> QED BY <1>11, <1>17, <1>18, <1>19, <2>1
(* None is passed over.                                                    *)
<1>22. ASSUME NEW o \in OnList(d) PROVE \E k \in 1 .. n : s[k] = o
  <2> SUFFICES ASSUME \A k \in 1 .. n : s[k] # o PROVE FALSE
    OBVIOUS
  <2> DEFINE T == {k \in 0 .. n : f[k] \in OnList(d) /\ rank[f[k]] <= rank[o]}
  <2>1. 0 \in T
    <3>1. Follows(rank, d, flink[d])
      BY <1>3 DEF S
    <3>2. flink[d] \in Fwd /\ rank[flink[d]] <= rank[o]
      BY <1>2, <3>1 DEF Follows, OnList
    <3>3. flink[d] \in OnList(d)
      BY <1>2, <1>6, <3>2, HeldLinked, Live DEF S
    <3> QED BY <1>8, <1>17, <3>2, <3>3
  <2>2. ASSUME NEW k \in 0 .. n - 1, k \in T PROVE k + 1 \in T
    <3>1. k + 1 \in 1 .. n /\ k + 1 \in 0 .. n /\ (k + 1) - 1 = k /\ k + 1 \in 1 .. C
      BY <1>17
    <3>2. f[k] \in OnList(d) /\ rank[f[k]] <= rank[o] /\ f[k] # d
      BY <1>2, <2>2
    <3>3. f[k + 1] = flink[f[k]] /\ f[k] # o
      BY <1>8, <1>19, <3>1, <3>2
    <3>4. rank[f[k]] < rank[o]
      <4>1. rank[f[k]] # rank[o]
        BY <1>2, <3>2, <3>3, HeldLinked DEF Ranked
      <4> QED BY <1>2, <3>2, <4>1
    <3>5. Follows(rank, f[k], f[k + 1])
      BY <1>3, <3>2, <3>3 DEF S
    <3>6. f[k + 1] \in Fwd /\ rank[f[k + 1]] <= rank[o]
      BY <1>2, <3>2, <3>4, <3>5 DEF Follows, OnList
    <3>7. f[k + 1] \in OnList(d)
      <4>1. f[k + 1] \in S
        BY <1>10, <3>1, <1>1
      <4> QED BY <1>2, <3>6, <4>1, HeldLinked, Live DEF S
    <3> QED BY <3>1, <3>6, <3>7
  <2>3. n \in T
    <3> HIDE DEF T
    <3>1. \A k \in 0 .. n - 1 : k \in T => k + 1 \in T
      BY <2>2
    <3> QED BY <1>17, <2>1, <3>1, Induction
  <2> QED BY <1>2, <1>16, <2>3
<1>23. \A k \in 1 .. n : s[k] \in OnList(d)
  BY <1>18, <1>19
<1> QED BY <1>17, <1>20, <1>21, <1>22, <1>23 DEF Sorted

LEMMA SortedShort ==
  ASSUME NEW rank \in [Objs -> Nat], NEW d, NEW s, NEW n, Sorted(rank, d, s, n)
  PROVE  n <= Cardinality(Objs)
<1>1. n \in Nat /\ s \in [1 .. n -> Objs]
  BY DEF Sorted, Chain
<1>2. ASSUME NEW j \in 1 .. n, NEW k \in 1 .. n, s[j] = s[k] PROVE j = k
  <2>1. rank[s[j]] \in Nat /\ rank[s[k]] = rank[s[j]]
    BY <1>1, <1>2
  <2>2. ~(j < k) /\ ~(k < j)
    BY <2>1 DEF Sorted
  <2> QED BY <2>2
<1> QED BY <1>1, <1>2, NoMoreThanObjects

LEMMA ReachBy ==
  ASSUME NEW d \in Drives, NEW s, NEW n, Chain(d, s, n), n <= Cardinality(Objs)
  PROVE  Reach(d) = {s[k] : k \in 1 .. n} \cup {d}
<1> DEFINE C == Cardinality(Objs)
           Reaches(f) == f = [k \in 0 .. C |->
             IF k = 0 THEN flink[d] ELSE IF f[k - 1] \in Objs THEN flink[f[k - 1]] ELSE f[k - 1]]
           at == CHOOSE f : Reaches(f)
<1>1. C \in Nat /\ d \notin Objs
  BY FS_CardinalityType, HandlesAssumption DEF HandlesAssumption
<1>2. n \in 0 .. C
  BY <1>1 DEF Chain
<1>3. Reach(d) = {at[k] : k \in 0 .. C}
  BY DEF Reach
<1> HIDE DEF C
<1> DEFINE f == [k \in 0 .. C |-> IF k < n THEN s[k + 1] ELSE d]
<1>4. ASSUME NEW k \in 0 .. C
      PROVE  f[k] = IF k = 0 THEN flink[d] ELSE IF f[k - 1] \in Objs THEN flink[f[k - 1]] ELSE f[k - 1]
  <2>1. CASE k = 0
    BY <1>1, <1>2, <2>1 DEF Chain
  <2>2. CASE k # 0
    <3>1. k - 1 \in 0 .. C /\ (k - 1) + 1 = k
      BY <1>1, <2>2
    <3>2. CASE k - 1 < n
      <4>1. k \in 1 .. n
        BY <1>2, <2>2, <3>2
      <4>2. f[k - 1] = s[k]
        BY <3>1, <3>2
      <4>3. s[k] \in Objs /\ flink[s[k]] = IF k = n THEN d ELSE s[k + 1]
        BY <4>1 DEF Chain
      <4>4. k = n <=> ~(k < n)
        BY <1>2, <4>1
      <4> QED BY <2>2, <4>2, <4>3, <4>4
    <3>3. CASE ~(k - 1 < n)
      <4>1. f[k - 1] = d /\ ~(k < n)
        BY <1>2, <3>1, <3>3
      <4> QED BY <1>1, <2>2, <4>1
    <3> QED BY <3>2, <3>3
  <2> QED BY <2>1, <2>2
<1>5. Reaches(f)
  <2>1. f = [k \in 0 .. C |-> f[k]]
    OBVIOUS
  <2> HIDE DEF f
  <2> QED BY <1>4, <2>1
<1>6. Reaches(at)
  <2> HIDE DEF Reaches, f
  <2> QED BY <1>5, Zenon
<1>7. \A k \in 0 .. C : f[k] = IF k < n THEN s[k + 1] ELSE d
  OBVIOUS
<1> HIDE DEF at, f
<1>8. \A k \in 0 .. C : at[k] = IF k = 0 THEN flink[d]
                                ELSE IF at[k - 1] \in Objs THEN flink[at[k - 1]] ELSE at[k - 1]
  BY <1>6
<1> HIDE DEF Reaches
<1>9. \A k \in 0 .. C : at[k] = f[k]
  <2> DEFINE T == {k \in 0 .. C : at[k] = f[k]}
  <2>1. 0 \in 0 .. C
    BY <1>1
  <2>2. 0 \in T
    BY <1>4, <1>8, <2>1
  <2>3. ASSUME NEW k \in 0 .. C - 1, k \in T PROVE k + 1 \in T
    <3>1. k + 1 \in 0 .. C /\ k + 1 # 0 /\ (k + 1) - 1 = k
      BY <1>1
    <3>2. /\ at[k + 1] = IF at[k] \in Objs THEN flink[at[k]] ELSE at[k]
          /\ f[k + 1] = IF f[k] \in Objs THEN flink[f[k]] ELSE f[k]
      BY <1>4, <1>8, <3>1
    <3> QED BY <2>3, <3>1, <3>2
  <2>4. 0 .. C \subseteq T
    <3> HIDE DEF T
    <3>1. \A k \in 0 .. C - 1 : k \in T => k + 1 \in T
      BY <2>3
    <3> QED BY <1>1, <2>2, <3>1, Induction
  <2> QED BY <2>4
<1>10. {f[k] : k \in 0 .. C} = {s[k] : k \in 1 .. n} \cup {d}
  <2>1. f[n] = d
    BY <1>2, <1>7
  <2>2. \A k \in 1 .. n : k - 1 \in 0 .. C /\ f[k - 1] = s[k]
    <3>1. \A k \in 1 .. n : k - 1 \in 0 .. C /\ k - 1 < n /\ (k - 1) + 1 = k
      BY <1>1, <1>2
    <3> QED BY <1>7, <3>1
  <2>3. \A k \in 0 .. C : f[k] = d \/ (k + 1 \in 1 .. n /\ f[k] = s[k + 1])
    <3>1. \A k \in 0 .. C : k < n => k + 1 \in 1 .. n
      BY <1>1, <1>2
    <3> QED BY <1>7, <3>1
  <2> QED BY <1>2, <2>1, <2>2, <2>3
<1> QED BY <1>3, <1>9, <1>10

LEMMA ReachIs ==
  ASSUME HandlesInv, NEW rank \in [Objs -> Nat], Ranked(rank), NEW d \in Drives
  PROVE  Reach(d) = OnList(d) \cup {d}
<1>1n. PICK n \in Nat : \E s : Sorted(rank, d, s, n)
  BY ListEnds
<1>1. PICK s : Sorted(rank, d, s, n)
  BY <1>1n
<1>2. Reach(d) = {s[k] : k \in 1 .. n} \cup {d}
  BY <1>1, SortedShort, ReachBy DEF Sorted
<1> QED BY <1>1, <1>2 DEF Sorted

(* "Insert in our list of devblk handles" (windevblk.c:188): every         *)
(* traversal meets what a caller holds, at every step of every call.       *)
THEOREM HeldFound == ASSUME Apart PROVE Spec => []HeldListed
<1>1. ListInv => HeldListed
  <2> SUFFICES ASSUME ListInv, NEW o \in held PROVE o \in Reach(drive[o])
    BY DEF HeldListed
  <2>1. PICK rank \in [Objs -> Nat] : Ranked(rank)
    BY DEF ListInv
  <2>2. HandlesInv /\ o \in Fwd /\ drive[o] \in Drives
    BY HeldLinked, Live DEF ListInv
  <2> QED BY <2>1, <2>2, ReachIs DEF OnList
<1> QED BY <1>1, ListsInductive, PTL

(* Between calls a link back undoes a link forward.                        *)
LEMMA BackAgain ==
  ASSUME HandlesInv, NEW rank \in [Objs -> Nat], Ranked(rank), Fwd = live, Back = live,
         NEW n \in live \cup Drives
  PROVE  blink[flink[n]] = n
<1> DEFINE m == flink[n]
           p == blink[m]
<1>1. m \in live \cup Drives /\ On(m) = On(n) /\ Follows(rank, n, m)
  BY NextIn DEF Ranked
<1>2. p \in live \cup Drives /\ On(p) = On(m) /\ Precedes(rank, m, p)
  BY <1>1, PrevIn DEF Ranked
<1> HIDE DEF m, p
<1>3. /\ \A o \in live : /\ o \in Objs /\ o \notin Drives /\ rank[o] \in Nat
                         /\ On(o) = drive[o] /\ drive[o] \in Drives
      /\ \A e \in Drives : On(e) = e /\ e \notin live
  BY Live
<1>4. \A o, q \in live : rank[o] = rank[q] => o = q
  BY DEF Ranked
<1>5. CASE n \in live
  <2>1. m \in Drives \/ rank[n] < rank[m]
    BY <1>1, <1>3, <1>5 DEF Follows
  <2>2. p \in live /\ rank[n] <= rank[p]
    BY <1>1, <1>2, <1>3, <1>5, <2>1 DEF Precedes
  <2>3. m \in Drives \/ rank[p] < rank[m]
    BY <1>2, <1>3, <2>2 DEF Precedes
  <2>4. ASSUME p # n PROVE FALSE
    <3>1. rank[n] < rank[p]
      BY <1>3, <1>4, <1>5, <2>2, <2>4
    <3>2. m \in live /\ rank[m] <= rank[p]
      BY <1>1, <1>2, <1>3, <2>2, <3>1 DEF Follows
    <3> QED BY <1>3, <2>2, <2>3, <3>2
  <2> QED BY <2>4 DEF p, m
<1>6. CASE n \in Drives
  <2>1. ASSUME p \in live PROVE FALSE
    <3>1. m \in live /\ rank[m] <= rank[p]
      BY <1>1, <1>2, <1>3, <1>6, <2>1 DEF Follows
    <3>2. rank[p] < rank[m]
      BY <1>2, <1>3, <2>1, <3>1 DEF Precedes
    <3> QED BY <1>3, <2>1, <3>1, <3>2
  <2>2. p = n
    BY <1>1, <1>2, <1>3, <1>6, <2>1
  <2> QED BY <2>2 DEF p, m
<1> QED BY <1>5, <1>6

(* Between calls each list is a ring of all the objects of its drive, in   *)
(* both directions (list.h).                                               *)
THEOREM ListsAreRings == ASSUME Apart PROVE Spec => []Rings
<1>1. ListInv => Rings
  <2> SUFFICES ASSUME ListInv, Quiet, NEW d \in Drives
               PROVE  /\ Reach(d) = Of(d) \cup {d}
                      /\ \A n \in Of(d) \cup {d} : flink[n] \in Node /\ blink[flink[n]] = n
    BY DEF Rings
  <2>1. PICK rank \in [Objs -> Nat] : Ranked(rank)
    BY DEF ListInv
  <2>2. HandlesInv
    BY DEF ListInv
  <2>3. Fwd = live /\ Back = live
    BY DEF Quiet, Fwd, Back, AwayF, AwayB, Gone, Linking
  <2>4. OnList(d) = Of(d) /\ Of(d) \cup {d} \subseteq live \cup Drives
    BY <2>3 DEF OnList, Of
  <2>5. \A n \in live \cup Drives : flink[n] \in Node
    BY <2>1, <2>2, <2>3, NextIn, Live
  <2>6. \A n \in live \cup Drives : blink[flink[n]] = n
    BY <2>1, <2>2, <2>3, BackAgain
  <2> QED BY <2>1, <2>2, <2>4, <2>5, <2>6, ReachIs
<1> QED BY <1>1, ListsInductive, PTL

----------------------------------------------------------------------------
(* What the refinement reads off the links is the chain.                   *)

LEMMA ForwardIs ==
  ASSUME NEW d \in Drives, NEW s, NEW n, Chain(d, s, n), n <= Cardinality(Objs)
  PROVE  Forward(d) = s
<1> DEFINE C == Cardinality(Objs)
           more(w) == IF Behind(d, w) \in Objs THEN Append(w, Behind(d, w)) ELSE w
           Meets(f) == f = [k \in 0 .. C |-> IF k = 0 THEN <<>> ELSE more(f[k - 1])]
           met == CHOOSE f : Meets(f)
           first(m) == [j \in 1 .. m |-> s[j]]
           upto(k) == first(IF k < n THEN k ELSE n)
<1>1. C \in Nat /\ d \notin Objs
  BY FS_CardinalityType, HandlesAssumption DEF HandlesAssumption
<1>2. n \in 0 .. C
  BY <1>1 DEF Chain
<1>3. Forward(d) = met[C]
  BY DEF Forward
<1>4. \A m \in 0 .. n : /\ first(m) \in Seq(Objs) /\ Len(first(m)) = m
                        /\ Behind(d, first(m)) = IF m = n THEN d ELSE s[m + 1]
  <2> SUFFICES ASSUME NEW m \in 0 .. n
               PROVE  /\ first(m) \in Seq(Objs) /\ Len(first(m)) = m
                      /\ Behind(d, first(m)) = IF m = n THEN d ELSE s[m + 1]
    OBVIOUS
  <2>1. first(m) \in [1 .. m -> Objs] /\ m \in Nat
    BY <1>1, <1>2 DEF Chain
  <2>2. first(m) \in Seq(Objs) /\ Len(first(m)) = m
    <3> HIDE DEF first
    <3> QED BY <2>1
  <2>3. CASE m = 0
    <3>1. first(m) = <<>>
      BY <2>2, <2>3
    <3>2. Behind(d, first(m)) = flink[d]
      <4> HIDE DEF first
      <4> QED BY <3>1 DEF Behind
    <3>3. flink[d] = IF m = n THEN d ELSE s[m + 1]
      BY <2>3 DEF Chain
    <3> HIDE DEF first
    <3> QED BY <2>2, <3>2, <3>3
  <2>4. CASE m # 0
    <3>1. m \in 1 .. n /\ first(m)[m] = s[m]
      BY <1>2, <2>1, <2>4
    <3>2. first(m) # <<>>
      BY <2>2, <2>4
    <3>3. Behind(d, first(m)) = flink[s[m]]
      <4> HIDE DEF first
      <4> QED BY <2>2, <3>1, <3>2 DEF Behind
    <3> QED BY <3>1, <3>3 DEF Chain
  <2> QED BY <2>2, <2>3, <2>4
<1>5. \A m \in 0 .. n : more(first(m)) = IF m = n THEN first(m) ELSE first(m + 1)
  <2> SUFFICES ASSUME NEW m \in 0 .. n
               PROVE  more(first(m)) = IF m = n THEN first(m) ELSE first(m + 1)
    OBVIOUS
  <2>1. CASE m = n
    <3>1. Behind(d, first(m)) = d
      BY <1>4, <2>1
    <3> HIDE DEF first
    <3> QED BY <1>1, <2>1, <3>1
  <2>2. CASE m # n
    <3>1. m + 1 \in 1 .. n /\ s[m + 1] \in Objs /\ m + 1 \in 0 .. n
      BY <1>2, <2>2 DEF Chain
    <3>2. Behind(d, first(m)) = s[m + 1]
      BY <1>4, <2>2
    <3>3. Append(first(m), s[m + 1]) = first(m + 1)
      <4>1. /\ first(m) \in Seq(Objs) /\ Len(first(m)) = m
            /\ first(m + 1) \in Seq(Objs) /\ Len(first(m + 1)) = m + 1
        BY <1>4, <3>1
      <4>2. first(m + 1)[m + 1] = s[m + 1] /\ \A j \in 1 .. m : first(m + 1)[j] = first(m)[j]
        BY <1>2, <3>1
      <4> HIDE DEF first
      <4> QED BY <1>2, <3>1, <4>1, <4>2
    <3> HIDE DEF first
    <3> QED BY <2>2, <3>1, <3>2, <3>3
  <2> QED BY <2>1, <2>2
<1> HIDE DEF first, more, C
<1> DEFINE f == [k \in 0 .. C |-> upto(k)]
<1>6. \A k \in 0 .. C : f[k] = IF k = 0 THEN <<>> ELSE more(f[k - 1])
  <2> SUFFICES ASSUME NEW k \in 0 .. C PROVE upto(k) = IF k = 0 THEN <<>> ELSE more(f[k - 1])
    OBVIOUS
  <2>1. CASE k = 0
    <3>1. upto(k) = first(0) /\ 0 \in 0 .. n
      BY <1>2, <2>1
    <3>2. first(0) = <<>>
      BY DEF first
    <3> QED BY <2>1, <3>1, <3>2
  <2>2. CASE k # 0
    <3>1. k - 1 \in 0 .. C /\ (k - 1) + 1 = k /\ f[k - 1] = upto(k - 1)
      BY <1>1, <2>2
    <3>2. CASE k - 1 < n
      <4>1. k - 1 \in 0 .. n /\ k - 1 # n
        BY <1>1, <1>2, <3>1, <3>2
      <4>2. more(first(k - 1)) = first(k)
        BY <1>5, <3>1, <4>1
      <4>3. upto(k) = first(k) /\ upto(k - 1) = first(k - 1)
        BY <1>1, <1>2, <3>1, <3>2
      <4> QED BY <2>2, <3>1, <4>2, <4>3
    <3>3. CASE ~(k - 1 < n)
      <4>1. upto(k) = first(n) /\ upto(k - 1) = first(n) /\ n \in 0 .. n
        BY <1>1, <1>2, <3>1, <3>3
      <4> QED BY <1>5, <2>2, <3>1, <4>1
    <3> QED BY <3>2, <3>3
  <2> QED BY <2>1, <2>2
<1>7. Meets(f)
  <2>1. f = [k \in 0 .. C |-> f[k]]
    OBVIOUS
  <2> HIDE DEF f
  <2> QED BY <1>6, <2>1
<1>8. Meets(met)
  <2> HIDE DEF Meets, f
  <2> QED BY <1>7, Zenon
<1>9. \A k \in 0 .. C : f[k] = upto(k)
  OBVIOUS
<1> HIDE DEF met, f, upto
<1>10. \A k \in 0 .. C : met[k] = IF k = 0 THEN <<>> ELSE more(met[k - 1])
  BY <1>8
<1> HIDE DEF Meets
<1>11. met[C] = f[C]
  <2> DEFINE T == {k \in 0 .. C : met[k] = f[k]}
  <2>1. 0 \in 0 .. C /\ C \in 0 .. C
    BY <1>1
  <2>2. 0 \in T
    BY <1>6, <1>10, <2>1
  <2>3. ASSUME NEW k \in 0 .. C - 1, k \in T PROVE k + 1 \in T
    <3>1. k + 1 \in 0 .. C /\ k + 1 # 0 /\ (k + 1) - 1 = k
      BY <1>1
    <3>2. met[k + 1] = more(met[k]) /\ f[k + 1] = more(f[k])
      BY <1>6, <1>10, <3>1
    <3> QED BY <2>3, <3>1, <3>2
  <2>4. 0 .. C \subseteq T
    <3> HIDE DEF T
    <3>1. \A k \in 0 .. C - 1 : k \in T => k + 1 \in T
      BY <2>3
    <3> QED BY <1>1, <2>2, <3>1, Induction
  <2> QED BY <2>1, <2>4
<1>12. f[C] = first(n)
  BY <1>1, <1>2, <1>9 DEF upto
<1>13. first(n) = s
  BY DEF first, Chain
<1> QED BY <1>3, <1>11, <1>12, <1>13

(* The same, for the states before and after a step.                       *)
Reads == \A d \in Drives, n \in Nat : \A s :
  Chain(d, s, n) /\ n <= Cardinality(Objs) => Forward(d) = s

LEMMA RemoveAtIs ==
  ASSUME NEW n \in Nat, NEW s \in [1 .. n -> Objs], NEW k \in 1 .. n
  PROVE  /\ List!RemoveAt(s, k) \in [1 .. n - 1 -> Objs]
         /\ \A i \in 1 .. n - 1 : List!RemoveAt(s, k)[i] = IF i < k THEN s[i] ELSE s[i + 1]
<1> DEFINE a == SubSeq(s, 1, k - 1)
           b == SubSeq(s, k + 1, n)
<1>1. s \in Seq(Objs) /\ Len(s) = n
  OBVIOUS
<1>2. a \in Seq(Objs) /\ Len(a) = k - 1 /\ \A i \in 1 .. k - 1 : a[i] = s[i]
  <2>1. \A i \in 1 .. k - 1 : s[i] \in Objs
    OBVIOUS
  <2>2. /\ a \in Seq(Objs) /\ Len(a) = IF 1 <= k - 1 THEN (k - 1) - 1 + 1 ELSE 0
        /\ \A i \in 1 .. (k - 1) - 1 + 1 : a[i] = s[1 + i - 1]
    BY <2>1, SubSeqProperties
  <2> HIDE DEF a
  <2> QED BY <2>2
<1>3. b \in Seq(Objs) /\ Len(b) = n - k /\ \A i \in 1 .. n - k : b[i] = s[k + i]
  <2>1. \A i \in k + 1 .. n : s[i] \in Objs
    OBVIOUS
  <2>2. /\ b \in Seq(Objs) /\ Len(b) = IF k + 1 <= n THEN n - (k + 1) + 1 ELSE 0
        /\ \A i \in 1 .. n - (k + 1) + 1 : b[i] = s[(k + 1) + i - 1]
    BY <2>1, SubSeqProperties
  <2> HIDE DEF b
  <2>3. Len(b) = n - k
    BY <2>2
  <2>4. ASSUME NEW i \in 1 .. n - k PROVE b[i] = s[k + i]
    <3>1. i \in 1 .. n - (k + 1) + 1 /\ (k + 1) + i - 1 = k + i
      OBVIOUS
    <3> QED BY <2>2, <3>1
  <2> QED BY <2>2, <2>3, <2>4
<1>4. List!RemoveAt(s, k) = a \o b
  BY <1>1 DEF List!RemoveAt
<1> HIDE DEF a, b
<1>5. /\ a \o b \in Seq(Objs) /\ Len(a \o b) = n - 1
      /\ \A i \in 1 .. n - 1 : (a \o b)[i] = IF i <= k - 1 THEN a[i] ELSE b[i - (k - 1)]
  <2>1. Len(a) + Len(b) = n - 1
    BY <1>2, <1>3
  <2>2. /\ a \o b \in Seq(Objs) /\ Len(a \o b) = Len(a) + Len(b)
        /\ \A i \in 1 .. Len(a) + Len(b) : (a \o b)[i] = IF i <= Len(a) THEN a[i] ELSE b[i - Len(a)]
    BY <1>2, <1>3, ConcatProperties
  <2> QED BY <1>2, <2>1, <2>2
<1>6. ASSUME NEW i \in 1 .. n - 1 PROVE (a \o b)[i] = IF i < k THEN s[i] ELSE s[i + 1]
  <2>1. CASE i < k
    <3>1. i \in 1 .. k - 1 /\ i <= k - 1
      BY <2>1
    <3> QED BY <1>2, <1>5, <2>1, <3>1
  <2>2. CASE ~(i < k)
    <3>1. i - (k - 1) \in 1 .. n - k /\ ~(i <= k - 1) /\ k + (i - (k - 1)) = i + 1
      BY <2>2
    <3>2. b[i - (k - 1)] = s[k + (i - (k - 1))]
      BY <1>3, <3>1
    <3> QED BY <1>5, <2>2, <3>1, <3>2
  <2> QED BY <2>1, <2>2
<1>7. a \o b \in [1 .. n - 1 -> Objs]
  BY <1>5, LenProperties
<1> QED BY <1>4, <1>6, <1>7

(* The lists a step leaves alone.                                          *)
LEMMA SameLists ==
  ASSUME HandlesInv, Reads, Reads', NEW rank \in [Objs -> Nat], Ranked(rank), NEW d \in Drives,
         \A n \in OnList(d) \cup {d} : flink'[n] = flink[n]
  PROVE  Forward(d)' = Forward(d)
<1>1n. PICK n \in Nat : \E s : Sorted(rank, d, s, n)
  BY ListEnds
<1>1. PICK s : Sorted(rank, d, s, n)
  BY <1>1n
<1>2. n <= Cardinality(Objs) /\ Chain(d, s, n) /\ \A k \in 1 .. n : s[k] \in OnList(d)
  BY <1>1, SortedShort DEF Sorted
<1>3. Chain(d, s, n)'
  BY <1>2 DEF Chain
<1> QED BY <1>2, <1>3 DEF Reads

LEMMA AppendIs ==
  ASSUME NEW n \in Nat, NEW s \in [1 .. n -> Objs], NEW o \in Objs
  PROVE  /\ Append(s, o) \in [1 .. n + 1 -> Objs]
         /\ \A i \in 1 .. n : Append(s, o)[i] = s[i]
         /\ Append(s, o)[n + 1] = o
<1>1. s \in Seq(Objs) /\ Len(s) = n
  OBVIOUS
<1>2. /\ Append(s, o) \in Seq(Objs) /\ Len(Append(s, o)) = Len(s) + 1
      /\ \A i \in 1 .. Len(s) : Append(s, o)[i] = s[i]
      /\ Append(s, o)[Len(s) + 1] = o
  BY <1>1, AppendProperties
<1>3. Append(s, o) \in [1 .. Len(Append(s, o)) -> Objs]
  BY <1>2, LenProperties
<1> QED BY <1>1, <1>2, <1>3

(* The store to Blink->Flink in InsertTailList opens the object.           *)
LEMMA LinkPrevOpens ==
  ASSUME Apart, ListInv, Reads, Reads', NEW t \in Threads, LinkPrev(t)
  PROVE  \E d \in Drives, o \in Objs : List!Opened(d, o)
<1>0. PICK o, d, q : o = obj[t] /\ d = drive[o] /\ q = blink[d]
  OBVIOUS
<1>1. /\ HasObject(t) /\ AwayF(t) /\ AwayB(t) /\ pc[t] = "linkPrev" /\ pc[t] \in Linking
      /\ HandlesInv /\ TypeOK
  BY DEF LinkPrev, HasObject, Linking, AwayF, AwayB, ListInv, HandlesInv
<1>2. PICK rank \in [Objs -> Nat] : Ranked(rank)
  BY DEF ListInv
<1>3. /\ o \in live /\ o \notin Drives /\ d \in Drives /\ o \notin Fwd /\ o \notin Back
      /\ \A p \in live : p # o /\ drive[p] = d => p \in Fwd /\ p \in Back
      /\ Fwd \subseteq live /\ Back \subseteq live
      /\ \A p \in live : rank[p] \in Nat /\ p \notin Drives /\ On(p) = drive[p]
      /\ \A e \in Drives : On(e) = e
      /\ \A p, r \in live : rank[p] = rank[r] => p = r
      /\ live \subseteq Objs
  BY <1>0, <1>1, <1>2, OwnList, Live
<1>4. dev[t] = d /\ flink[o] = d /\ prev[t] = q
  BY <1>0, <1>1, <1>3 DEF ListInv, Writer, Place
<1>5. q \in Back \cup Drives /\ On(q) = d /\ Precedes(rank, d, q)
  BY <1>0, <1>1, <1>2, <1>3, PrevIn DEF Ranked
<1>6. Readable(prev[t])
  BY <1>3, <1>4, <1>5 DEF Readable
<1>7. flink'[q] = o /\ \A n \in live \cup Drives : n # q => flink'[n] = flink[n]
  BY <1>0, <1>1, <1>3, <1>4, <1>5, <1>6, Live DEF LinkPrev, TypeOK
<1>8n. PICK n \in Nat : \E s : Sorted(rank, d, s, n)
  BY <1>1, <1>2, <1>3, ListEnds
<1>8. PICK s : Sorted(rank, d, s, n)
  BY <1>8n
<1>9. /\ Chain(d, s, n) /\ s \in [1 .. n -> Objs] /\ n <= Cardinality(Objs)
      /\ \A k \in 1 .. n : s[k] \in OnList(d) /\ s[k] \in live /\ s[k] # o /\ drive[s[k]] = d
  <2>1. n <= Cardinality(Objs)
    BY <1>8, SortedShort
  <2> QED BY <1>3, <1>8, <2>1 DEF Sorted, Chain, OnList
(* The last element of the list is the one that was linked last.           *)
<1>10. q = IF n = 0 THEN d ELSE s[n]
  <2>1. q \in Drives => q = d
    BY <1>3, <1>5
  <2>2. CASE n = 0
    <3>1. ASSUME q \in Back PROVE FALSE
      <4>1. q \in live /\ drive[q] = d /\ q # o
        BY <1>3, <1>5, <3>1
      <4>2. q \in OnList(d)
        BY <1>3, <4>1 DEF OnList
      <4> QED BY <1>8, <2>2, <4>2 DEF Sorted
    <3> QED BY <1>5, <2>1, <2>2, <3>1
  <2>3. CASE n # 0
    <3>1. n \in 1 .. n
      BY <2>3
    <3>2. s[n] \in Back /\ drive[s[n]] = d
      BY <1>3, <1>9, <3>1
    <3>3. q \in Back /\ rank[s[n]] <= rank[q]
      BY <1>3, <1>5, <3>2 DEF Precedes
    <3>4. q \in live /\ drive[q] = d /\ q # o
      BY <1>3, <1>5, <3>3
    <3>5. q \in OnList(d)
      BY <1>3, <3>4 DEF OnList
    <3>6. PICK k \in 1 .. n : s[k] = q
      BY <1>8, <3>5 DEF Sorted
    <3>7. k < n => rank[s[k]] < rank[s[n]]
      BY <1>8, <3>1 DEF Sorted
    <3>8. rank[s[n]] \in Nat /\ rank[q] \in Nat
      BY <1>3, <3>2, <3>4
    <3> QED BY <2>3, <3>3, <3>6, <3>7, <3>8
  <2> QED BY <2>2, <2>3
<1> DEFINE w == Append(s, o)
<1>11. /\ w \in [1 .. n + 1 -> Objs]
       /\ \A i \in 1 .. n : w[i] = s[i]
       /\ w[n + 1] = o
  <2>1. o \in Objs
    BY <1>3
  <2>2. s \in [1 .. n -> Objs]
    BY <1>9
  <2> QED BY <1>8, <2>1, <2>2, AppendIs
<1> HIDE DEF w
<1>12. Chain(d, w, n + 1)'
  <2>1. flink'[d] = w[1]
    <3>1. CASE n = 0
      BY <1>7, <1>10, <1>11, <3>1
    <3>2. CASE n # 0
      <4>1. 1 \in 1 .. n /\ n \in 1 .. n
        BY <3>2
      <4>2. d # q /\ flink[d] = s[1]
        BY <1>3, <1>9, <1>10, <3>2, <4>1 DEF Chain
      <4> QED BY <1>3, <1>7, <1>11, <4>1, <4>2
    <3> QED BY <3>1, <3>2
  <2>2. ASSUME NEW k \in 1 .. n + 1 PROVE flink'[w[k]] = IF k = n + 1 THEN d ELSE w[k + 1]
    <3>1. CASE k = n + 1
      <4>1. o # q
        BY <1>3, <1>5
      <4>2. flink[o] = d
        BY <1>4
      <4> QED BY <1>3, <1>7, <1>11, <3>1, <4>1, <4>2
    <3>2. CASE k = n
      <4>1. k \in 1 .. n /\ n # 0 /\ k # n + 1
        BY <3>2
      <4> QED BY <1>7, <1>10, <1>11, <3>2, <4>1
    <3>3. CASE k # n /\ k # n + 1
      <4>1. k \in 1 .. n /\ k + 1 \in 1 .. n /\ n \in 1 .. n /\ n # 0 /\ k < n
        BY <3>3
      <4>2. s[k] # q
        <5>1. rank[s[k]] < rank[s[n]] /\ rank[s[n]] \in Nat
          BY <1>3, <1>8, <1>9, <4>1 DEF Sorted
        <5> QED BY <1>10, <4>1, <5>1
      <4>3. flink[s[k]] = s[k + 1]
        BY <1>9, <3>3, <4>1 DEF Chain
      <4>4. w[k] = s[k] /\ w[k + 1] = s[k + 1]
        BY <1>11, <4>1
      <4> QED BY <1>7, <1>9, <3>3, <4>1, <4>2, <4>3, <4>4
    <3> QED BY <3>1, <3>2, <3>3
  <2> QED BY <1>11, <2>1, <2>2 DEF Chain
<1>13. n + 1 <= Cardinality(Objs)
  <2>1. ASSUME NEW j \in 1 .. n + 1, NEW k \in 1 .. n + 1, j < k PROVE w[j] # w[k]
    <3>1. j \in 1 .. n /\ w[j] = s[j]
      BY <1>11, <2>1
    <3>2. CASE k = n + 1
      BY <1>9, <1>11, <3>1, <3>2
    <3>3. CASE k # n + 1
      <4>1. k \in 1 .. n /\ w[k] = s[k]
        BY <1>11, <3>3
      <4>2. rank[s[j]] < rank[s[k]] /\ rank[s[k]] \in Nat
        BY <1>3, <1>8, <1>9, <2>1, <3>1, <4>1 DEF Sorted
      <4> QED BY <3>1, <4>1, <4>2
    <3> QED BY <3>2, <3>3
  <2>2. \A j, k \in 1 .. n + 1 : w[j] = w[k] => j = k
    <3>1. \A j, k \in 1 .. n + 1 : j = k \/ j < k \/ k < j
      OBVIOUS
    <3> QED BY <2>1, <3>1
  <2>3. n + 1 \in Nat
    OBVIOUS
  <2> QED BY <1>11, <2>2, <2>3, NoMoreThanObjects
<1>14. Forward(d) = s /\ Forward(d)' = w
  <2>1. n + 1 \in Nat
    OBVIOUS
  <2> QED BY <1>3, <1>9, <1>12, <1>13, <2>1 DEF Reads
<1>15. ASSUME NEW e \in Drives, e # d PROVE Forward(e)' = Forward(e)
  <2>1. \A m \in OnList(e) \cup {e} : m # q /\ m \in live \cup Drives
    <3>1. ASSUME NEW m \in OnList(e) PROVE m # q /\ m \in live
      <4>1. m \in live /\ On(m) = e
        BY <1>3 DEF OnList
      <4> QED BY <1>5, <1>15, <4>1
    <3>2. e # q
      BY <1>3, <1>5, <1>15
    <3> QED BY <3>1, <3>2
  <2> QED BY <1>1, <1>2, <1>7, <2>1, SameLists
<1>16. o \notin List!Listed
  <2>1. ASSUME NEW e \in Drives, NEW i \in DOMAIN Forward(e) PROVE Forward(e)[i] # o
    <3>1n. PICK m \in Nat : \E r : Sorted(rank, e, r, m)
      BY <1>1, <1>2, ListEnds
    <3>1. PICK r : Sorted(rank, e, r, m)
      BY <3>1n
    <3>2. Forward(e) = r
      BY <3>1, SortedShort DEF Reads, Sorted
    <3>3. DOMAIN r = 1 .. m
      BY <3>1 DEF Sorted, Chain
    <3> QED BY <1>3, <2>1, <3>1, <3>2, <3>3 DEF Sorted, OnList
  <2> QED BY <2>1 DEF List!Listed, List!ToSet
<1>17. [e \in Drives |-> Forward(e)]' = [[e \in Drives |-> Forward(e)] EXCEPT ![d] = Append(@, o)]
  BY <1>3, <1>14, <1>15 DEF w
<1>18. List!Opened(d, o)
  BY <1>16, <1>17 DEF List!Opened
<1> QED BY <1>3, <1>18

(* The store to Blink->Flink in RemoveEntryList closes it.                 *)
LEMMA UnlinkPrevCloses ==
  ASSUME Apart, ListInv, Reads, Reads', NEW t \in Threads, UnlinkPrev(t)
  PROVE  \E d \in Drives, o \in Objs : List!Closed(d, o)
<1>0. PICK o, d, a, b : o = obj[t] /\ d = drive[o] /\ a = flink[o] /\ b = blink[o]
  OBVIOUS
<1>1. /\ HasObject(t) /\ ~AwayF(t) /\ ~AwayB(t) /\ pc[t] = "unlinkPrev" /\ op[t] = "close"
      /\ HandlesInv /\ TypeOK
  <2>1. HandlesInv /\ TypeOK /\ pc[t] = "unlinkPrev"
    BY DEF UnlinkPrev, ListInv, HandlesInv
  <2>2. HasObject(t)
    BY <2>1, AwayHas DEF Unlinking
  <2> QED BY <2>1, <2>2 DEF HasObject, Linking, AwayF, AwayB, Gone
<1>2. PICK rank \in [Objs -> Nat] : Ranked(rank)
  BY DEF ListInv
<1>3. /\ o \in live /\ o \notin Drives /\ d \in Drives /\ o \in Fwd /\ o \in Back
      /\ \A p \in live : p # o /\ drive[p] = d => p \in Fwd /\ p \in Back
      /\ Fwd \subseteq live /\ Back \subseteq live
      /\ \A p \in live : rank[p] \in Nat /\ p \notin Drives /\ On(p) = drive[p]
      /\ \A e \in Drives : On(e) = e
      /\ \A p, r \in live : rank[p] = rank[r] => p = r
      /\ live \subseteq Objs
  BY <1>0, <1>1, <1>2, OwnList, Live
<1>4. next[t] = a /\ prev[t] = b
  BY <1>0, <1>1 DEF Place, ListInv
<1>5. b \in Back \cup Drives /\ On(b) = d /\ Precedes(rank, o, b)
  BY <1>0, <1>1, <1>2, <1>3, PrevIn DEF Ranked
<1>6. Readable(prev[t])
  BY <1>3, <1>4, <1>5 DEF Readable
<1>7. flink'[b] = a /\ \A n \in live \cup Drives : n # b => flink'[n] = flink[n]
  BY <1>0, <1>1, <1>3, <1>4, <1>5, <1>6, Live DEF UnlinkPrev, TypeOK
<1>8n. PICK n \in Nat : \E s : Sorted(rank, d, s, n)
  BY <1>1, <1>2, <1>3, ListEnds
<1>8. PICK s : Sorted(rank, d, s, n)
  BY <1>8n
<1>9. /\ Chain(d, s, n) /\ s \in [1 .. n -> Objs] /\ n <= Cardinality(Objs)
      /\ \A k \in 1 .. n : s[k] \in OnList(d) /\ s[k] \in live /\ s[k] \in Back /\ drive[s[k]] = d
  <2>1. n <= Cardinality(Objs)
    BY <1>8, SortedShort
  <2> QED BY <1>3, <1>8, <2>1 DEF Sorted, Chain, OnList
<1>10. PICK k \in 1 .. n : s[k] = o
  <2>1. o \in OnList(d)
    BY <1>0, <1>3 DEF OnList
  <2> QED BY <1>8, <2>1 DEF Sorted
<1>11. \A i, j \in 1 .. n : /\ i < j => rank[s[i]] < rank[s[j]]
                           /\ rank[s[i]] \in Nat /\ (s[i] = s[j] => i = j)
  <2>1. \A i \in 1 .. n : rank[s[i]] \in Nat
    BY <1>3, <1>9
  <2>2. \A i, j \in 1 .. n : i < j => rank[s[i]] < rank[s[j]]
    BY <1>8 DEF Sorted
  <2>3. \A i, j \in 1 .. n : i = j \/ i < j \/ j < i
    OBVIOUS
  <2>4. ASSUME NEW i \in 1 .. n, NEW j \in 1 .. n, s[i] = s[j] PROVE i = j
    BY <2>1, <2>2, <2>3, <2>4
  <2> QED BY <2>1, <2>2, <2>4
(* What was linked before it is what comes before it.                      *)
<1>12. b = IF k = 1 THEN d ELSE s[k - 1]
  <2>1. b \in Drives => b = d
    BY <1>3, <1>5
  <2>2. ASSUME b \in Back PROVE \E j \in 1 .. n : s[j] = b /\ j < k
    <3>1. b \in live /\ drive[b] = d /\ On(o) = d
      BY <1>0, <1>3, <1>5, <2>2
    <3>2. rank[b] < rank[o]
      BY <1>3, <1>5, <2>2, <3>1 DEF Precedes
    <3>3. b \in OnList(d)
      BY <1>0, <1>3, <3>1, <3>2 DEF OnList
    <3>4. PICK j \in 1 .. n : s[j] = b
      BY <1>8, <3>3 DEF Sorted
    <3>5. j < k
      <4>1. j = k \/ j < k \/ k < j
        OBVIOUS
      <4> QED BY <1>10, <1>11, <3>2, <3>4, <4>1
    <3> QED BY <3>4, <3>5
  <2>3. CASE k = 1
    BY <1>5, <2>1, <2>2, <2>3
  <2>4. CASE k # 1
    <3>1. k - 1 \in 1 .. n /\ k - 1 < k
      BY <2>4
    <3>2. s[k - 1] \in Back /\ drive[s[k - 1]] = d /\ rank[s[k - 1]] < rank[o]
      BY <1>9, <1>10, <1>11, <3>1
    <3>3. b \in Back /\ rank[s[k - 1]] <= rank[b]
      BY <1>0, <1>3, <1>5, <3>2 DEF Precedes
    <3>4. PICK j \in 1 .. n : s[j] = b /\ j < k
      BY <2>2, <3>3
    <3>5. ~(j < k - 1)
      BY <1>11, <3>1, <3>3, <3>4
    <3>6. j = k - 1
      BY <3>4, <3>5
    <3> QED BY <2>4, <3>4, <3>6
  <2> QED BY <2>3, <2>4
<1>13. a = IF k = n THEN d ELSE s[k + 1]
  BY <1>0, <1>9, <1>10 DEF Chain
<1>14. PICK w : /\ w = List!RemoveAt(s, k) /\ w \in [1 .. n - 1 -> Objs]
                /\ \A i \in 1 .. n - 1 : w[i] = IF i < k THEN s[i] ELSE s[i + 1]
  <2>1. s \in [1 .. n -> Objs]
    BY <1>9
  <2> QED BY <1>8, <1>10, <2>1, RemoveAtIs
<1>15. Chain(d, w, n - 1)'
  <2>1. n - 1 \in Nat
    OBVIOUS
  <2>2. flink'[d] = IF n - 1 = 0 THEN d ELSE w[1]
    <3>1. CASE k = 1
      <4>1. n - 1 # 0 => 1 \in 1 .. n - 1
        BY <2>1
      <4>2. n - 1 # 0 => w[1] = s[k + 1] /\ k # n
        BY <1>14, <3>1, <4>1
      <4>3. n - 1 = 0 => k = n
        BY <3>1
      <4> QED BY <1>7, <1>12, <1>13, <3>1, <4>2, <4>3
    <3>2. CASE k # 1
      <4>1. 1 \in 1 .. n - 1 /\ 1 < k /\ n # 0 /\ n - 1 # 0 /\ k - 1 \in 1 .. n
        BY <3>2
      <4>2. w[1] = s[1] /\ flink[d] = s[1]
        BY <1>9, <1>14, <4>1 DEF Chain
      <4>3. d # b
        BY <1>3, <1>9, <1>12, <3>2, <4>1
      <4> QED BY <1>3, <1>7, <4>1, <4>2, <4>3
    <3> QED BY <3>1, <3>2
  <2>3. ASSUME NEW i \in 1 .. n - 1 PROVE flink'[w[i]] = IF i = n - 1 THEN d ELSE w[i + 1]
    <3>0. i \in 1 .. n /\ i + 1 \in 1 .. n /\ (i # n - 1 => i + 1 \in 1 .. n - 1)
      OBVIOUS
    <3>1. CASE i + 1 = k
      <4>1. w[i] = b
        <5>1. k # 1 /\ i < k /\ k - 1 = i
          BY <3>1
        <5> QED BY <1>12, <1>14, <5>1
      <4>2. i # n - 1 => w[i + 1] = s[k + 1] /\ k # n
        <5>1. i # n - 1 => k # n /\ ~(k < k)
          BY <3>1
        <5> QED BY <1>14, <3>0, <3>1, <5>1
      <4>3. i = n - 1 => k = n
        BY <3>1
      <4> QED BY <1>7, <1>13, <4>1, <4>2, <4>3
    <3>2. CASE i + 1 < k
      <4>1. i < k /\ i # n - 1 /\ i # n
        BY <3>2
      <4>2. w[i] = s[i] /\ w[i + 1] = s[i + 1]
        BY <1>14, <3>0, <3>2, <4>1
      <4>3. flink[s[i]] = s[i + 1]
        BY <1>9, <3>0, <4>1 DEF Chain
      <4>4. s[i] # b
        <5>1. k # 1 /\ k - 1 \in 1 .. n /\ i # k - 1
          BY <3>2
        <5> QED BY <1>11, <1>12, <3>0, <5>1
      <4> QED BY <1>7, <1>9, <3>0, <4>1, <4>2, <4>3, <4>4
    <3>3. CASE k < i + 1
      <4>1. ~(i < k) /\ ~(i + 1 < k) /\ (i + 1) + 1 = i + 2 /\ (i + 1 = n <=> i = n - 1)
        BY <3>3
      <4>2. w[i] = s[i + 1] /\ (i # n - 1 => w[i + 1] = s[(i + 1) + 1])
        BY <1>14, <3>0, <4>1
      <4>3. flink[s[i + 1]] = IF i + 1 = n THEN d ELSE s[(i + 1) + 1]
        BY <1>9, <3>0 DEF Chain
      <4>4. s[i + 1] # b
        <5>1. k # 1 => k - 1 \in 1 .. n /\ i + 1 # k - 1
          BY <3>3
        <5>2. s[i + 1] # d
          BY <1>3, <1>9, <3>0
        <5> QED BY <1>11, <1>12, <3>0, <5>1, <5>2
      <4> QED BY <1>7, <1>9, <3>0, <4>1, <4>2, <4>3, <4>4
    <3> QED BY <3>1, <3>2, <3>3
  <2> QED BY <1>14, <2>1, <2>2, <2>3 DEF Chain
<1>16. Forward(d) = s /\ Forward(d)' = w
  <2>1. n - 1 \in Nat /\ n - 1 <= Cardinality(Objs)
    BY <1>9, FS_CardinalityType, HandlesAssumption DEF HandlesAssumption
  <2> QED BY <1>3, <1>9, <1>15, <2>1 DEF Reads
<1>17. ASSUME NEW e \in Drives, e # d PROVE Forward(e)' = Forward(e)
  <2>1. \A m \in OnList(e) \cup {e} : m # b /\ m \in live \cup Drives
    <3>1. ASSUME NEW m \in OnList(e) PROVE m # b /\ m \in live
      <4>1. m \in live /\ On(m) = e
        BY <1>3 DEF OnList
      <4> QED BY <1>5, <1>17, <4>1
    <3>2. e # b
      BY <1>3, <1>5, <1>17
    <3> QED BY <3>1, <3>2
  <2> QED BY <1>1, <1>2, <1>7, <2>1, SameLists
<1>18. [e \in Drives |-> Forward(e)]' = [[e \in Drives |-> Forward(e)] EXCEPT ![d] = List!RemoveAt(@, k)]
  BY <1>3, <1>14, <1>16, <1>17
<1>19. k \in DOMAIN [e \in Drives |-> Forward(e)][d] /\ [e \in Drives |-> Forward(e)][d][k] = o
  BY <1>3, <1>9, <1>10, <1>16
<1>20. List!Closed(d, o)
  BY <1>18, <1>19 DEF List!Closed
<1> QED BY <1>3, <1>20

(* No other step changes a list: DevBlkOpen's calloc sets the links of an  *)
(* object that is on none.                                                 *)
LEMMA RestKeepsLists ==
  ASSUME ListInv, Reads, Reads', NEW t \in Threads, Call(t) \/ Continue(t),
         ~LinkPrev(t), ~UnlinkPrev(t)
  PROVE  [d \in Drives |-> Forward(d)]' = [d \in Drives |-> Forward(d)]
<1>1. HandlesInv /\ TypeOK
  BY DEF ListInv, HandlesInv
<1>2. PICK rank \in [Objs -> Nat] : Ranked(rank)
  BY DEF ListInv
<1>3. \A n \in live \cup Drives : flink'[n] = flink[n]
  <2>1. CASE Calloc(t)
    <3>1. CASE UNCHANGED links
      BY <3>1 DEF links
    <3>2. CASE ~UNCHANGED links
      <4>1. PICK o \in Objs \ live : flink' = [flink EXCEPT ![o] = dev[t]]
        BY <2>1, <3>2 DEF Calloc, GiveUp
      <4> QED BY <1>1, <4>1, Live, Names DEF TypeOK, Node
    <3> QED BY <3>1, <3>2
  <2>2. CASE ~Calloc(t)
    <3>1. flink' = flink
      BY <2>2 DEF Call, Continue, OpenStep, WalkStep, CloseStep, CreateFile, MoveToStart, LinkHead, Close,
         IsValidHandle, FromDiskHandle, GetDiskHandle, WalkOn, WalkFinds, WalkEnds, UnlinkNext, Free, links
    <3> QED BY <3>1
  <2> QED BY <2>1, <2>2
<1>4. ASSUME NEW d \in Drives PROVE Forward(d)' = Forward(d)
  <2>1. \A n \in OnList(d) \cup {d} : n \in live \cup Drives
    BY <1>1, HeldLinked DEF OnList
  <2> QED BY <1>1, <1>2, <1>3, <2>1, SameLists
<1> QED BY <1>4

LEMMA ListRefined ==
  ASSUME Apart, ListInv, Reads, Reads', [Next]_vars
  PROVE  [List!Next]_([d \in Drives |-> Forward(d)])
<1>1. CASE UNCHANGED vars
  <2>1. flink' = flink
    BY <1>1 DEF vars, links
  <2>2. PICK rank \in [Objs -> Nat] : Ranked(rank)
    BY DEF ListInv
  <2>3. HandlesInv
    BY DEF ListInv
  <2>4. \A d \in Drives : Forward(d)' = Forward(d)
    BY <2>1, <2>2, <2>3, SameLists
  <2> QED BY <2>4
<1>2. ASSUME NEW t \in Threads, Call(t) \/ Continue(t)
      PROVE  [List!Next]_([d \in Drives |-> Forward(d)])
  <2>1. CASE LinkPrev(t)
    BY <2>1, LinkPrevOpens DEF List!Next
  <2>2. CASE UnlinkPrev(t)
    BY <2>2, UnlinkPrevCloses DEF List!Next
  <2>3. CASE ~LinkPrev(t) /\ ~UnlinkPrev(t)
    BY <1>2, <2>3, RestKeepsLists
  <2> QED BY <2>1, <2>2, <2>3
<1> QED BY <1>1, <1>2 DEF Next

LEMMA ListStarts == Init => List!Init
<1> SUFFICES ASSUME Init PROVE List!Init
  OBVIOUS
<1>1. ASSUME NEW d \in Drives PROVE Forward(d) = <<>>
  <2>1. <<>> \in [1 .. 0 -> Objs]
    OBVIOUS
  <2>2. flink[d] = d
    BY DEF Init, Node
  <2>3. Chain(d, <<>>, 0)
    BY <2>1, <2>2 DEF Chain
  <2>4. 0 <= Cardinality(Objs)
    BY FS_CardinalityType, HandlesAssumption DEF HandlesAssumption
  <2> QED BY <2>3, <2>4, ForwardIs
<1> QED BY <1>1 DEF List!Init

(* Where each list has one thread that changes it, opening and closing     *)
(* look like atomic appends and removals to every traversal, though each   *)
(* is several stores and nothing is locked (list.h, windevblk.c:188, 510). *)
THEOREM RegistryIsList == ASSUME Apart PROVE Spec => ImplementsList
<1>1. Reads
  BY ForwardIs DEF Reads
<1>2. ListInv /\ Reads /\ Reads' /\ [Next]_vars => [List!Next]_([d \in Drives |-> Forward(d)])
  BY ListRefined
<1> QED BY <1>1, <1>2, ListStarts, ListsInductive, PTL DEF Spec, ImplementsList, List!Spec

----------------------------------------------------------------------------
(* What the queries answer when they run alone.                            *)
OneCaller == \A t, u \in Threads : t = u

(* The traversal of t is yet to come to o.                                 *)
Ahead(t, o) == \E i, j \in DOMAIN Forward(drive[o]) :
  i <= j /\ Forward(drive[o])[i] = entry[t] /\ Forward(drive[o])[j] = o

(* What a query looks for is still to come, in this list or a later one.   *)
AskInv == \A t \in Threads, o \in held : pc[t] = "walk" =>
  /\ op[t] = "valid" /\ obj[t] = o => Ahead(t, o)
  /\ op[t] = "find" /\ handle[o] = hnd[t] =>
       drive[o] > dev[t] \/ (drive[o] = dev[t] /\ Ahead(t, o))

LEMMA CallersApart == OneCaller => Apart
BY DEF OneCaller, Apart

(* The list of a drive: it starts at the head, goes on to the head, and    *)
(* has what callers hold.                                                  *)
LEMMA ForwardHolds ==
  ASSUME ListInv, Reads, NEW d \in Drives
  PROVE  \E n \in Nat : /\ DOMAIN Forward(d) = 1 .. n
                        /\ n # 0 => flink[d] = Forward(d)[1]
                        /\ \A k \in 1 .. n : /\ Forward(d)[k] \in Objs /\ Forward(d)[k] \notin Drives
                                             /\ k # n => flink[Forward(d)[k]] = Forward(d)[k + 1]
                        /\ \A o \in held : drive[o] = d => \E k \in 1 .. n : Forward(d)[k] = o
<1>1. HandlesInv
  BY DEF ListInv
<1>2. PICK rank \in [Objs -> Nat] : Ranked(rank)
  BY DEF ListInv
<1>3n. PICK n \in Nat : \E s : Sorted(rank, d, s, n)
  BY <1>1, <1>2, ListEnds
<1>3. PICK s : Sorted(rank, d, s, n)
  BY <1>3n
<1>4. n <= Cardinality(Objs)
  BY <1>2, <1>3, SortedShort
<1>5. Chain(d, s, n)
  BY <1>3 DEF Sorted
<1>6. Forward(d) = s
  BY <1>3, <1>4, <1>5 DEF Reads
<1>7. \A o \in held : drive[o] = d => \E k \in 1 .. n : s[k] = o
  BY <1>1, <1>3, HeldLinked DEF Sorted, OnList
<1>8. \A k \in 1 .. n : s[k] \in Objs /\ s[k] \notin Drives
  BY <1>5, Names DEF Chain
<1> QED BY <1>3, <1>5, <1>6, <1>7, <1>8 DEF Chain

(* A traversal that starts has all that is held on the list ahead.         *)
LEMMA AllAhead ==
  ASSUME ListInv, Reads, Reads', NEW t \in Threads, UNCHANGED <<drive, flink, held>>, HandlesInv',
         NEW o \in held, entry'[t] = flink[drive[o]]
  PROVE  Ahead(t, o)'
<1>1. HandlesInv /\ drive[o] \in Drives
  BY HeldLinked, Live DEF ListInv
<1>2. PICK rank \in [Objs -> Nat] : Ranked(rank)
  BY DEF ListInv
<1>3. Forward(drive[o])' = Forward(drive[o])
  <2>1. PICK d \in Drives : d = drive[o] /\ d = drive'[o]
    BY <1>1
  <2>2. Forward(d)' = Forward(d)
    BY <1>1, <1>2, SameLists
  <2> QED BY <2>1, <2>2
<1>4. PICK n \in Nat : /\ DOMAIN Forward(drive[o]) = 1 .. n
                       /\ n # 0 => flink[drive[o]] = Forward(drive[o])[1]
                       /\ \E k \in 1 .. n : Forward(drive[o])[k] = o
  <2>1. PICK d \in Drives : d = drive[o]
    BY <1>1
  <2> QED BY <2>1, ForwardHolds
<1>5. PICK k \in 1 .. n : Forward(drive[o])[k] = o
  BY <1>4
<1>6. 1 \in 1 .. n /\ 1 <= k /\ n # 0
  OBVIOUS
<1> QED BY <1>3, <1>4, <1>5, <1>6 DEF Ahead

(* One that goes on has come nearer to what it has not met.                *)
LEMMA StillAhead ==
  ASSUME ListInv, Reads, Reads', NEW t \in Threads, UNCHANGED <<drive, flink>>,
         NEW o \in held, Ahead(t, o), entry[t] # o, entry'[t] = flink[entry[t]]
  PROVE  Ahead(t, o)'
<1>1. HandlesInv /\ drive[o] \in Drives
  BY HeldLinked, Live DEF ListInv
<1>2. PICK rank \in [Objs -> Nat] : Ranked(rank)
  BY DEF ListInv
<1>3. PICK d \in Drives : d = drive[o] /\ d = drive'[o]
  BY <1>1
<1>4. Forward(d)' = Forward(d)
  BY <1>1, <1>2, SameLists
<1>5. PICK n \in Nat : /\ DOMAIN Forward(d) = 1 .. n
                       /\ \A k \in 1 .. n : k # n => flink[Forward(d)[k]] = Forward(d)[k + 1]
  BY ForwardHolds
<1>6. PICK i \in 1 .. n, j \in 1 .. n : i <= j /\ Forward(d)[i] = entry[t] /\ Forward(d)[j] = o
  BY <1>3, <1>5 DEF Ahead
<1>7. i + 1 \in 1 .. n /\ i + 1 <= j /\ i # n
  <2>1. i # j
    BY <1>6
  <2> QED BY <1>6, <2>1
<1>8. Forward(d)'[i + 1] = entry'[t] /\ Forward(d)'[j] = o /\ DOMAIN Forward(d)' = 1 .. n
  BY <1>4, <1>5, <1>6, <1>7
<1>9. Forward(drive[o])' = Forward(d)'
  BY <1>3
<1> QED BY <1>6, <1>7, <1>8, <1>9 DEF Ahead

LEMMA NotAtHead ==
  ASSUME ListInv, Reads, NEW t \in Threads, NEW o \in held, Ahead(t, o)
  PROVE  entry[t] \in Objs /\ entry[t] \notin Drives
<1>1. PICK d \in Drives : d = drive[o]
  BY HeldLinked, Live DEF ListInv
<1>2. \A i \in DOMAIN Forward(d) : Forward(d)[i] \in Objs /\ Forward(d)[i] \notin Drives
  BY ForwardHolds
<1> QED BY <1>1, <1>2 DEF Ahead

LEMMA AskStep ==
  ASSUME OneCaller, ListInv, ListInv', Reads, Reads', AskInv, [Next]_vars
  PROVE  AskInv'
<1>1. TypeOK /\ HandlesInv /\ HandlesInv' /\ held \subseteq live /\ live \subseteq Objs
  BY DEF ListInv, HandlesInv, TypeOK
<1> SUFFICES ASSUME NEW t \in Threads, NEW o \in held', pc'[t] = "walk"
             PROVE  /\ op'[t] = "valid" /\ obj'[t] = o => Ahead(t, o)'
                    /\ op'[t] = "find" /\ handle'[o] = hnd'[t] =>
                         drive'[o] > dev'[t] \/ (drive'[o] = dev'[t] /\ Ahead(t, o)')
  BY DEF AskInv
<1>2. CASE UNCHANGED vars
  <2>1. UNCHANGED <<drive, handle, flink, held, pc, op, obj, hnd, dev, entry>>
    BY <1>2 DEF vars, heap, links, locals
  <2>2. PICK d \in Drives : d = drive[o] /\ d = drive'[o]
    BY <1>1, <2>1, HeldLinked, Live
  <2>3. PICK rank \in [Objs -> Nat] : Ranked(rank)
    BY DEF ListInv
  <2>4. Forward(d)' = Forward(d)
    BY <1>1, <2>1, <2>3, SameLists
  <2>5. Ahead(t, o) => Ahead(t, o)'
    BY <2>1, <2>2, <2>4 DEF Ahead
  <2> QED BY <2>1, <2>5 DEF AskInv
<1>3. CASE ~UNCHANGED vars
  <2>1. Call(t) \/ Continue(t)
    BY <1>3 DEF Next, OneCaller
  <2>2. ASSUME NEW p \in Objs, IsValidHandle(t, p)
        PROVE  /\ op'[t] = "valid" /\ obj'[t] = o => Ahead(t, o)'
               /\ op'[t] = "find" /\ handle'[o] = hnd'[t] =>
                    drive'[o] > dev'[t] \/ (drive'[o] = dev'[t] /\ Ahead(t, o)')
    <3>1. StartWalk(t, "valid", p, Null, drive[p]) /\ UNCHANGED <<drive, flink, held>>
      BY <1>1, <2>2 DEF IsValidHandle, Return, Goto, TypeOK, heap, links
    <3>2. op'[t] = "valid" /\ obj'[t] = p /\ entry'[t] = flink[drive[p]]
      BY <1>1, <3>1 DEF StartWalk, TypeOK
    <3> QED BY <1>1, <3>1, <3>2, AllAhead
  <2>3. ASSUME NEW h \in OSHandles, FromDiskHandle(t, h)
        PROVE  /\ op'[t] = "valid" /\ obj'[t] = o => Ahead(t, o)'
               /\ op'[t] = "find" /\ handle'[o] = hnd'[t] =>
                    drive'[o] > dev'[t] \/ (drive'[o] = dev'[t] /\ Ahead(t, o)')
    <3>1. StartWalk(t, "find", Null, h, Min(Drives)) /\ UNCHANGED <<drive, flink, held>>
      BY <2>3 DEF FromDiskHandle, heap, links
    <3>2. op'[t] = "find" /\ dev'[t] = Min(Drives) /\ entry'[t] = flink[Min(Drives)]
      BY <1>1, <3>1 DEF StartWalk, TypeOK
    <3>3. drive[o] \in Drives
      BY <1>1, <3>1, HeldLinked, Live
    <3>4. drive[o] \in Nat /\ Min(Drives) \in Nat /\ Min(Drives) <= drive[o]
      BY <3>3, MinIn, Names
    <3>5. drive[o] = Min(Drives) => Ahead(t, o)'
      BY <1>1, <3>1, <3>2, AllAhead
    <3> QED BY <3>1, <3>2, <3>4, <3>5
  <2>4. CASE WalkOn(t)
    <3>1. pc[t] = "walk" /\ ~Sought(t) /\ UNCHANGED <<heap, links, held>>
      BY <2>4 DEF WalkOn
    <3>2. StepTo(t, flink[entry[t]]) /\ UNCHANGED dev
      BY <2>4, <3>1, WalkFacts DEF WalkOn
    <3>3. /\ UNCHANGED <<op, obj, hnd, dev, drive, handle, flink, held>>
          /\ entry'[t] = flink[entry[t]]
      BY <1>1, <3>1, <3>2 DEF StepTo, TypeOK, heap, links
    <3>4. ASSUME op[t] = "valid", obj[t] = o PROVE Ahead(t, o)'
      <4>1. Ahead(t, o) /\ entry[t] # o
        BY <3>1, <3>3, <3>4 DEF AskInv, Sought
      <4> QED BY <3>3, <4>1, StillAhead
    <3>5. ASSUME op[t] = "find", handle[o] = hnd[t], Ahead(t, o) PROVE Ahead(t, o)'
      <4>1. entry[t] # o
        BY <1>1, <3>1, <3>3, <3>5 DEF Sought
      <4> QED BY <3>3, <3>5, <4>1, StillAhead
    <3> QED BY <3>1, <3>3, <3>4, <3>5 DEF AskInv
  <2>5. CASE WalkEnds(t)
    <3>1. /\ pc[t] = "walk" /\ AtEnd(t) /\ UNCHANGED <<heap, links, held>>
          /\ op[t] = "find" => /\ dev' = [dev EXCEPT ![t] = Min(After(dev[t]))]
                               /\ StepTo(t, flink[Min(After(dev[t]))]) /\ After(dev[t]) # {}
          /\ op[t] # "find" => op[t] = "close" /\ pc'[t] = "free"
      BY <1>1, <2>5 DEF WalkEnds, AtEnd, Return, Goto, TypeOK
    <3>2. /\ op[t] = "find" /\ op'[t] = "find" /\ hnd'[t] = hnd[t] /\ dev'[t] = Min(After(dev[t]))
          /\ entry'[t] = flink[Min(After(dev[t]))] /\ UNCHANGED <<drive, handle, flink, held>>
      BY <1>1, <3>1 DEF StepTo, TypeOK, heap, links
    <3>3. entry[t] = dev[t] /\ dev[t] \in Drives
      <4>1. entry[t] = dev[t]
        BY <3>1, <3>2 DEF AtEnd, ListOf
      <4>2. On(entry[t]) = dev[t] /\ entry[t] \in Fwd \cup Drives
        BY <3>1, <3>2 DEF ListInv, Place
      <4> QED BY <1>1, <4>1, <4>2, HeldLinked, Live DEF On
    <3>4. ASSUME handle[o] = hnd[t]
          PROVE  drive[o] > dev'[t] \/ (drive[o] = dev'[t] /\ Ahead(t, o)')
      <4>1. drive[o] > dev[t]
        <5>1. ~Ahead(t, o)
          BY <3>2, <3>3, NotAtHead
        <5> QED BY <3>1, <3>2, <3>4, <5>1 DEF AskInv
      <4>2. drive[o] \in Drives
        BY <1>1, <3>2, HeldLinked, Live
      <4>3. drive[o] \in After(dev[t]) /\ After(dev[t]) \in SUBSET Nat
        BY <4>1, <4>2, Names DEF After
      <4>4. Min(After(dev[t])) \in Nat /\ Min(After(dev[t])) <= drive[o] /\ drive[o] \in Nat
        BY <4>3, MinIn
      <4>5. drive[o] = Min(After(dev[t])) => Ahead(t, o)'
        BY <1>1, <3>2, AllAhead
      <4> QED BY <3>2, <4>4, <4>5
    <3> QED BY <3>2, <3>4
  <2>6. CASE /\ ~\E p \in Objs : IsValidHandle(t, p)
             /\ ~\E h \in OSHandles : FromDiskHandle(t, h)
             /\ ~WalkOn(t) /\ ~WalkEnds(t)
    <3>1. op'[t] = "close"
      <4>1. CASE \E p \in held : Close(t, p)
        BY <1>1, <4>1 DEF Close, StartWalk, Return, Goto, TypeOK
      <4>2. CASE UnlinkNext(t)
        <5>1. op[t] = "close"
          BY <1>1, <4>2 DEF UnlinkNext, HandlesInv, Ownership, Places, Shape, Unlinking
        <5> QED BY <1>1, <4>2, <5>1 DEF UnlinkNext, Undescribed, Goto, TypeOK
      <4>3. CASE ~(\E p \in held : Close(t, p)) /\ ~UnlinkNext(t)
        <5>1. pc'[t] # "walk"
          <6>1. CASE \E d \in MayOpen[t] : CreateFile(t, d)
            BY <1>1, <6>1 DEF CreateFile, Return, Goto, TypeOK
          <6>2. CASE \E p \in held : GetDiskHandle(t, p)
            BY <1>1, <6>2 DEF GetDiskHandle, Return, Goto, TypeOK
          <6>3. CASE OpenStep(t)
            BY <1>1, <6>3 DEF OpenStep, MoveToStart, Calloc, LinkPrev, LinkHead, GiveUp, Undescribed,
               Return, Goto, TypeOK
          <6>4. CASE WalkFinds(t) \/ UnlinkPrev(t) \/ Free(t)
            BY <1>1, <6>4 DEF WalkFinds, UnlinkPrev, Free, Undescribed, Return, Goto, TypeOK
          <6> QED BY <2>1, <2>6, <4>3, <6>1, <6>2, <6>3, <6>4 DEF Call, Continue, WalkStep, CloseStep
        <5> QED BY <5>1
      <4> QED BY <4>1, <4>2, <4>3
    <3> QED BY <3>1
  <2> QED BY <2>2, <2>3, <2>4, <2>5, <2>6
<1> QED BY <1>2, <1>3

Answering == DOMAIN ret = Threads

LEMMA AnsweringStep == Answering /\ [Next]_vars => Answering'
<1> SUFFICES ASSUME Answering, [Next]_vars PROVE Answering'
  OBVIOUS
<1>1. ASSUME NEW t \in Threads, NEW v, Return(t, v) PROVE Answering'
  BY <1>1 DEF Return, Answering
<1>2. CASE ret' = ret
  BY <1>2 DEF Answering
<1>3. ASSUME NEW t \in Threads, Call(t), ret' # ret PROVE \E v : Return(t, v)
  BY <1>3 DEF Call, CreateFile, Close, StartWalk, IsValidHandle, FromDiskHandle, GetDiskHandle
<1>4. ASSUME NEW t \in Threads, OpenStep(t), ret' # ret PROVE \E v : Return(t, v)
  BY <1>4 DEF OpenStep, MoveToStart, Calloc, GiveUp, LinkPrev, LinkHead, Undescribed
<1>5. ASSUME NEW t \in Threads, WalkStep(t) \/ CloseStep(t), ret' # ret PROVE \E v : Return(t, v)
  BY <1>5 DEF WalkStep, WalkOn, WalkFinds, WalkEnds, StepTo, CloseStep, UnlinkPrev, UnlinkNext, Free,
     Undescribed
<1> QED BY <1>1, <1>2, <1>3, <1>4, <1>5 DEF Next, Continue, vars

LEMMA AnswerStep ==
  ASSUME OneCaller, ListInv, Reads, AskInv, Answering, [Next]_vars, NEW t \in Threads,
         pc[t] = "walk", pc'[t] = "idle"
  PROVE  /\ op[t] = "valid" => ret'[t] = IF obj[t] \in held THEN "TRUE" ELSE "FALSE"
         /\ op[t] = "find" => ret'[t] = Owner(hnd[t])
<1>1. TypeOK /\ HandlesInv /\ held \subseteq live /\ live \subseteq Objs
  BY DEF ListInv, HandlesInv, TypeOK
<1>2. WalkFinds(t) \/ WalkEnds(t)
  <2>1. pc' # pc
    OBVIOUS
  <2>2. Call(t) \/ Continue(t)
    BY <2>1 DEF Next, OneCaller, vars
  <2>3. ~Call(t)
    BY DEF Call, CreateFile, Close, IsValidHandle, FromDiskHandle, GetDiskHandle
  <2>4. ~OpenStep(t) /\ ~CloseStep(t)
    BY DEF OpenStep, MoveToStart, Calloc, LinkPrev, LinkHead, CloseStep, UnlinkPrev, UnlinkNext, Free
  <2>5. ~WalkOn(t)
    BY <1>1 DEF WalkOn, StepTo, Undescribed, Goto, TypeOK
  <2> QED BY <2>2, <2>3, <2>4, <2>5 DEF Continue, WalkStep
<1>3. op[t] # "close" => live \subseteq held
  <2>1. ASSUME op[t] # "close" PROVE ~HasObject(t) /\ ~Lost
    BY <2>1 DEF HasObject, Linking, Lost, ListInv, NoUndefined
  <2> QED BY <1>1, <2>1 DEF OneCaller, HandlesInv, Ownership, Owned
<1>4. entry[t] \in Fwd \cup Drives /\ (op[t] = "find" => On(entry[t]) = dev[t])
  BY WalkFacts DEF ListInv, Place
<1>5. /\ Fwd \subseteq live /\ \A d \in Drives : d \notin Objs /\ d # Null
      /\ \A o \in held : drive[o] \in Drives
  BY <1>1, HeldLinked, Live, Names DEF Node
<1>6. CASE WalkFinds(t)
  <2>1. ASSUME op[t] = "valid" PROVE ret'[t] = "TRUE" /\ obj[t] \in held
    <3>1. ret'[t] = "TRUE" /\ entry[t] = obj[t]
      BY <1>1, <1>6, <2>1 DEF WalkFinds, Return, Sought, TypeOK, Answering
    <3>2. obj[t] \in Objs \cup {Null}
      BY <1>1 DEF TypeOK
    <3> QED BY <1>3, <1>4, <1>5, <2>1, <3>1, <3>2
  <2>2. ASSUME op[t] = "find" PROVE ret'[t] = Owner(hnd[t])
    <3>1. ret'[t] = entry[t] /\ entry[t] \in held /\ handle[entry[t]] = hnd[t]
      BY <1>1, <1>3, <1>6, <2>2 DEF WalkFinds, Return, Sought, TypeOK, Answering
    <3>2. \A o \in held : handle[o] = hnd[t] => o = entry[t]
      BY <1>1, <3>1 DEF HandlesInv, Ownership, Owners
    <3> QED BY <3>1, <3>2 DEF Owner
  <2> QED BY <2>1, <2>2
<1>7. CASE WalkEnds(t)
  <2>1. AtEnd(t)
    BY <1>7 DEF WalkEnds
  <2>2. ASSUME op[t] = "valid" PROVE ret'[t] = "FALSE" /\ obj[t] \notin held
    <3>1. ret'[t] = "FALSE"
      BY <1>1, <1>7, <2>2 DEF WalkEnds, Return, TypeOK, Answering
    <3>2. ASSUME obj[t] \in held PROVE FALSE
      <4>1. entry[t] = drive[obj[t]]
        BY <2>1, <2>2 DEF AtEnd, ListOf
      <4>2. entry[t] \in Drives
        BY <1>5, <3>2, <4>1
      <4>3. Ahead(t, obj[t])
        BY <2>2, <3>2 DEF AskInv
      <4> QED BY <3>2, <4>2, <4>3, NotAtHead
    <3> QED BY <3>1, <3>2
  <2>3. ASSUME op[t] = "find" PROVE ret'[t] = Owner(hnd[t])
    <3>1. ret'[t] = Null /\ After(dev[t]) = {}
      BY <1>1, <1>7, <2>3 DEF WalkEnds, Return, StepTo, TypeOK, Answering
    <3>2. entry[t] = dev[t]
      BY <2>1, <2>3 DEF AtEnd, ListOf
    <3>3. entry[t] \in Drives
      <4>1. entry[t] \notin Fwd
        BY <1>1, <1>4, <1>5, <2>3, <3>2, Live
      <4> QED BY <1>4, <4>1
    <3>4. ASSUME NEW o \in held, handle[o] = hnd[t] PROVE FALSE
      <4>1. ~Ahead(t, o)
        BY <3>3, NotAtHead
      <4>2. drive[o] > dev[t]
        BY <2>3, <3>4, <4>1 DEF AskInv
      <4> QED BY <1>5, <3>1, <4>2 DEF After
    <3> QED BY <3>1, <3>4 DEF Owner
  <2> QED BY <2>2, <2>3
<1> QED BY <1>2, <1>6, <1>7

(* DevBlkIsValidHandle and DevBlkFromDiskHandle (windevblk.c), called by   *)
(* one thread, answer by what is held, though addresses and OS handle      *)
(* values are used again.                                                  *)
THEOREM QueriesAnswerRight == ASSUME OneCaller PROVE Spec => AnswersRight
<1>1. Apart
  BY CallersApart
<1>2. Spec => []ListInv
  BY <1>1, ListsInductive
<1>3. Reads
  BY ForwardIs DEF Reads
<1>4. Init => AskInv /\ Answering
  BY DEF Init, AskInv, Answering
<1>5. ListInv /\ ListInv' /\ Reads /\ Reads' /\ AskInv /\ [Next]_vars => AskInv'
  BY AskStep
<1> DEFINE Right == \A t \in Threads : pc[t] = "walk" /\ pc'[t] = "idle" =>
             /\ op[t] = "valid" => ret'[t] = IF obj[t] \in held THEN "TRUE" ELSE "FALSE"
             /\ op[t] = "find" => ret'[t] = Owner(hnd[t])
<1>6. Answering /\ [Next]_vars => Answering'
  BY AnsweringStep
<1>7. ListInv /\ Reads /\ AskInv /\ Answering /\ [Next]_vars => [Right]_vars
  BY AnswerStep
<1> QED BY <1>2, <1>3, <1>4, <1>5, <1>6, <1>7, PTL DEF Spec, AnswersRight
=============================================================================
